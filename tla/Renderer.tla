------------------------------ MODULE Renderer ------------------------------
(***************************************************************************)
(* The terminal of a kopsrox command.  The live region, a progress bar and *)
(* the innermost step, is kept below everything printed: whoever writes    *)
(* erases it, prints and draws it again.  Two threads do so, the program   *)
(* and a daemon that redraws every 0.1 s, under one reentrant lock.  How   *)
(* many rows to erase is remembered in LIVE.                               *)
(***************************************************************************)
EXTENDS Integers, Sequences, SequencesExt

CONSTANTS
  MaxOps,    \* bound: operations of the program
  MaxDepth,  \* bound: nested steps
  Resizes    \* bound: resizes of the terminal

ASSUME RendererAssumption == MaxOps \in Nat /\ MaxDepth \in Nat /\ Resizes \in Nat

VARIABLES
  screen,  \* the rows on the screen: text, bar or step
  live,    \* LIVE: the rows clear_live will erase
  steps,   \* the number of STEPS
  plan,    \* PLAN is not None
  lock,    \* LOCK: who holds it and how often
  pc,      \* pc[t]: what thread t does next
  text,    \* what the program's emit prints: a row or none
  open,    \* `with kstep` blocks whose __exit__ has yet to run
  leaving, \* the program ends: aborted, or an exit or exception
  thread,  \* the render thread has been started, the cursor hidden
  hidden, ops, resizes

rvars == <<screen, live, steps, plan, lock, pc, text, open, leaving, thread, hidden,
           ops, resizes>>
terminal == <<screen, live>>
program  == <<plan, open, leaving, thread, hidden, ops, resizes>>

Threads == {"main", "render"}

RendererInit ==
  /\ screen = <<>> /\ live = 0 /\ steps = 0 /\ plan = FALSE
  /\ lock = [by |-> "none", depth |-> 0]
  /\ pc = [main |-> "run", render |-> "sleep"]
  /\ text = <<>> /\ open = 0 /\ leaving = "no"
  /\ thread = FALSE /\ hidden = FALSE /\ ops = 0 /\ resizes = 0

(********************************* The lock ********************************)
\* threading.RLock.  Mutant: a plain Lock.
PlainFree(t) == lock.by = "none"
Free(t)      == lock.by \in {"none", t}
Acquire(t)   == Free(t) /\ lock' = [by |-> t, depth |-> lock.depth + 1]
Unlocked     == IF lock.depth = 1 THEN [by |-> "none", depth |-> 0]
                                  ELSE [lock EXCEPT !.depth = @ - 1]
Holds(t)     == lock.by = t
Go(t, p)     == pc' = [pc EXCEPT ![t] = p]

(********************** clear_live, write, draw_live ***********************)
\* Mutants of Erased: one row too few, one too many.
ErasedLess == SubSeq(screen, 1, Len(screen) - (IF live = 0 THEN 0 ELSE live - 1))
ErasedMore == SubSeq(screen, 1, Len(screen) - (IF live = 0 THEN 0 ELSE live + 1))
Erased == SubSeq(screen, 1, Len(screen) - live)
Lines  == (IF plan THEN <<"bar">> ELSE <<>>) \o (IF steps > 0 THEN <<"step">> ELSE <<>>)

ClearLive(t) ==
  /\ pc[t] = "clear" /\ Holds(t)
  /\ screen' = Erased /\ live' = 0
  /\ Go(t, IF t = "main" /\ text # <<>> THEN "print" ELSE "draw")
  /\ UNCHANGED <<steps, lock, text, program>>

WriteText == /\ pc["main"] = "print" /\ Holds("main")
             /\ screen' = screen \o text /\ text' = <<>> /\ Go("main", "draw")
             /\ UNCHANGED <<live, steps, lock, program>>

DrawLive(t) == /\ pc[t] = "draw" /\ Holds(t)
               /\ screen' = screen \o Lines /\ Go(t, "count")
               /\ UNCHANGED <<live, steps, lock, text, program>>

\* LIVE = len(lines), and the end of the `with LOCK`.
Count(t) == /\ pc[t] = "count" /\ Holds(t)
            /\ live' = Len(Lines) /\ lock' = Unlocked
            /\ Go(t, IF t = "render" THEN "sleep" ELSE IF lock.depth > 1 THEN "release"
                     ELSE IF leaving = "no" THEN "run" ELSE "unwind")
            /\ UNCHANGED <<screen, steps, text, program>>

Release == /\ pc["main"] = "release" /\ Holds("main")
           /\ lock' = Unlocked
           /\ Go("main", IF leaving = "no" THEN "run" ELSE "unwind")
           /\ UNCHANGED <<terminal, steps, text, program>>

Emit == /\ pc["main"] = "emit" /\ Acquire("main") /\ Go("main", "clear")
        /\ UNCHANGED <<terminal, steps, text, program>>

(******************************* The program *******************************)
Runs == pc["main"] = "run" /\ ops < MaxOps /\ ops' = ops + 1
Row  == <<"text">>

KPlan == /\ Runs /\ Free("main") /\ plan' = TRUE
         /\ UNCHANGED <<terminal, steps, lock, pc, text, open, leaving, thread, hidden, resizes>>

KMsg == /\ Runs /\ text' = Row /\ Go("main", "emit")
        /\ UNCHANGED <<terminal, steps, lock, plan, open, leaving, thread, hidden, resizes>>

\* kstep.__enter__: the first step starts the thread and hides the cursor.
EnterStep == /\ Runs /\ Free("main") /\ steps < MaxDepth
             /\ steps' = steps + 1 /\ open' = open + 1
             /\ thread' = TRUE /\ hidden' = (hidden \/ ~thread)
             /\ UNCHANGED <<terminal, lock, pc, text, plan, leaving, resizes>>

\* kstep.__exit__: a line, unless the step is quiet.
LeaveStep == /\ Runs /\ open > 0 /\ Acquire("main")
             /\ steps' = steps - 1 /\ open' = open - 1
             /\ \/ text' = Row /\ Go("main", "emit")
                \/ text' = <<>> /\ Go("main", "clear")
             /\ UNCHANGED <<terminal, plan, leaving, thread, hidden, resizes>>

\* kabort: the steps are dead, the message, exit(1).
\* Mutant of Dead: they are not.
StillLive == steps
Dead      == 0
KAbort == /\ pc["main"] = "run" /\ Acquire("main")
          /\ steps' = Dead /\ text' = Row /\ leaving' = "aborted" /\ Go("main", "emit")
          /\ UNCHANGED <<terminal, plan, open, thread, hidden, ops, resizes>>

\* exit(), the end of the program, an exception, Ctrl-C between two calls.
Leave == /\ pc["main"] = "run"
         /\ leaving' = "left" /\ Go("main", "unwind")
         /\ UNCHANGED <<terminal, steps, lock, text, plan, open, thread, hidden, ops, resizes>>

\* The __exit__ of every open step, with an exception.
Unwind == /\ pc["main"] = "unwind" /\ open > 0 /\ Acquire("main")
          /\ steps' = (IF steps > 0 THEN steps - 1 ELSE 0) /\ open' = open - 1
          /\ Go("main", "clear")
          /\ UNCHANGED <<terminal, text, plan, leaving, thread, hidden, ops, resizes>>

\* atexit: the steps and the live region go, the cursor comes back.
Cleanup == /\ pc["main"] = "unwind" /\ open = 0 /\ Free("main")
           /\ steps' = 0 /\ screen' = Erased /\ live' = 0 /\ hidden' = FALSE
           /\ Go("main", "exiting")
           /\ UNCHANGED <<lock, text, plan, open, leaving, thread, ops, resizes>>

\* The interpreter ends, and the daemon thread with it wherever it is.
Exit == /\ pc["main"] = "exiting"
        /\ pc' = [main |-> "over", render |-> "over"]
        /\ UNCHANGED <<terminal, steps, lock, text, program>>

(************************* The thread, the terminal ************************)
RenderWakes == /\ pc["render"] = "sleep" /\ thread /\ (steps > 0 \/ plan)
               /\ Acquire("render") /\ Go("render", "clear")
               /\ UNCHANGED <<terminal, steps, text, program>>

\* The terminal gets narrower: the live rows on it wrap.
LiveRows == SubSeq(screen, Len(screen) - live + 1, Len(screen))
Resize == /\ resizes < Resizes /\ pc["main"] # "over" /\ live > 0
          /\ screen' = SubSeq(screen, 1, Len(screen) - live) \o LiveRows \o LiveRows
          /\ resizes' = resizes + 1
          /\ UNCHANGED <<live, steps, lock, pc, text, plan, open, leaving, thread, hidden, ops>>

Main == \/ ClearLive("main") \/ WriteText \/ DrawLive("main") \/ Count("main") \/ Release \/ Emit
        \/ KPlan \/ KMsg \/ EnterStep \/ LeaveStep \/ KAbort \/ Leave
        \/ Unwind \/ Cleanup \/ Exit
Render == RenderWakes \/ ClearLive("render") \/ DrawLive("render") \/ Count("render")

RendererNext == Main \/ Render \/ Resize
RendererSpec == RendererInit /\ [][RendererNext]_rvars

\* The thread sleeps 0.1 s between two draws: the program gets the lock again
\* and again, and once asked to leave it does.
FairRendererSpec == RendererSpec /\ SF_rvars(Main) /\ WF_rvars(Render)

(******************************* Properties ********************************)
\* kopsrox_kmsg.py:69 and dev/test_kmsg.py:74: each redraw, whoever does it,
\* leaves LIVE rows of live region below all text and none above them: it never
\* creeps down the screen, as long as that keeps its width.
NeverCreeps == [][(\E t \in Threads : Count(t)) /\ resizes = 0 =>
  \A i \in 1..Len(screen') : screen'[i] # "text" <=> i > Len(screen') - live']_rvars

\* kopsrox_kmsg.py:87: erasing the live region never takes a printed line.
IsText(r) == r = "text"
TextRows == SelectSeq(screen, IsText)
TextKept == [][IsPrefix(TextRows, TextRows')]_rvars

\* kopsrox_kmsg.py:156: after a kabort no step is drawn any more, by neither
\* thread, while the open steps unwind, on a terminal that keeps its width.
AbortedStepsGone ==
  leaving = "aborted" /\ pc["main"] = "unwind" /\ lock.by = "none" /\ resizes = 0
    => "step" \notin ToSet(screen)

\* kopsrox_kmsg.py:37: the lock is reentrant and always released: a program
\* that leaves is over in the end, and neither thread waits forever.
GetsOut == leaving # "no" ~> pc["main"] = "over"
=============================================================================
