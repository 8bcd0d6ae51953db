---------------------------- MODULE RendererProofs ---------------------------
(***************************************************************************)
(* What is proved about the terminal, for any number of steps and          *)
(* messages and every interleaving with the thread that redraws: as long   *)
(* as its width stays, the live region is below all text and LIVE is its   *)
(* height, and an abort leaves no step on it.                              *)
(***************************************************************************)
EXTENDS Renderer, SequenceTheorems, TLAPS

(******************************** The types ********************************)
Rows == {"text", "bar", "step"}
RendererTyped ==
  /\ screen \in Seq(Rows) /\ live \in Nat /\ steps \in Nat /\ plan \in BOOLEAN
  /\ lock \in [by : {"none"} \cup Threads, depth : 0..2]
  /\ pc \in [Threads -> {"run", "emit", "clear", "print", "draw", "count", "release",
                         "unwind", "exiting", "sleep", "over"}]
  /\ text \in {<<>>, Row} /\ open \in Nat /\ leaving \in {"no", "aborted", "left"}
  /\ resizes \in Nat

(****************************** The invariant ******************************)
\* Who is where it erases and draws has the lock.
Drawing == {"clear", "print", "draw", "count"}
LockInv ==
  /\ lock.by = "none" <=> lock.depth = 0
  /\ pc["main"] \in Drawing => lock.by = "main"
  /\ pc["main"] = "release" => lock.by = "main" /\ lock.depth = 1
  /\ pc["main"] = "emit" /\ lock.by = "main" => lock.depth = 1
  /\ pc["main"] \in {"run", "unwind", "exiting"} => lock.by # "main"
  /\ pc["main"] # "over" =>
       /\ pc["render"] \in Drawing <=> lock.by = "render"
       /\ lock.by = "render" => lock.depth = 1
  /\ pc["render"] # "print" /\ pc["main"] # "sleep"
  /\ pc["main"] = "over" => pc["render"] = "over"

\* A step is open for every one that is drawn, until the program leaves.
StepsInv ==
  /\ leaving = "no" => steps = open
  /\ pc["main"] = "run" => leaving = "no"
  /\ pc["main"] \in {"unwind", "exiting"} => leaving # "no"
  /\ leaving = "aborted" => steps = 0

\* What is to be erased is on the screen, and nothing is after it was.
At(t, p) == pc[t] \in p
Erasing  == \E t \in Threads : At(t, {"print", "draw"})
Counting == \E t \in Threads : At(t, {"count"})
LiveInv == /\ live <= Len(screen)
           /\ Erasing \/ Counting => live = 0
           /\ Counting => Len(Lines) <= Len(screen)

\* On a screen that keeps its width the last k rows are live, all above is text.
Shaped(k) == \A i \in 1..Len(screen) : screen[i] = "text" <=> i <= Len(screen) - k
ShapeInv == resizes = 0 /\ pc["main"] # "over" =>
              Shaped(IF Counting THEN Len(Lines) ELSE live)

\* After an abort no step is drawn, but for those the message will erase.
NoStep == \A i \in 1..Len(screen) : screen[i] # "step"
AbortInv == resizes = 0 /\ leaving = "aborted" /\ pc["main"] # "over"
              /\ ~(At("main", {"emit", "clear"}) /\ text # <<>>)
            => NoStep

ScreenInv == RendererTyped /\ LockInv /\ StepsInv /\ LiveInv /\ ShapeInv /\ AbortInv

(********************************* The rows ********************************)
\* What is drawn, and what erasing and writing do to a sequence of rows.
LEMMA LinesAre ==
  ASSUME RendererTyped
  PROVE  /\ Lines \in Seq(Rows) /\ Len(Lines) \in Nat
         /\ \A i \in 1..Len(Lines) : Lines[i] # "text" /\ (steps = 0 => Lines[i] # "step")
<1>1. CASE plan /\ steps > 0
  <2>1. Lines = <<"bar">> \o <<"step">>
    BY <1>1 DEF Lines
  <2>2. Lines \in Seq(Rows) /\ Len(Lines) = 2 /\ Lines[1] = "bar" /\ Lines[2] = "step"
    BY <2>1, ConcatProperties DEF Rows
  <2> QED BY <1>1, <2>2
<1>2. CASE plan /\ ~(steps > 0)
  <2>1. Lines = <<"bar">>
    BY <1>2 DEF Lines
  <2> QED BY <2>1 DEF Rows
<1>3. CASE ~plan /\ steps > 0
  <2>1. Lines = <<"step">>
    BY <1>3 DEF Lines
  <2> QED BY <1>3, <2>1 DEF Rows
<1>4. CASE ~plan /\ ~(steps > 0)
  <2>1. Lines = <<>>
    BY <1>4 DEF Lines
  <2> QED BY <2>1 DEF Rows
<1> QED BY <1>1, <1>2, <1>3, <1>4

\* Erasing takes the last rows and leaves the others as they are.
LEMMA ErasedIs ==
  ASSUME NEW s \in Seq(Rows), NEW n \in Nat, n <= Len(s)
  PROVE  LET e == SubSeq(s, 1, Len(s) - n) IN
         e \in Seq(Rows) /\ Len(e) = Len(s) - n /\ \A i \in 1..Len(e) : e[i] = s[i]
<1>1. Len(s) \in Nat
  BY LenProperties
<1> QED BY <1>1

\* Writing puts rows after those on the screen.
LEMMA WrittenIs ==
  ASSUME NEW s \in Seq(Rows), NEW x \in Seq(Rows)
  PROVE  /\ s \o x \in Seq(Rows) /\ Len(s \o x) = Len(s) + Len(x)
         /\ Len(s) \in Nat /\ Len(x) \in Nat
         /\ \A i \in 1..Len(s \o x) : IF i <= Len(s) THEN (s \o x)[i] = s[i]
              ELSE i - Len(s) \in 1..Len(x) /\ (s \o x)[i] = x[i - Len(s)]
<1>1. Len(s) \in Nat /\ Len(x) \in Nat
  BY LenProperties
<1> QED BY <1>1, ConcatProperties

(****************************** Where nothing is drawn *********************)
\* Nothing on the screen changes, and nobody begins or ends drawing.
LEMMA ScreenStays ==
  ASSUME ScreenInv, UNCHANGED terminal, resizes' = resizes,
         Erasing' = Erasing, Counting' = Counting, Counting => Lines' = Lines,
         pc'["main"] # "over" => pc["main"] # "over"
  PROVE  LiveInv' /\ ShapeInv'
<1>1. screen' = screen /\ live' = live
  BY DEF terminal
<1>2. LiveInv'
  BY <1>1 DEF ScreenInv, LiveInv
<1>3. ShapeInv'
  BY <1>1 DEF ScreenInv, ShapeInv, Shaped
<1> QED BY <1>2, <1>3

\* Where the abort's message is about to be erased it still is, or never was.
LEMMA AbortStays ==
  ASSUME ScreenInv, screen' = screen, resizes' = resizes,
         pc'["main"] # "over" => pc["main"] # "over",
         \/ leaving' # "aborted"
         \/ At("main", {"emit", "clear"})' /\ text' # <<>>
         \/ /\ leaving = "aborted"
            /\ ~(At("main", {"emit", "clear"}) /\ text # <<>>)
  PROVE  AbortInv'
BY DEF ScreenInv, AbortInv, NoStep

\* Who has the lock alone draws.
LEMMA Alone ==
  ASSUME ScreenInv
  PROVE  /\ lock.by \notin {"main", "render"} /\ pc["main"] # "over" => ~Erasing /\ ~Counting
         /\ \A t \in Threads : pc[t] \in {"draw", "print"} => Erasing /\ ~Counting
         /\ \A t \in Threads : pc[t] = "count" => Counting /\ ~Erasing
         /\ \A t \in Threads : pc[t] = "clear" => ~Counting /\ ~Erasing
BY DEF ScreenInv, LockInv, Drawing, Erasing, Counting, At, Threads

\* The end of an outer `with LOCK`, after emit has left the inner one.
LEMMA ReleaseKeeps == ASSUME ScreenInv, Release PROVE ScreenInv'
<1>1. /\ pc["main"] = "release" /\ lock.by = "main" /\ lock.depth = 1 /\ lock' = Unlocked
      /\ pc' = [pc EXCEPT !["main"] = IF leaving = "no" THEN "run" ELSE "unwind"]
      /\ UNCHANGED <<terminal, steps, text, program>>
  BY DEF Release, Holds, Go, ScreenInv, LockInv
<1>2. lock' = [by |-> "none", depth |-> 0]
  BY <1>1 DEF Unlocked
<1>3. pc'["main"] \in {"run", "unwind"} /\ pc'["render"] = pc["render"]
      /\ (pc'["main"] = "run" <=> leaving = "no")
  BY <1>1 DEF ScreenInv, RendererTyped, Threads
<1>4. RendererTyped'
  BY <1>1, <1>2 DEF ScreenInv, RendererTyped, Threads, terminal, program
<1>5. LockInv'
  BY <1>1, <1>2, <1>3 DEF ScreenInv, LockInv, Drawing
<1>6. StepsInv'
  BY <1>1, <1>3 DEF ScreenInv, StepsInv, program
<1>7. LiveInv' /\ ShapeInv'
  <2>1. Erasing' = Erasing /\ Counting' = Counting
    BY <1>1, <1>3 DEF Erasing, Counting, At, Threads
  <2>2. Lines' = Lines
    BY <1>1 DEF Lines, program
  <2> QED BY <1>1, <2>1, <2>2, ScreenStays DEF program
<1>8. AbortInv'
  BY <1>1, AbortStays DEF program, terminal, At
<1> QED BY <1>4, <1>5, <1>6, <1>7, <1>8 DEF ScreenInv

\* The program gets the lock, perhaps for the second time: nothing has been
\* erased.
LEMMA EmitKeeps == ASSUME ScreenInv, Emit PROVE ScreenInv'
<1>1. /\ pc["main"] = "emit" /\ lock.by \in {"none", "main"}
      /\ lock' = [by |-> "main", depth |-> lock.depth + 1]
      /\ pc' = [pc EXCEPT !["main"] = "clear"]
      /\ UNCHANGED <<terminal, steps, text, program>>
  BY DEF Emit, Acquire, Free, Go
<1>2. lock.depth \in {0, 1} /\ pc["render"] \notin Drawing
  BY <1>1 DEF ScreenInv, LockInv
<1>3. pc'["main"] = "clear" /\ pc'["render"] = pc["render"]
  BY <1>1 DEF ScreenInv, RendererTyped, Threads
<1>4. RendererTyped'
  BY <1>1, <1>2 DEF ScreenInv, RendererTyped, Threads, terminal, program
<1>5. LockInv'
  BY <1>1, <1>2, <1>3 DEF ScreenInv, LockInv, Drawing
<1>6. StepsInv'
  BY <1>1, <1>3 DEF ScreenInv, StepsInv, program
<1>7. LiveInv' /\ ShapeInv'
  <2>1. Erasing' = Erasing /\ Counting' = Counting
    BY <1>1, <1>3 DEF Erasing, Counting, At, Threads
  <2>2. Lines' = Lines
    BY <1>1 DEF Lines, program
  <2> QED BY <1>1, <2>1, <2>2, ScreenStays DEF program
<1>8. AbortInv'
  BY <1>1, <1>3, AbortStays DEF program, terminal, At
<1> QED BY <1>4, <1>5, <1>6, <1>7, <1>8 DEF ScreenInv

\* The program may go on without the lock: nobody draws while the plan and the
\* steps change.
LEMMA RunsKeep == ASSUME ScreenInv, KPlan \/ EnterStep PROVE ScreenInv'
<1>1. /\ pc["main"] = "run" /\ lock.by = "none" /\ leaving = "no"
      /\ UNCHANGED <<terminal, lock, pc, text, leaving, resizes>>
      /\ \/ steps' = steps /\ open' = open /\ plan' = TRUE
         \/ steps' = steps + 1 /\ open' = open + 1 /\ plan' = plan
  BY DEF KPlan, EnterStep, Runs, Free, ScreenInv, LockInv, StepsInv
<1>2. RendererTyped'
  <2>1. steps' \in Nat /\ open' \in Nat
    BY <1>1 DEF ScreenInv, RendererTyped
  <2>2. plan' \in BOOLEAN
    BY <1>1, Zenon DEF ScreenInv, RendererTyped
  <2> QED BY <1>1, <2>1, <2>2, Zenon DEF ScreenInv, RendererTyped, terminal
<1>3. LockInv'
  BY <1>1 DEF ScreenInv, LockInv
<1>4. StepsInv'
  BY <1>1 DEF ScreenInv, StepsInv
<1>5. LiveInv' /\ ShapeInv'
  <2>1. Erasing' = Erasing /\ Counting' = Counting
    BY <1>1 DEF Erasing, Counting, At
  <2>2. ~Counting
    BY <1>1, Alone
  <2> QED BY <1>1, <2>1, <2>2, ScreenStays
<1>6. AbortInv'
  BY <1>1, AbortStays DEF terminal
<1> QED BY <1>2, <1>3, <1>4, <1>5, <1>6 DEF ScreenInv

\* A message is only handed to emit.
LEMMA KMsgKeeps == ASSUME ScreenInv, KMsg PROVE ScreenInv'
<1>1. /\ pc["main"] = "run" /\ leaving = "no" /\ text' = Row
      /\ pc' = [pc EXCEPT !["main"] = "emit"]
      /\ UNCHANGED <<terminal, steps, lock, plan, open, leaving, resizes>>
  BY DEF KMsg, Runs, Go, ScreenInv, StepsInv
<1>2. pc'["main"] = "emit" /\ pc'["render"] = pc["render"]
  BY <1>1 DEF ScreenInv, RendererTyped, Threads
<1>3. RendererTyped'
  BY <1>1 DEF ScreenInv, RendererTyped, Threads, terminal
<1>4. LockInv'
  BY <1>1, <1>2 DEF ScreenInv, LockInv, Drawing
<1>5. StepsInv'
  BY <1>1, <1>2 DEF ScreenInv, StepsInv
<1>6. LiveInv' /\ ShapeInv'
  <2>1. Erasing' = Erasing /\ Counting' = Counting
    BY <1>1, <1>2 DEF Erasing, Counting, At, Threads
  <2>2. Lines' = Lines
    BY <1>1 DEF Lines
  <2> QED BY <1>1, <2>1, <2>2, ScreenStays
<1>7. AbortInv'
  BY <1>1, AbortStays DEF terminal
<1> QED BY <1>3, <1>4, <1>5, <1>6, <1>7 DEF ScreenInv

\* A step ends, the program aborts, an open step is unwound: with the lock.
LEMMA LockedKeeps == ASSUME ScreenInv, LeaveStep \/ KAbort \/ Unwind PROVE ScreenInv'
<1>1. /\ pc["main"] \in {"run", "unwind"} /\ lock.by = "none" /\ lock.depth = 0
      /\ lock' = [by |-> "main", depth |-> lock.depth + 1]
      /\ \E p \in {"emit", "clear"} : pc' = [pc EXCEPT !["main"] = p]
      /\ UNCHANGED <<terminal, plan, resizes>>
  BY DEF LeaveStep, KAbort, Unwind, Runs, Acquire, Free, Go, ScreenInv, LockInv
<1>2. pc'["main"] \in {"emit", "clear"} /\ pc'["render"] = pc["render"]
      /\ pc["render"] \notin Drawing
  BY <1>1 DEF ScreenInv, RendererTyped, LockInv, Threads
<1>3. /\ steps' \in Nat /\ open' \in Nat /\ text' \in {<<>>, Row}
      /\ leaving' \in {"no", "aborted", "left"}
      /\ leaving' = "no" => steps' = open'
      /\ leaving' = "aborted" => steps' = 0
  BY DEF LeaveStep, KAbort, Unwind, Runs, Dead, ScreenInv, RendererTyped, StepsInv
<1>4. RendererTyped'
  BY <1>1, <1>3 DEF ScreenInv, RendererTyped, Threads, terminal
<1>5. LockInv'
  BY <1>1, <1>2 DEF ScreenInv, LockInv, Drawing
<1>6. StepsInv'
  BY <1>2, <1>3 DEF StepsInv
<1>7. LiveInv' /\ ShapeInv'
  <2>1. Erasing' = Erasing /\ Counting' = Counting
    BY <1>1, <1>2 DEF Erasing, Counting, At, Threads
  <2>2. ~Counting
    BY <1>1, Alone
  <2> QED BY <1>1, <2>1, <2>2, ScreenStays
<1>8. AbortInv'
  <2>1. CASE LeaveStep
    <3>1. leaving' = leaving /\ leaving = "no"
      BY <2>1 DEF LeaveStep, Runs, ScreenInv, StepsInv
    <3> QED BY <1>1, <3>1, AbortStays DEF terminal
  <2>2. CASE KAbort
    <3>1. text' # <<>> /\ pc'["main"] = "emit"
      BY <2>2 DEF KAbort, Row, Go, ScreenInv, RendererTyped, Threads
    <3> QED BY <1>1, <3>1, AbortStays DEF At, terminal
  <2>3. CASE Unwind
    <3>1. leaving' = leaving /\ pc["main"] = "unwind"
      BY <2>3 DEF Unwind
    <3>2. ~At("main", {"emit", "clear"})
      BY <3>1 DEF At
    <3> QED BY <1>1, <3>1, <3>2, AbortStays DEF terminal
  <2> QED BY <2>1, <2>2, <2>3
<1> QED BY <1>4, <1>5, <1>6, <1>7, <1>8 DEF ScreenInv

\* An exit or an exception begins to unwind.
LEMMA LeaveKeeps == ASSUME ScreenInv, Leave PROVE ScreenInv'
<1>1. /\ pc["main"] = "run" /\ leaving' = "left" /\ pc' = [pc EXCEPT !["main"] = "unwind"]
      /\ UNCHANGED <<terminal, steps, lock, text, plan, open, resizes>>
  BY DEF Leave, Go
<1>2. pc'["main"] = "unwind" /\ pc'["render"] = pc["render"]
  BY <1>1 DEF ScreenInv, RendererTyped, Threads
<1>3. RendererTyped'
  BY <1>1 DEF ScreenInv, RendererTyped, Threads, terminal
<1>4. LockInv'
  BY <1>1, <1>2 DEF ScreenInv, LockInv, Drawing
<1>5. StepsInv'
  BY <1>1, <1>2 DEF StepsInv
<1>6. LiveInv' /\ ShapeInv'
  <2>1. Erasing' = Erasing /\ Counting' = Counting
    BY <1>1, <1>2 DEF Erasing, Counting, At, Threads
  <2>2. Lines' = Lines
    BY <1>1 DEF Lines
  <2> QED BY <1>1, <2>1, <2>2, ScreenStays
<1>7. AbortInv'
  BY <1>1, AbortStays DEF terminal
<1> QED BY <1>3, <1>4, <1>5, <1>6, <1>7 DEF ScreenInv

\* The interpreter ends: nobody draws any more.
LEMMA ExitKeeps == ASSUME ScreenInv, Exit PROVE ScreenInv'
<1>1. /\ pc["main"] = "exiting" /\ pc' = [main |-> "over", render |-> "over"]
      /\ UNCHANGED <<terminal, steps, lock, text, program>>
  BY DEF Exit
<1>2. pc'["main"] = "over" /\ pc'["render"] = "over" /\ DOMAIN pc' = Threads
  BY <1>1 DEF Threads
<1>3. RendererTyped'
  <2>1. pc' = [t \in Threads |-> "over"]
    BY <1>1, <1>2 DEF Threads
  <2> QED BY <1>1, <2>1 DEF ScreenInv, RendererTyped, terminal, program
<1>4. LockInv' /\ StepsInv'
  BY <1>1, <1>2 DEF ScreenInv, LockInv, StepsInv, Drawing, program
<1>5. LiveInv'
  <2>1. ~Erasing' /\ ~Counting'
    BY <1>2 DEF Erasing, Counting, At, Threads
  <2> QED BY <1>1, <2>1 DEF ScreenInv, LiveInv, terminal
<1>6. ShapeInv' /\ AbortInv'
  BY <1>2 DEF ShapeInv, AbortInv
<1> QED BY <1>3, <1>4, <1>5, <1>6 DEF ScreenInv

\* The thread gets the lock only where the program is not drawing.
LEMMA RenderWakesKeeps == ASSUME ScreenInv, RenderWakes PROVE ScreenInv'
<1>1. /\ pc["render"] = "sleep" /\ lock.by \in {"none", "render"}
      /\ lock' = [by |-> "render", depth |-> lock.depth + 1]
      /\ pc' = [pc EXCEPT !["render"] = "clear"]
      /\ UNCHANGED <<terminal, steps, text, program>>
  BY DEF RenderWakes, Acquire, Free, Go
<1>2. lock.by = "none" /\ lock.depth = 0 /\ pc["main"] # "over"
  BY <1>1 DEF ScreenInv, LockInv, Drawing
<1>3. pc'["render"] = "clear" /\ pc'["main"] = pc["main"]
  BY <1>1 DEF ScreenInv, RendererTyped, Threads
<1>4. RendererTyped'
  BY <1>1, <1>2 DEF ScreenInv, RendererTyped, Threads, terminal, program
<1>5. LockInv'
  BY <1>1, <1>2, <1>3 DEF ScreenInv, LockInv, Drawing
<1>6. StepsInv'
  BY <1>1, <1>3 DEF ScreenInv, StepsInv, program
<1>7. LiveInv' /\ ShapeInv'
  <2>1. Erasing' = Erasing /\ Counting' = Counting
    BY <1>1, <1>3 DEF Erasing, Counting, At, Threads
  <2>2. Lines' = Lines
    BY <1>1 DEF Lines, program
  <2> QED BY <1>1, <1>3, <2>1, <2>2, ScreenStays DEF program
<1>8. AbortInv'
  <2>1. At("main", {"emit", "clear"})' = At("main", {"emit", "clear"})
    BY <1>3 DEF At
  <2> QED BY <1>1, <1>3, <2>1 DEF ScreenInv, AbortInv, NoStep, program, terminal
<1> QED BY <1>4, <1>5, <1>6, <1>7, <1>8 DEF ScreenInv

(******************************* Where it is drawn *************************)
\* What is erased is the live region: text is left.
LEMMA Erases ==
  ASSUME ScreenInv, ~Counting, screen' = Erased
  PROVE  /\ screen' \in Seq(Rows) /\ Len(screen') \in Nat
         /\ resizes = 0 /\ pc["main"] # "over" =>
              \A i \in 1..Len(screen') : screen'[i] = "text"
<1>1. screen \in Seq(Rows) /\ live \in Nat /\ live <= Len(screen) /\ Len(screen) \in Nat
  BY LenProperties DEF ScreenInv, RendererTyped, LiveInv
<1>2. /\ screen' \in Seq(Rows) /\ Len(screen') = Len(screen) - live
      /\ \A i \in 1..Len(screen') : screen'[i] = screen[i]
  BY <1>1, ErasedIs DEF Erased
<1>3. resizes = 0 /\ pc["main"] # "over" => Shaped(live)
  BY DEF ScreenInv, ShapeInv
<1> QED BY <1>1, <1>2, <1>3 DEF Shaped

\* clear_live: on a fixed terminal exactly the live rows go, so that text is
\* left.
LEMMA ClearKeeps ==
  ASSUME ScreenInv, NEW t \in Threads, ClearLive(t) PROVE ScreenInv'
<1>1. /\ pc[t] = "clear" /\ lock.by = t /\ screen' = Erased /\ live' = 0
      /\ pc' = [pc EXCEPT ![t] = IF t = "main" /\ text # <<>> THEN "print" ELSE "draw"]
      /\ UNCHANGED <<steps, lock, text, program>>
  BY DEF ClearLive, Holds, Go
<1>2. /\ pc'[t] \in {"print", "draw"} /\ (pc'[t] = "print" => t = "main")
      /\ \A u \in Threads \ {t} : pc'[u] = pc[u] /\ pc[u] \notin Drawing
      /\ pc["main"] # "over"
  BY <1>1 DEF ScreenInv, RendererTyped, LockInv, Drawing, Threads
<1>3. ~Counting /\ Erasing' /\ ~Counting'
  BY <1>1, <1>2, Alone DEF Erasing, Counting, At, Drawing
<1>4. /\ screen' \in Seq(Rows) /\ Len(screen') \in Nat
      /\ resizes = 0 => \A i \in 1..Len(screen') : screen'[i] = "text"
  BY <1>1, <1>2, <1>3, Erases
<1>5. RendererTyped'
  BY <1>1, <1>4 DEF ScreenInv, RendererTyped, program
<1>6. LockInv'
  BY <1>1, <1>2 DEF ScreenInv, LockInv, Drawing, Threads
<1>7. StepsInv'
  BY <1>1, <1>2 DEF ScreenInv, StepsInv, program, Threads
<1>8. LiveInv'
  BY <1>1, <1>3, <1>4 DEF LiveInv
<1>9. ShapeInv'
  BY <1>1, <1>3, <1>4 DEF ShapeInv, Shaped, program
<1>10. AbortInv'
  BY <1>1, <1>4 DEF AbortInv, NoStep, program
<1> QED BY <1>5, <1>6, <1>7, <1>8, <1>9, <1>10 DEF ScreenInv

\* The text goes where no live row is any more.
LEMMA WriteKeeps == ASSUME ScreenInv, WriteText PROVE ScreenInv'
<1>1. /\ pc["main"] = "print" /\ lock.by = "main" /\ screen' = screen \o text /\ text' = <<>>
      /\ pc' = [pc EXCEPT !["main"] = "draw"]
      /\ UNCHANGED <<live, steps, lock, program>>
  BY DEF WriteText, Holds, Go
<1>2. pc'["main"] = "draw" /\ pc'["render"] = pc["render"] /\ pc["render"] \notin Drawing
  BY <1>1 DEF ScreenInv, RendererTyped, LockInv, Threads
<1>3. Erasing /\ ~Counting /\ Erasing' /\ ~Counting' /\ live = 0
  BY <1>1, <1>2, Alone DEF Erasing, Counting, At, Drawing, Threads, ScreenInv, LiveInv
<1>4. text \in Seq(Rows) /\ Len(text) \in Nat /\ \A i \in 1..Len(text) : text[i] = "text"
  <2>1. CASE text = <<>>
    BY <2>1
  <2>2. CASE text = Row
    BY <2>2 DEF Row, Rows
  <2> QED BY <2>1, <2>2 DEF ScreenInv, RendererTyped
<1>5. screen \in Seq(Rows) /\ Len(screen) \in Nat
  BY LenProperties DEF ScreenInv, RendererTyped
<1>6. /\ screen' \in Seq(Rows) /\ Len(screen') \in Nat
      /\ \A i \in 1..Len(screen') : \/ i \in 1..Len(screen) /\ screen'[i] = screen[i]
                                    \/ screen'[i] = "text"
  BY <1>1, <1>4, <1>5, WrittenIs
<1>7. RendererTyped'
  BY <1>1, <1>6 DEF ScreenInv, RendererTyped, program
<1>8. LockInv'
  BY <1>1, <1>2 DEF ScreenInv, LockInv, Drawing
<1>9. StepsInv'
  BY <1>1, <1>2 DEF ScreenInv, StepsInv, program
<1>10. LiveInv'
  BY <1>1, <1>3, <1>6 DEF LiveInv
<1>11. ShapeInv'
  <2>1. ASSUME resizes = 0 PROVE \A i \in 1..Len(screen') : screen'[i] = "text"
    <3>1. \A i \in 1..Len(screen) : screen[i] = "text"
      BY <1>1, <1>3, <1>5, <2>1 DEF ScreenInv, ShapeInv, Shaped
    <3> QED BY <1>6, <3>1
  <2> QED BY <1>1, <1>3, <1>6, <2>1 DEF ShapeInv, Shaped, program
<1>12. AbortInv'
  <2>1. ASSUME resizes = 0, leaving = "aborted" PROVE NoStep'
    <3>1. \A i \in 1..Len(screen) : screen[i] # "step"
      BY <1>1, <2>1 DEF ScreenInv, AbortInv, NoStep, At
    <3> QED BY <1>6, <3>1 DEF NoStep
  <2> QED BY <1>1, <2>1 DEF AbortInv, program
<1> QED BY <1>7, <1>8, <1>9, <1>10, <1>11, <1>12 DEF ScreenInv

\* draw_live: the rows it adds are the ones LIVE will count.
LEMMA DrawKeeps ==
  ASSUME ScreenInv, NEW t \in Threads, DrawLive(t) PROVE ScreenInv'
<1>1. /\ pc[t] = "draw" /\ lock.by = t /\ screen' = screen \o Lines
      /\ pc' = [pc EXCEPT ![t] = "count"]
      /\ UNCHANGED <<live, steps, lock, text, program>>
  BY DEF DrawLive, Holds, Go
<1>2. /\ pc'[t] = "count"
      /\ \A u \in Threads \ {t} : pc'[u] = pc[u] /\ pc[u] \notin Drawing
      /\ pc["main"] # "over"
  BY <1>1 DEF ScreenInv, RendererTyped, LockInv, Drawing, Threads
<1>3. Erasing /\ ~Counting /\ ~Erasing' /\ Counting' /\ live = 0
  BY <1>1, <1>2, Alone DEF Erasing, Counting, At, Drawing, ScreenInv, LiveInv
<1>4. /\ Lines \in Seq(Rows) /\ Len(Lines) \in Nat /\ Lines' = Lines
      /\ \A i \in 1..Len(Lines) : Lines[i] # "text" /\ (steps = 0 => Lines[i] # "step")
  <2>1. Lines' = Lines
    BY <1>1 DEF Lines, program
  <2> QED BY <2>1, LinesAre DEF ScreenInv
<1>5. screen \in Seq(Rows) /\ Len(screen) \in Nat
  BY LenProperties DEF ScreenInv, RendererTyped
<1> DEFINE n == Len(screen)
           l == Lines
<1>6. /\ screen' \in Seq(Rows) /\ Len(screen') = n + Len(l)
      /\ \A i \in 1..Len(screen') :
           IF i <= n THEN screen'[i] = screen[i]
                     ELSE i - n \in 1..Len(l) /\ screen'[i] = l[i - n]
  BY <1>1, <1>4, <1>5, WrittenIs
<1>7. RendererTyped'
  BY <1>1, <1>6 DEF ScreenInv, RendererTyped, program
<1>8. LockInv'
  BY <1>1, <1>2 DEF ScreenInv, LockInv, Drawing, Threads
<1>9. StepsInv'
  BY <1>1, <1>2 DEF ScreenInv, StepsInv, program, Threads
<1>10. LiveInv'
  BY <1>1, <1>3, <1>4, <1>5, <1>6 DEF LiveInv
<1>11. ShapeInv'
  <2>1. ASSUME resizes = 0, NEW i \in 1..Len(screen')
        PROVE  screen'[i] = "text" <=> i <= n
    <3>1. \A j \in 1..n : screen[j] = "text"
      BY <1>2, <1>3, <1>5, <2>1 DEF ScreenInv, ShapeInv, Shaped
    <3> HIDE DEF n, l
    <3>2. n \in Nat /\ Len(l) \in Nat /\ \A j \in 1..Len(l) : l[j] # "text"
      BY <1>4, <1>5 DEF n, l
    <3> QED BY <1>6, <2>1, <3>1, <3>2
  <2>2. Len(screen') - Len(l) = n
    BY <1>4, <1>5, <1>6
  <2> QED BY <1>1, <1>3, <1>4, <2>1, <2>2 DEF ShapeInv, Shaped, program
<1>12. AbortInv'
  <2>1. ASSUME resizes = 0, leaving = "aborted",
               ~(At("main", {"emit", "clear"}) /\ text # <<>>)'
        PROVE  NoStep'
    <3>1. ~(At("main", {"emit", "clear"}) /\ text # <<>>)
      BY <1>1, <1>2, <2>1 DEF At, Threads
    <3>2. \A i \in 1..n : screen[i] # "step"
      BY <1>2, <2>1, <3>1 DEF ScreenInv, AbortInv, NoStep
    <3>3. \A i \in 1..Len(l) : l[i] # "step"
      BY <1>4, <2>1 DEF ScreenInv, StepsInv
    <3> HIDE DEF n, l
    <3>4. \A i \in 1..Len(screen') : i <= n => i \in 1..n
      BY <1>4, <1>5, <1>6 DEF n, l
    <3> QED BY <1>6, <3>2, <3>3, <3>4 DEF NoStep
  <2> QED BY <1>1, <2>1 DEF AbortInv, program
<1> QED BY <1>7, <1>8, <1>9, <1>10, <1>11, <1>12 DEF ScreenInv

\* LIVE is what has been drawn, and the lock is given back.
LEMMA CountKeeps ==
  ASSUME ScreenInv, NEW t \in Threads, Count(t) PROVE ScreenInv'
<1>1. /\ pc[t] = "count" /\ lock.by = t /\ live' = Len(Lines) /\ lock' = Unlocked
      /\ pc' = [pc EXCEPT ![t] = IF t = "render" THEN "sleep"
                                 ELSE IF lock.depth > 1 THEN "release"
                                 ELSE IF leaving = "no" THEN "run" ELSE "unwind"]
      /\ UNCHANGED <<screen, steps, text, program>>
  BY DEF Count, Holds, Go
<1>2. /\ lock.depth \in {1, 2} /\ (t = "render" => lock.depth = 1)
      /\ \A u \in Threads \ {t} : pc[u] \notin Drawing
      /\ pc["main"] # "over"
  BY <1>1 DEF ScreenInv, RendererTyped, LockInv, Drawing, Threads
<1>3. \/ lock.depth = 1 /\ lock' = [by |-> "none", depth |-> 0]
      \/ lock.depth = 2 /\ lock' = [by |-> t, depth |-> 1]
  BY <1>1, <1>2 DEF Unlocked, ScreenInv, RendererTyped
<1>4. /\ \A u \in Threads \ {t} : pc'[u] = pc[u]
      /\ t = "render" => pc'[t] = "sleep"
      /\ t = "main" /\ lock.depth = 2 => pc'[t] = "release"
      /\ t = "main" /\ lock.depth = 1 => pc'[t] = IF leaving = "no" THEN "run" ELSE "unwind"
  BY <1>1, <1>2 DEF ScreenInv, RendererTyped, Threads
<1>5. Counting /\ ~Erasing' /\ ~Counting'
  BY <1>1, <1>2, <1>4 DEF Erasing, Counting, At, Drawing, Threads
<1>6. Len(Lines) \in Nat
  BY LinesAre DEF ScreenInv
<1>7. RendererTyped'
  BY <1>1, <1>3, <1>6 DEF ScreenInv, RendererTyped, program
<1>8. LockInv'
  BY <1>1, <1>2, <1>3, <1>4 DEF ScreenInv, LockInv, Drawing, Threads
<1>9. StepsInv'
  BY <1>1, <1>2, <1>4 DEF ScreenInv, StepsInv, program, Threads
<1>10. LiveInv'
  BY <1>1, <1>5 DEF ScreenInv, LiveInv
<1>11. ShapeInv'
  BY <1>1, <1>2, <1>5 DEF ScreenInv, ShapeInv, Shaped, program
<1>12. AbortInv'
  <2>1. ~At("main", {"emit", "clear"}) \/ t = "render"
    BY <1>1 DEF At, Threads
  <2> QED BY <1>1, <1>2, <1>4, <2>1 DEF ScreenInv, AbortInv, NoStep, program, At, Threads
<1> QED BY <1>7, <1>8, <1>9, <1>10, <1>11, <1>12 DEF ScreenInv

\* cleanup erases the live rows once every step has been left.
LEMMA CleanupKeeps == ASSUME ScreenInv, Cleanup PROVE ScreenInv'
<1>1. /\ pc["main"] = "unwind" /\ lock.by = "none" /\ open = 0 /\ steps' = 0
      /\ screen' = Erased /\ live' = 0 /\ pc' = [pc EXCEPT !["main"] = "exiting"]
      /\ UNCHANGED <<lock, text, plan, open, leaving, resizes>>
  BY DEF Cleanup, Free, Go, ScreenInv, LockInv
<1>2. pc'["main"] = "exiting" /\ pc'["render"] = pc["render"] /\ pc["render"] \notin Drawing
  BY <1>1 DEF ScreenInv, RendererTyped, LockInv, Threads
<1>3. ~Counting /\ ~Erasing' /\ ~Counting'
  BY <1>1, <1>2, Alone DEF Erasing, Counting, At, Drawing, Threads
<1>4. /\ screen' \in Seq(Rows) /\ Len(screen') \in Nat
      /\ resizes = 0 => \A i \in 1..Len(screen') : screen'[i] = "text"
  BY <1>1, <1>3, Erases
<1>5. RendererTyped'
  BY <1>1, <1>4 DEF ScreenInv, RendererTyped
<1>6. LockInv'
  BY <1>1, <1>2 DEF ScreenInv, LockInv, Drawing
<1>7. StepsInv'
  BY <1>1, <1>2 DEF ScreenInv, StepsInv
<1>8. LiveInv'
  BY <1>1, <1>3, <1>4 DEF LiveInv
<1>9. ShapeInv'
  BY <1>1, <1>3, <1>4 DEF ShapeInv, Shaped
<1>10. AbortInv'
  BY <1>1, <1>4 DEF AbortInv, NoStep
<1> QED BY <1>5, <1>6, <1>7, <1>8, <1>9, <1>10 DEF ScreenInv

\* A narrower terminal has more rows of live region, never fewer.
LEMMA ResizeKeeps == ASSUME ScreenInv, Resize PROVE ScreenInv'
<1>1. /\ live > 0 /\ resizes' = resizes + 1
      /\ screen' = (SubSeq(screen, 1, Len(screen) - live) \o LiveRows) \o LiveRows
      /\ UNCHANGED <<live, steps, lock, pc, text, plan, open, leaving>>
  BY DEF Resize
<1>2. screen \in Seq(Rows) /\ live \in Nat /\ live <= Len(screen) /\ Len(screen) \in Nat
  BY LenProperties DEF ScreenInv, RendererTyped, LiveInv
<1>3. resizes' # 0 /\ resizes' \in Nat
  BY <1>1 DEF ScreenInv, RendererTyped
<1>4. LiveRows \in Seq(Rows) /\ Len(LiveRows) = live
  BY <1>2 DEF LiveRows
<1> DEFINE top == SubSeq(screen, 1, Len(screen) - live)
<1>5. top \in Seq(Rows) /\ Len(top) = Len(screen) - live
  BY <1>2, ErasedIs
<1> HIDE DEF top
<1>6. top \o LiveRows \in Seq(Rows) /\ Len(top \o LiveRows) = Len(screen)
  BY <1>2, <1>4, <1>5, WrittenIs
<1>7. screen' \in Seq(Rows) /\ Len(screen') = Len(screen) + live
  <2>1. screen' = (top \o LiveRows) \o LiveRows
    BY <1>1 DEF top
  <2> QED BY <1>4, <1>6, <2>1, WrittenIs
<1>8. RendererTyped'
  BY <1>1, <1>3, <1>7 DEF ScreenInv, RendererTyped
<1>9. LockInv' /\ StepsInv'
  BY <1>1 DEF ScreenInv, LockInv, StepsInv
<1>10. LiveInv'
  <2>1. ~Erasing /\ ~Counting
    BY <1>1 DEF ScreenInv, LiveInv
  <2>2. ~Erasing' /\ ~Counting'
    BY <1>1, <2>1 DEF Erasing, Counting, At
  <2> QED BY <1>1, <1>2, <1>7, <2>2 DEF LiveInv
<1>11. ShapeInv' /\ AbortInv'
  BY <1>3 DEF ShapeInv, AbortInv
<1> QED BY <1>8, <1>9, <1>10, <1>11 DEF ScreenInv

(******************************* The theorems ******************************)
LEMMA ScreenAtFirst == ASSUME RendererInit PROVE ScreenInv
<1>1. pc["main"] = "run" /\ pc["render"] = "sleep" /\ pc \in [Threads -> {"run", "sleep"}]
  BY DEF RendererInit, Threads
<1>2. RendererTyped
  <2>1. screen \in Seq(Rows) /\ text \in {<<>>, Row}
    BY DEF RendererInit
  <2>2. pc \in [Threads -> {"run", "emit", "clear", "print", "draw", "count", "release",
                            "unwind", "exiting", "sleep", "over"}]
    BY <1>1
  <2>3. lock \in [by : {"none"} \cup Threads, depth : 0..2]
    BY DEF RendererInit
  <2>4. plan \in BOOLEAN
    BY Zenon DEF RendererInit
  <2>5. live \in Nat /\ steps \in Nat /\ open \in Nat /\ resizes \in Nat
        /\ leaving \in {"no", "aborted", "left"}
    BY DEF RendererInit
  <2> QED BY <2>1, <2>2, <2>3, <2>4, <2>5, Zenon DEF RendererTyped
<1>3. LockInv /\ StepsInv
  BY <1>1 DEF RendererInit, LockInv, StepsInv, Drawing
<1>4. screen = <<>> /\ Len(screen) = 0 /\ live = 0
  BY DEF RendererInit
<1>5. LiveInv
  <2>1. ~Erasing /\ ~Counting
    BY <1>1 DEF Erasing, Counting, At, Threads
  <2> QED BY <1>4, <2>1 DEF LiveInv
<1>6. ShapeInv /\ AbortInv
  BY <1>4 DEF ShapeInv, Shaped, AbortInv, NoStep
<1> QED BY <1>2, <1>3, <1>5, <1>6 DEF ScreenInv

\* Every step of either thread, and a resize, keeps the invariant.
LEMMA ScreenStep == ASSUME ScreenInv, [RendererNext]_rvars PROVE ScreenInv'
<1>1. CASE UNCHANGED rvars
  <2>1. Erasing' = Erasing /\ Counting' = Counting /\ Lines' = Lines
    BY <1>1 DEF rvars, Erasing, Counting, At, Lines
  <2>2. RendererTyped' /\ LockInv' /\ StepsInv'
    BY <1>1 DEF rvars, ScreenInv, RendererTyped, LockInv, StepsInv
  <2>3. LiveInv' /\ ShapeInv' /\ AbortInv'
    BY <1>1, <2>1 DEF rvars, ScreenInv, LiveInv, ShapeInv, Shaped, AbortInv, NoStep, At
  <2> QED BY <2>2, <2>3 DEF ScreenInv
<1>2. CASE Main
  BY <1>2, ClearKeeps, WriteKeeps, DrawKeeps, CountKeeps, ReleaseKeeps, EmitKeeps, RunsKeep,
     KMsgKeeps, LockedKeeps, LeaveKeeps, CleanupKeeps, ExitKeeps DEF Main, Threads
<1>3. CASE Render
  BY <1>3, RenderWakesKeeps, ClearKeeps, DrawKeeps, CountKeeps DEF Render, Threads
<1> QED BY <1>1, <1>2, <1>3, ResizeKeeps DEF RendererNext

\* The invariant the others follow from.
THEOREM ScreenInvariant == RendererSpec => []ScreenInv
<1>1. RendererInit => ScreenInv
  BY ScreenAtFirst
<1>2. ScreenInv /\ [RendererNext]_rvars => ScreenInv'
  BY ScreenStep
<1> QED BY <1>1, <1>2, PTL DEF RendererSpec

\* kopsrox_kmsg.py:156: after an abort neither thread draws a step.
THEOREM AbortClears == RendererSpec => []AbortedStepsGone
<1>1. ASSUME ScreenInv PROVE AbortedStepsGone
  <2>1. ASSUME leaving = "aborted", pc["main"] = "unwind", resizes = 0
        PROVE  "step" \notin ToSet(screen)
    <3>1. NoStep
      BY <1>1, <2>1 DEF ScreenInv, AbortInv, At
    <3>2. screen \in Seq(Rows)
      BY <1>1 DEF ScreenInv, RendererTyped
    <3> QED BY <3>1, <3>2 DEF ToSet, NoStep
  <2> QED BY <2>1 DEF AbortedStepsGone
<1> QED BY <1>1, ScreenInvariant, PTL

\* kopsrox_kmsg.py:69 and dev/test_kmsg.py:74: each redraw leaves the live region
\* below all text, and LIVE is its height: it does not creep down the screen.
THEOREM LiveStaysBelow == RendererSpec => NeverCreeps
<1> DEFINE below == (\E t \in Threads : Count(t)) /\ resizes = 0 =>
              \A i \in 1..Len(screen') : screen'[i] # "text" <=> i > Len(screen') - live'
<1>1. ASSUME ScreenInv, NEW t \in Threads, Count(t), resizes = 0,
             NEW i \in 1..Len(screen')
      PROVE  screen'[i] # "text" <=> i > Len(screen') - live'
  <2>1. ScreenInv'
    BY <1>1, CountKeeps
  <2>2. pc["main"] # "over" /\ pc[t] = "count" /\ screen' = screen /\ live' = Len(Lines)
    BY <1>1 DEF Count, ScreenInv, LockInv, Threads
  <2>3. Counting
    BY <2>2 DEF Counting, At
  <2>4. screen[i] = "text" <=> i <= Len(screen) - Len(Lines)
    BY <1>1, <2>2, <2>3 DEF ScreenInv, ShapeInv, Shaped
  <2>5. Len(screen) \in Nat /\ Len(Lines) \in Nat
    BY <1>1, LinesAre, LenProperties DEF ScreenInv, RendererTyped
  <2> QED BY <2>2, <2>4, <2>5
<1>2. ScreenInv /\ [RendererNext]_rvars => below
  BY <1>1
<1> QED BY <1>2, ScreenInvariant, PTL DEF RendererSpec, NeverCreeps
=============================================================================
