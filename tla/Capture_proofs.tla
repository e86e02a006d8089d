---------------------------- MODULE Capture_proofs ----------------------------
(* Theorems about Capture for any number of workers, captures and timeouts.  *)
EXTENDS Capture, TLAPS

-----------------------------------------------------------------------------
(* The inductive invariant *)

\* How far a capture is, against what is left of its process: nothing before
\* the start, everything read when nothing stopped it, no group after a kill.
ProgressOf(c) ==
  /\ at[c] \in {"off", "spawn"} => cli[c] = "none" /\ helpers[c] = {}
  /\ at[c] \notin {"off", "spawn", "back"} => cli[c] # "none"
  /\ at[c] \in {"off", "spawn", "register", "selfkill", "readers", "wait", "join"}
       => why[c] = "none"
  /\ at[c] \in {"kill", "reap", "grace"} => why[c] # "none"
  /\ at[c] \in {"check", "close", "back"} /\ why[c] = "none" => Eof(c)
  /\ \/ at[c] \in {"reap", "grace"}
     \/ at[c] \in {"close", "back"} /\ why[c] \in {"timeout", "interrupt"}
     => cli[c] = "dead" /\ "group" \notin helpers[c]
Progress == \A c \in Capture : ProgressOf(c)

\* A block is counted while it is open, and until the snapshot is worked off
\* every registered capture is killed, about to kill itself, or in it.
Covered ==
  /\ cancelling = IF main \in {"killing", "drain"} THEN 1 ELSE 0
  /\ main = "killing" =>
       \A c \in active : c \in flagged \/ at[c] = "selfkill" \/ c \in targets
  /\ NoneEscapes

IInv == TypeOK /\ Progress /\ Covered

-----------------------------------------------------------------------------
(* Initially *)

\* Before the first capture the invariant holds.
LEMMA InitIInv == Init => IInv
BY BoundAssumption
   DEF Init, IInv, TypeOK, Places, Progress, ProgressOf, Covered, NoneEscapes

-----------------------------------------------------------------------------
(* Types *)

\* Every step of a capture keeps the types.
LEMMA CaptureStepTyped ==
  ASSUME TypeOK, NEW c \in Capture, CaptureStep(c)
  PROVE  TypeOK'
<1> USE DEF TypeOK, Places, Goes, Because, vars, process, pool
<1>1. CASE Start(c)     BY <1>1 DEF Start
<1>2. CASE Spawn(c)     BY <1>2 DEF Spawn
<1>3. CASE Register(c)  BY <1>3 DEF Register
<1>4. CASE SelfKill(c)  BY <1>4 DEF SelfKill, InterruptTree, KillGroup
<1>5. CASE StartReaders(c) BY <1>5 DEF StartReaders
<1>6. CASE Wait(c)      BY <1>6 DEF Wait
<1>7. CASE Join(c)      BY <1>7 DEF Join
<1>8. CASE Check(c)     BY <1>8 DEF Check
<1>9. CASE Kill(c)      BY <1>9 DEF Kill, KillGroup
<1>10. CASE Reap(c)     BY <1>10 DEF Reap
<1>11. CASE Grace(c)    BY <1>11 DEF Grace
<1>12. CASE Close(c)    BY <1>12 DEF Close
<1> QED BY <1>1, <1>2, <1>3, <1>4, <1>5, <1>6, <1>7, <1>8, <1>9, <1>10, <1>11,
           <1>12 DEF CaptureStep

\* So does every step of the fan-out and of the cancellation.
LEMMA MainStepTyped ==
  ASSUME TypeOK,
         \/ FanOut \/ Collected \/ RunStops \/ OpenBlock \/ AllKilled \/ CloseBlock
         \/ InterruptRun \/ (\E w \in Worker : ItemReturns(w))
         \/ (\E c \in Capture : KillTarget(c)),
         Covered
  PROVE  TypeOK'
<1> USE DEF TypeOK, Places, process, Everything
<1>1. CASE FanOut      BY <1>1 DEF FanOut
<1>2. CASE Collected   BY <1>2 DEF Collected
<1>3. CASE RunStops    BY <1>3 DEF RunStops
<1>4. CASE OpenBlock   BY <1>4 DEF OpenBlock, Covered
<1>5. CASE AllKilled   BY <1>5 DEF AllKilled
<1>6. CASE CloseBlock  BY <1>6 DEF CloseBlock, Covered
<1>7. CASE InterruptRun BY <1>7, BoundAssumption DEF InterruptRun
<1>8. CASE \E w \in Worker : ItemReturns(w) BY <1>8 DEF ItemReturns
<1>9. CASE \E c \in Capture : KillTarget(c)
  BY <1>9 DEF KillTarget, InterruptTree, KillGroup
<1> QED BY <1>1, <1>2, <1>3, <1>4, <1>5, <1>6, <1>7, <1>8, <1>9

\* So do processes and Ctrl+C.
LEMMA OutsideTyped ==
  ASSUME TypeOK, NEW c \in Capture, InterruptCapture(c) \/ ProcessStep(c)
  PROVE  TypeOK'
<1> USE DEF TypeOK, Places, Goes, Because, process, pool, Outside
<1>1. CASE InterruptCapture(c)
  BY <1>1, BoundAssumption
     DEF InterruptCapture, DeferInterrupt, CatchInterrupt, RaiseInterrupt
<1>2. CASE Exits(c)        BY <1>2 DEF Exits
<1>3. CASE StartsHelper(c) BY <1>3 DEF StartsHelper
<1>4. CASE HelperExits(c)  BY <1>4 DEF HelperExits
<1> QED BY <1>1, <1>2, <1>3, <1>4 DEF ProcessStep

-----------------------------------------------------------------------------
(* Progress *)

\* A capture that a step does not touch is as far as it was.
LEMMA Untouched ==
  ASSUME TypeOK, Progress, NEW d \in Capture,
         at'[d] = at[d], why'[d] = why[d], cli'[d] = cli[d], helpers'[d] = helpers[d]
  PROVE  ProgressOf(d)'
BY DEF Progress, ProgressOf, Eof

\* A step of a capture keeps the facts about its place in run_captured().
LEMMA CaptureStepProgress ==
  ASSUME TypeOK, Progress, NEW c \in Capture, CaptureStep(c)
  PROVE  Progress'
<1> SUFFICES ASSUME NEW d \in Capture PROVE ProgressOf(d)'
  BY DEF Progress
<1>a. CASE d # c
  <2>1. at'[d] = at[d] /\ why'[d] = why[d] /\ cli'[d] = cli[d] /\ helpers'[d] = helpers[d]
    BY <1>a DEF CaptureStep, TypeOK, Goes, Because, process, Start, Spawn, Register,
                SelfKill, StartReaders, Wait, Join, Check, Kill, Reap, Grace, Close,
                InterruptTree, KillGroup
  <2> QED BY <2>1, Untouched
<1>b. CASE d = c
  <2> USE <1>b DEF TypeOK, Goes, Because, process, Progress, ProgressOf, Eof
  <2>1. CASE Start(c)     BY <2>1 DEF Start
  <2>2. CASE Spawn(c)     BY <2>2 DEF Spawn
  <2>3. CASE Register(c)  BY <2>3 DEF Register
  <2>4. CASE SelfKill(c)  BY <2>4 DEF SelfKill, InterruptTree, KillGroup
  <2>5. CASE StartReaders(c) BY <2>5 DEF StartReaders
  <2>6. CASE Wait(c)      BY <2>6 DEF Wait
  <2>7. CASE Join(c)      BY <2>7 DEF Join
  <2>8. CASE Check(c)     BY <2>8 DEF Check
  <2>9. CASE Kill(c)      BY <2>9 DEF Kill, KillGroup
  <2>10. CASE Reap(c)     BY <2>10 DEF Reap
  <2>11. CASE Grace(c)    BY <2>11 DEF Grace
  <2>12. CASE Close(c)    BY <2>12 DEF Close
  <2> QED BY <2>1, <2>2, <2>3, <2>4, <2>5, <2>6, <2>7, <2>8, <2>9, <2>10, <2>11,
             <2>12 DEF CaptureStep
<1> QED BY <1>a, <1>b

\* A kill from another thread, and what processes do by themselves, take away.
LEMMA ProcessProgress ==
  ASSUME TypeOK, Progress, NEW c \in Capture, KillTarget(c) \/ ProcessStep(c)
  PROVE  Progress'
<1> SUFFICES ASSUME NEW d \in Capture PROVE ProgressOf(d)'
  BY DEF Progress
<1> USE DEF TypeOK, Outside, ProcessStep, Progress, ProgressOf, Eof
<1>1. CASE KillTarget(c)   BY <1>1 DEF KillTarget, InterruptTree, KillGroup
<1>2. CASE Exits(c)        BY <1>2 DEF Exits
<1>3. CASE StartsHelper(c) BY <1>3 DEF StartsHelper
<1>4. CASE HelperExits(c)  BY <1>4 DEF HelperExits
<1> QED BY <1>1, <1>2, <1>3, <1>4

\* So does a Ctrl+C that reaches it.
LEMMA InterruptProgress ==
  ASSUME TypeOK, Progress, NEW c \in Capture, InterruptCapture(c)
  PROVE  Progress'
<1> SUFFICES ASSUME NEW d \in Capture PROVE ProgressOf(d)'
  BY DEF Progress
<1> USE DEF TypeOK, Goes, Because, process, Progress, ProgressOf, Eof
<1>1. CASE DeferInterrupt(c) BY <1>1 DEF DeferInterrupt
<1>2. CASE CatchInterrupt(c) BY <1>2 DEF CatchInterrupt
<1>3. CASE RaiseInterrupt(c) BY <1>3 DEF RaiseInterrupt
<1> QED BY <1>1, <1>2, <1>3 DEF InterruptCapture

-----------------------------------------------------------------------------
(* Coverage of the snapshot *)

\* No step of a capture slips out of a cancellation.
LEMMA CaptureStepCovered ==
  ASSUME TypeOK, Covered, NEW c \in Capture, CaptureStep(c)
  PROVE  Covered'
<1> USE DEF TypeOK, Covered, NoneEscapes, Goes, Because, process, pool
<1>1. CASE Start(c)     BY <1>1 DEF Start
<1>2. CASE Spawn(c)     BY <1>2 DEF Spawn
<1>3. CASE Register(c)  BY <1>3 DEF Register
<1>4. CASE SelfKill(c)  BY <1>4 DEF SelfKill, InterruptTree
<1>5. CASE StartReaders(c) BY <1>5 DEF StartReaders
<1>6. CASE Wait(c)      BY <1>6 DEF Wait
<1>7. CASE Join(c)      BY <1>7 DEF Join
<1>8. CASE Check(c)     BY <1>8 DEF Check
<1>9. CASE Kill(c)      BY <1>9 DEF Kill
<1>10. CASE Reap(c)     BY <1>10 DEF Reap
<1>11. CASE Grace(c)    BY <1>11 DEF Grace
<1>12. CASE Close(c)    BY <1>12 DEF Close
<1> QED BY <1>1, <1>2, <1>3, <1>4, <1>5, <1>6, <1>7, <1>8, <1>9, <1>10, <1>11,
           <1>12 DEF CaptureStep

\* Nor does any other step.
LEMMA OtherStepCovered ==
  ASSUME TypeOK, Covered,
         \/ FanOut \/ Collected \/ RunStops \/ OpenBlock \/ AllKilled \/ CloseBlock
         \/ InterruptRun \/ (\E w \in Worker : ItemReturns(w))
         \/ (\E c \in Capture : KillTarget(c) \/ InterruptCapture(c) \/ ProcessStep(c))
  PROVE  Covered'
<1> USE DEF TypeOK, Covered, NoneEscapes, Everything, Outside, process, pool
<1>1. CASE FanOut      BY <1>1 DEF FanOut
<1>2. CASE Collected   BY <1>2 DEF Collected
<1>3. CASE RunStops    BY <1>3 DEF RunStops
<1>4. CASE OpenBlock   BY <1>4 DEF OpenBlock
<1>5. CASE AllKilled   BY <1>5 DEF AllKilled
<1>6. CASE CloseBlock  BY <1>6 DEF CloseBlock
<1>7. CASE InterruptRun BY <1>7 DEF InterruptRun
<1>8. CASE \E w \in Worker : ItemReturns(w) BY <1>8 DEF ItemReturns
<1>9. ASSUME NEW c \in Capture, KillTarget(c) PROVE Covered'
  BY <1>9 DEF KillTarget, InterruptTree, KillGroup
<1>10. ASSUME NEW c \in Capture, InterruptCapture(c) PROVE Covered'
  BY <1>10 DEF InterruptCapture, DeferInterrupt, CatchInterrupt, RaiseInterrupt,
               Goes, Because
<1>11. ASSUME NEW c \in Capture, ProcessStep(c) PROVE Covered'
  BY <1>11 DEF ProcessStep, Exits, StartsHelper, HelperExits
<1> QED BY <1>1, <1>2, <1>3, <1>4, <1>5, <1>6, <1>7, <1>8, <1>9, <1>10, <1>11

-----------------------------------------------------------------------------
(* The theorems *)

\* The invariant is inductive.
LEMMA NextIInv == IInv /\ [Next]_vars => IInv'
<1> SUFFICES ASSUME IInv, [Next]_vars PROVE IInv'
  OBVIOUS
<1> USE DEF IInv
<1>1. ASSUME NEW c \in Capture, CaptureStep(c) PROVE IInv'
  BY <1>1, CaptureStepTyped, CaptureStepProgress, CaptureStepCovered
<1>2. ASSUME NEW c \in Capture, KillTarget(c) \/ ProcessStep(c) PROVE IInv'
  BY <1>2, MainStepTyped, OutsideTyped, ProcessProgress, OtherStepCovered
<1>3. ASSUME NEW c \in Capture, InterruptCapture(c) PROVE IInv'
  BY <1>3, OutsideTyped, InterruptProgress, OtherStepCovered
<1>4. ASSUME \/ FanOut \/ Collected \/ RunStops \/ OpenBlock \/ AllKilled
             \/ CloseBlock \/ InterruptRun \/ (\E w \in Worker : ItemReturns(w))
      PROVE IInv'
  <2>1. UNCHANGED <<at, why, cli, helpers>>
    BY <1>4 DEF FanOut, Collected, RunStops, OpenBlock, AllKilled, CloseBlock,
                InterruptRun, ItemReturns, Everything, process
  <2>2. Progress'
    BY <2>1, Untouched DEF Progress
  <2> QED BY <1>4, <2>2, MainStepTyped, OtherStepCovered
<1>5. CASE UNCHANGED vars
  BY <1>5 DEF vars, process, pool, TypeOK, Progress, ProgressOf, Eof, Covered,
              NoneEscapes
<1> QED BY <1>1, <1>2, <1>3, <1>4, <1>5 DEF Next, ThreadStep

\* The inductive invariant holds in every reachable state: what each place in
\* run_captured() knows of its process, and who is covered by a cancellation.
THEOREM IInvHolds == Spec => []IInv
BY InitIInv, NextIInv, PTL DEF Spec

\* Every variable keeps its type.
THEOREM TypeCorrect == Spec => []TypeOK
<1>1. IInv => TypeOK  BY DEF IInv
<1> QED BY <1>1, IInvHolds, PTL

\* A capture that reports a timeout or an interruption has left nothing of its
\* process group behind.
THEOREM StoppedCapturesAreGone == Spec => []StoppedIsGone
<1>1. IInv => StoppedIsGone  BY DEF IInv, Progress, ProgressOf, StoppedIsGone
<1> QED BY <1>1, IInvHolds, PTL

\* A result that reports neither is the whole output of a process that ended.
THEOREM CompleteResultsAreComplete == Spec => []CompleteOutput
<1>1. IInv => CompleteOutput  BY DEF IInv, Progress, ProgressOf, CompleteOutput
<1> QED BY <1>1, IInvHolds, PTL

\* No capture escapes a cancellation, in whatever order it registered.
THEOREM CancellationMissesNothing == Spec => []NoneEscapes
<1>1. IInv => NoneEscapes  BY DEF IInv, Covered
<1> QED BY <1>1, IInvHolds, PTL
=============================================================================
