------------------------------- MODULE Capture -------------------------------
(***************************************************************************)
(* Captured command lines of agents, their timeouts and their cancellation *)
(* by Ctrl+C: run_captured() and cancel_captures() of                      *)
(* src/specify_cli/integrations/_capture.py, as the steps of a run and the *)
(* workers of a fan-out use them.                                          *)
(*                                                                         *)
(* A capture starts a process in a session of its own and reads its pipes  *)
(* until all who hold them are gone.  The process may start helpers in its *)
(* group, and helpers that detach from it; it may also never end.  A kill  *)
(* of the group is one step.  On Windows the job takes the group's place.  *)
(***************************************************************************)
EXTENDS Naturals, FiniteSets

CONSTANTS
  Worker,         \* threads of the pool
  Main,           \* the main thread
  Steps,          \* Steps[t]: captures thread t runs, one after the other
  Timed,          \* captures with a timeout
  MaxInterrupts   \* bound: Ctrl+C of the user

Thread == Worker \union {Main}
Capture == UNION {{t} \X (1..Steps[t]) : t \in Thread}

ASSUME ThreadAssumption == Main \notin Worker /\ IsFiniteSet(Worker)
ASSUME StepAssumption == Steps \in [Thread -> Nat] /\ Timed \subseteq Capture
ASSUME BoundAssumption == MaxInterrupts \in Nat

VARIABLES
  at,          \* where run_captured() stands in each capture
  why,         \* what stopped it: "none" as long as nothing did
  cli,         \* the process itself
  helpers,     \* what it started that still holds the pipes
  flagged,     \* captures with tree.interrupted
  pending,     \* Ctrl+C was deferred by this capture
  active,      \* _active: registered captures
  cancelling,  \* _cancelling: open cancel_captures() blocks
  main,        \* what the main thread does around its captures
  targets,     \* the snapshot of _active that the block still has to kill
  finished,    \* workers whose item returned
  ints         \* what MaxInterrupts counts

process == <<cli, helpers>>
pool == <<cancelling, main, targets, finished>>
vars == <<at, why, process, flagged, pending, active, pool, ints>>

Places == {"off", "spawn", "register", "selfkill", "readers", "wait", "join",
           "check", "kill", "reap", "grace", "close", "back"}

Owner(c) == c[1]
InProgress(c) == at[c] \notin {"off", "back"}
Goes(c, place) == at' = [at EXCEPT ![c] = place]
Because(c, reason) == why' = [why EXCEPT ![c] = reason]

\* The readers end when nobody holds the pipes any more.
Eof(c) == cli[c] # "alive" /\ helpers[c] = {}

\* killpg(): the process and its group, never what detached.
KillGroup(c) ==
  /\ cli' = [cli EXCEPT ![c] = IF @ = "alive" THEN "dead" ELSE @]
  /\ helpers' = [helpers EXCEPT ![c] = @ \ {"group"}]

\* _ProcessTree.interrupt()
InterruptTree(c) == flagged' = flagged \union {c} /\ KillGroup(c)

-----------------------------------------------------------------------------
(* run_captured() *)

\* The next capture of a thread: of the main thread between its steps, of a
\* worker as long as its item runs.
Start(c) ==
  /\ at[c] = "off"
  /\ \A d \in Capture : Owner(d) = Owner(c) /\ d[2] < c[2] => at[d] = "back"
  /\ IF Owner(c) = Main THEN main = "steps"
     ELSE main \notin {"steps", "out"} /\ Owner(c) \notin finished
  /\ Goes(c, "spawn")
  /\ UNCHANGED <<why, process, flagged, pending, active, pool, ints>>

Spawn(c) ==
  /\ at[c] = "spawn"
  /\ \/ cli' = [cli EXCEPT ![c] = "alive"] /\ Goes(c, "register") /\ UNCHANGED why
     \/ Goes(c, "back") /\ Because(c, "raise") /\ UNCHANGED cli   \* OSError
  /\ UNCHANGED <<helpers, flagged, pending, active, pool, ints>>

\* Mutant: a capture that registers does not look for an open block.
RegisterUnaware(c) ==
  /\ at[c] = "register"
  /\ active' = active \union {c} /\ Goes(c, "readers")
  /\ UNCHANGED <<why, process, flagged, pending, pool, ints>>

\* _register(): joins _active and reads _cancelling under one lock.
Register(c) ==
  /\ at[c] = "register"
  /\ active' = active \union {c}
  /\ Goes(c, IF cancelling > 0 THEN "selfkill" ELSE "readers")
  /\ UNCHANGED <<why, process, flagged, pending, pool, ints>>

SelfKill(c) ==
  /\ at[c] = "selfkill"
  /\ InterruptTree(c) /\ Goes(c, "readers")
  /\ UNCHANGED <<why, pending, active, pool, ints>>

\* The readers start; a deferred Ctrl+C is raised now.  A thread that cannot
\* start raises after a kill.
StartReaders(c) ==
  /\ at[c] = "readers"
  /\ \/ c \in pending /\ Goes(c, "check") /\ Because(c, "interrupt")
     \/ c \notin pending /\ Goes(c, "wait") /\ UNCHANGED why
     \/ Goes(c, "kill") /\ Because(c, "raise")
  /\ UNCHANGED <<process, flagged, pending, active, pool, ints>>

\* proc.wait()
Wait(c) ==
  /\ at[c] = "wait"
  /\ \/ cli[c] = "dead" /\ Goes(c, "join") /\ UNCHANGED why
     \/ c \in Timed /\ cli[c] = "alive" /\ Goes(c, "check") /\ Because(c, "timeout")
  /\ UNCHANGED <<process, flagged, pending, active, pool, ints>>

\* Mutant: the end of the process is taken for the end of its output.
JoinNothing(c) ==
  /\ at[c] = "join" /\ Goes(c, "check")
  /\ UNCHANGED <<why, process, flagged, pending, active, pool, ints>>

\* Mutant: the wait for the readers does not notice a cancellation.
JoinUnaware(c) ==
  /\ at[c] = "join" /\ Goes(c, "check")
  /\ \/ Eof(c) /\ UNCHANGED why
     \/ ~Eof(c) /\ c \in Timed /\ Because(c, "timeout")
  /\ UNCHANGED <<process, flagged, pending, active, pool, ints>>

\* _join() until end of file, the deadline or a cancellation.
Join(c) ==
  /\ at[c] = "join" /\ Goes(c, "check")
  /\ \/ Eof(c) /\ UNCHANGED why
     \/ ~Eof(c) /\ (c \in Timed \/ c \in flagged) /\ Because(c, "timeout")
  /\ UNCHANGED <<process, flagged, pending, active, pool, ints>>

\* A cancellation takes precedence over the timeout it looks like.
Check(c) ==
  /\ at[c] = "check"
  /\ LET reason == IF c \in flagged THEN "interrupt" ELSE why[c]
     IN Because(c, reason) /\ Goes(c, IF reason = "none" THEN "close" ELSE "kill")
  /\ UNCHANGED <<process, flagged, pending, active, pool, ints>>

\* Mutant: only the process is killed, not its group.
KillProcess(c) ==
  /\ at[c] = "kill" /\ Goes(c, "reap")
  /\ cli' = [cli EXCEPT ![c] = "dead"]
  /\ UNCHANGED <<why, helpers, flagged, pending, active, pool, ints>>

Kill(c) ==
  /\ at[c] = "kill" /\ Goes(c, "reap")
  /\ KillGroup(c)
  /\ UNCHANGED <<why, flagged, pending, active, pool, ints>>

Reap(c) ==
  /\ at[c] = "reap" /\ cli[c] = "dead" /\ Goes(c, "grace")
  /\ UNCHANGED <<why, process, flagged, pending, active, pool, ints>>

\* The readers end, or two seconds pass: a detached helper may hold the pipes.
Grace(c) ==
  /\ at[c] = "grace" /\ Goes(c, "close")
  /\ UNCHANGED <<why, process, flagged, pending, active, pool, ints>>

Close(c) ==
  /\ at[c] = "close" /\ Goes(c, "back")
  /\ active' = active \ {c}
  /\ UNCHANGED <<why, process, flagged, pending, pool, ints>>

-----------------------------------------------------------------------------
(* Ctrl+C in a capture of the main thread *)

\* While the process starts the signal is only noted.
DeferInterrupt(c) ==
  /\ at[c] \in {"spawn", "register", "selfkill", "readers"}
  /\ pending' = pending \union {c}
  /\ UNCHANGED <<at, why, process, flagged, active, pool>>

\* The handler takes it for the outcome of the capture.
CatchInterrupt(c) ==
  /\ at[c] \in {"wait", "join"}
  /\ Because(c, "interrupt") /\ Goes(c, "check")
  /\ UNCHANGED <<process, flagged, pending, active, pool>>

\* After the handler it is raised to the caller; only the finally remains.
RaiseInterrupt(c) ==
  /\ at[c] \in {"check", "kill", "reap", "grace"}
  /\ Because(c, "raise") /\ Goes(c, "close")
  /\ UNCHANGED <<process, flagged, pending, active, pool>>

InterruptCapture(c) ==
  /\ Owner(c) = Main /\ ints < MaxInterrupts /\ ints' = ints + 1
  /\ DeferInterrupt(c) \/ CatchInterrupt(c) \/ RaiseInterrupt(c)

-----------------------------------------------------------------------------
(* The main thread around its captures *)

Resting(t) == \A c \in Capture : Owner(c) = t => ~InProgress(c)
Everything == <<at, why, process, flagged, pending, active>>

\* A fan-out begins, once the steps before it are over.
FanOut ==
  /\ main = "steps" /\ Resting(Main) /\ main' = "collect"
  /\ \A c \in Capture : Owner(c) = Main => at[c] = "back" /\ why[c] # "raise"
  /\ UNCHANGED <<Everything, cancelling, targets, finished, ints>>

\* An item ends; it need not run all its steps when one of them fails.
ItemReturns(w) ==
  /\ main \notin {"steps", "out"} /\ w \notin finished /\ Resting(w)
  /\ finished' = finished \union {w}
  /\ UNCHANGED <<Everything, cancelling, main, targets, ints>>

Collected ==
  /\ main = "collect" /\ finished = Worker /\ main' = "out"
  /\ UNCHANGED <<Everything, cancelling, targets, finished, ints>>

\* The run stops between its steps: a step failed, or raised.
RunStops ==
  /\ main = "steps" /\ Resting(Main) /\ main' = "out"
  /\ \E c \in Capture : Owner(c) = Main /\ at[c] = "back" /\ why[c] # "none"
  /\ UNCHANGED <<Everything, cancelling, targets, finished, ints>>

InterruptRun ==
  /\ ints < MaxInterrupts /\ ints' = ints + 1
  /\ \/ main = "steps" /\ Resting(Main) /\ main' = "out"
     \/ main = "collect" /\ main' = "cancel"
  /\ UNCHANGED <<Everything, cancelling, targets, finished>>

\* cancel_captures(): announces the block and takes the snapshot under one lock.
OpenBlock ==
  /\ main = "cancel" /\ main' = "killing"
  /\ cancelling' = cancelling + 1 /\ targets' = active
  /\ UNCHANGED <<Everything, finished, ints>>

\* A snapshot may hold captures that returned meanwhile.
KillTarget(c) ==
  /\ main = "killing" /\ c \in targets
  /\ InterruptTree(c) /\ targets' = targets \ {c}
  /\ UNCHANGED <<at, why, pending, active, cancelling, main, finished, ints>>

AllKilled ==
  /\ main = "killing" /\ targets = {} /\ main' = "drain"
  /\ UNCHANGED <<Everything, cancelling, targets, finished, ints>>

\* pool.shutdown(wait=True) returns and the block ends.
CloseBlock ==
  /\ main = "drain" /\ finished = Worker /\ main' = "out"
  /\ cancelling' = cancelling - 1
  /\ UNCHANGED <<Everything, targets, finished, ints>>

-----------------------------------------------------------------------------
(* The processes *)

Outside == <<at, why, flagged, pending, active, pool, ints>>

Exits(c) ==
  /\ cli[c] = "alive" /\ cli' = [cli EXCEPT ![c] = "dead"]
  /\ UNCHANGED helpers /\ UNCHANGED Outside

\* Whoever holds the pipes may pass them on.
StartsHelper(c) ==
  /\ ~Eof(c)
  /\ \E where \in {"group", "detached"} \ helpers[c] :
       /\ where = "group" => cli[c] = "alive"
       /\ helpers' = [helpers EXCEPT ![c] = @ \union {where}]
  /\ UNCHANGED cli /\ UNCHANGED Outside

HelperExits(c) ==
  /\ \E where \in helpers[c] : helpers' = [helpers EXCEPT ![c] = @ \ {where}]
  /\ UNCHANGED cli /\ UNCHANGED Outside

-----------------------------------------------------------------------------
Init ==
  /\ at = [c \in Capture |-> "off"] /\ why = [c \in Capture |-> "none"]
  /\ cli = [c \in Capture |-> "none"] /\ helpers = [c \in Capture |-> {}]
  /\ flagged = {} /\ pending = {} /\ active = {}
  /\ cancelling = 0 /\ main = "steps" /\ targets = {} /\ finished = {}
  /\ ints = 0

CaptureStep(c) ==
  \/ Start(c) \/ Spawn(c) \/ Register(c) \/ SelfKill(c) \/ StartReaders(c)
  \/ Wait(c) \/ Join(c) \/ Check(c) \/ Kill(c) \/ Reap(c) \/ Grace(c) \/ Close(c)

ThreadStep(t) ==
  \/ \E c \in Capture : Owner(c) = t /\ CaptureStep(c)
  \/ t \in Worker /\ ItemReturns(t)
  \/ t = Main /\ (\/ FanOut \/ Collected \/ RunStops \/ OpenBlock
                  \/ AllKilled \/ CloseBlock \/ \E c \in Capture : KillTarget(c))

ProcessStep(c) == Exits(c) \/ StartsHelper(c) \/ HelperExits(c)

Next ==
  \/ \E t \in Thread : ThreadStep(t)
  \/ InterruptRun \/ \E c \in Capture : InterruptCapture(c) \/ ProcessStep(c)

Spec == Init /\ [][Next]_vars

\* Threads are scheduled, and with them the clock and the kernel's kill.  No
\* process owes its end, and nobody owes a Ctrl+C.
FairSpec == Spec /\ \A t \in Thread : WF_vars(ThreadStep(t))

-----------------------------------------------------------------------------
(* Properties *)

\* Every variable has its type.
TypeOK ==
  /\ at \in [Capture -> Places]
  /\ why \in [Capture -> {"none", "timeout", "interrupt", "raise"}]
  /\ cli \in [Capture -> {"none", "alive", "dead"}]
  /\ helpers \in [Capture -> SUBSET {"group", "detached"}]
  /\ flagged \subseteq Capture /\ pending \subseteq Capture
  /\ active \subseteq Capture /\ targets \subseteq Capture
  /\ cancelling \in 0..1 /\ finished \subseteq Worker
  /\ main \in {"steps", "collect", "cancel", "killing", "drain", "out"}
  /\ ints \in 0..MaxInterrupts

\* A result that reports a timeout or an interruption is returned only when
\* nothing of the process group is left to change the project.
StoppedIsGone ==
  \A c \in Capture : at[c] = "back" /\ why[c] \in {"timeout", "interrupt"} =>
    cli[c] = "dead" /\ "group" \notin helpers[c]

\* A result that reports neither is complete: the process ended and its output
\* was read to the end, whatever threads cancelled meanwhile.
CompleteOutput ==
  \A c \in Capture : at[c] = "back" /\ why[c] = "none" => Eof(c)

\* Inside a block no capture escapes: each registered one is already killed, or
\* kills itself as its next step, however the registration raced the snapshot.
NoneEscapes ==
  main = "drain" =>
    \A c \in active : c \in flagged \/ at[c] = "selfkill"

\* An interrupted fan-out ends and a timed capture returns, although processes
\* may never end and detached helpers may hold the pipes for ever.
CapturesEnd ==
  /\ main = "cancel" ~> main = "out"
  /\ \A c \in Timed : at[c] = "spawn" ~> at[c] = "back"

\* Whenever a capture is over after it timed out or was interrupted, also by an
\* exception, nothing of its process group is left.
NothingOutlives ==
  \A c \in Capture : at[c] = "back" /\ why[c] # "none" =>
    cli[c] # "alive" /\ "group" \notin helpers[c]
=============================================================================
