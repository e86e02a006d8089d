------------------------- MODULE WorkflowExecution -------------------------
(***************************************************************************)
(* The persisted execution tree of one workflow run and the runner that    *)
(* walks it: src/specify_cli/workflows/_execution.py together with         *)
(* RunState and WorkflowEngine of engine.py.                               *)
(*                                                                         *)
(* A run is a tree of step occurrences.  The runner visits it in order,    *)
(* writes a checkpoint at every transition, and a later process visits it  *)
(* again from the checkpoint.  Recursion of the code is one control frame  *)
(* per occurrence: pc[n] is where the frame of n stands and res[n] is the  *)
(* value it is about to return, raise, or has returned.  Frames under a    *)
(* concurrent fan-out belong to pool threads; all others to the main       *)
(* thread, the only one that receives Ctrl+C.                              *)
(***************************************************************************)
EXTENDS Integers, FiniteSets

CONSTANTS
  Node,          \* every step occurrence that may come to exist
  Root,          \* stands for the run itself, parent of the root sequence
  Kind,          \* Kind[n]: what sort of step n is
  Parent,        \* Parent[n]: the occurrence that owns n, or Root
  Slot,          \* Slot[n]: the child sequence (branch, iteration, item) of n
  Pos,           \* Pos[n]: the place of n in that sequence
  Tolerant,      \* occurrences with continue_on_error: true
  Workers,       \* max_concurrency of the fan-outs
  MaxAttempts,   \* bound: processes that work on the run (execute, resume...)
  MaxFaults,     \* bound: failed writes, missing implementations and kills
  MaxInterrupts  \* bound: Ctrl+C of the user

Kinds == {"leaf", "block", "loop", "call", "fanout"}
Halting == {"paused", "failed", "aborted"}
Statuses == {"created", "running", "completed"} \union Halting
Slots(n) == {Slot[m] : m \in {k \in Node : Parent[k] = n}}
SlotIds == {Slot[m] : m \in Node}

ASSUME TreeAssumption ==
  /\ Root \notin Node /\ IsFiniteSet(Node)
  /\ Kind \in [Node -> Kinds]
  /\ Parent \in [Node -> Node \union {Root}]
  /\ Slot \in [Node -> Nat \ {0}]
  /\ Pos \in [Node -> Nat \ {0}]
  /\ Tolerant \subseteq Node
ASSUME SlotAssumption ==
  \A n \in Node :
    /\ Kind[n] = "leaf" => Slots(n) = {}
    /\ Kind[n] \in {"block", "loop", "call", "fanout"} => 1 \in Slots(n)
    /\ Kind[n] = "call" => Slots(n) = {1}
    /\ Parent[n] = Root => Slot[n] = 1
    /\ Parent[n] # n
    /\ \A m \in Node : Parent[m] = Parent[n] /\ Slot[m] = Slot[n] /\ Pos[m] = Pos[n]
                      => m = n
    /\ \A s \in Slots(n) : 1..s \subseteq Slots(n)
ASSUME BoundAssumption ==
  /\ Workers \in Nat \ {0}
  /\ MaxAttempts \in Nat /\ MaxFaults \in Nat /\ MaxInterrupts \in Nat

VARIABLES
  tree,      \* the execution tree in memory
  status,    \* RunState.status
  index,     \* RunState.current_step_index, counted from one; 0 before any
  disk,      \* state.json: the last checkpoint
  poisoned,  \* RunState._checkpoint_failed
  rejected,  \* a transition was refused by its own checks
  proc,      \* where execute() or resume() stands; "none" between processes
  rebind,    \* resume() was given new inputs
  attempt, faults, ints,         \* what the bounds count
  pc, res,   \* control frame of each occurrence
  note,      \* event the frame owes the log after its checkpoint
  main,      \* the frame runs on the main thread
  pool,      \* the thread pool of each fan-out
  seen,      \* occurrences whose result was projected into their context
  log        \* events this process appended to log.jsonl

frames == <<pc, res, note, main, pool>>
budget == <<attempt, faults, ints>>
vars == <<tree, status, index, disk, poisoned, rejected, proc, rebind,
          budget, frames, seen, log>>

NodeRecord ==
  [phase   : {"ready", "children", "outputs", "blocked", "done"},
   result  : {"none", "completed", "failed", "paused"},
   outcome : {"none", "completed"} \union Halting,
   active  : BOOLEAN,
   kids    : SUBSET SlotIds,
   bound   : BOOLEAN]
Fresh == [phase |-> "ready", result |-> "none", outcome |-> "none",
          active |-> FALSE, kids |-> {}, bound |-> FALSE]
Untouched == [n \in Node |-> Fresh]
Value == {"none", "completed", "missing", "raised", "interrupt"} \union Halting
Place == {"idle", "begun", "ran", "kids", "outs", "drain", "fold", "raise", "back"}
Event == {"none", "started", "completed", "failed"}
PoolRecord == [queued : SUBSET Nat, started : SUBSET Nat, finished : SUBSET Nat,
               next : Nat, halted : BOOLEAN]
Raising == {"raised", "interrupt"}
NoPool == [queued |-> {}, started |-> {}, finished |-> {}, next |-> 1,
           halted |-> FALSE]

-----------------------------------------------------------------------------
(* What load() and transition() demand of an occurrence *)

ChildrenOf(n, nd) == {m \in Node : Parent[m] = n /\ Slot[m] \in nd.kids}

\* A call that continues after its child failed keeps unfinished children.
HandledChildFailure(n, nd) ==
  /\ Kind[n] = "call" /\ n \in Tolerant
  /\ nd.outcome = "completed" /\ nd.result = "failed"

CheckNode(n, nd, tr) ==
  /\ nd.phase = "done" =>
       /\ nd.result # "none" /\ ~nd.active
       /\ nd.outcome \in {"none", "completed"}
       /\ HandledChildFailure(n, nd)
            \/ \A m \in ChildrenOf(n, nd) : tr[m].phase = "done"
  /\ nd.phase = "blocked" =>
       nd.result \in {"failed", "paused"} /\ nd.outcome \in Halting
  /\ nd.bound => Kind[n] = "call" /\ nd.kids = {1}
  /\ Kind[n] = "call" /\ ~nd.bound => nd.kids = {}
  /\ nd.phase = "outputs" => nd.bound
  /\ nd.phase = "children" => nd.kids # {} /\ (nd.bound \/ nd.result # "none")
  /\ nd.phase = "ready" => nd.result = "none" /\ nd.kids = {} /\ ~nd.bound

ValidTree(tr) == \A n \in Node : CheckNode(n, tr[n], tr)

\* The phases each operation may start from.
From(op) ==
  CASE op = "begin"   -> {"ready", "blocked", "children", "outputs"}
    [] op = "expand"  -> {"ready", "blocked"}
    [] op = "bind"    -> {"ready", "blocked"}
    [] op = "rebind"  -> {"children", "blocked", "outputs"}
    [] op = "iterate" -> {"children"}
    [] op = "outputs" -> {"children", "blocked", "outputs"}
    [] op = "finish"  -> {"ready", "blocked", "children", "outputs"}
    [] op = "settle"  -> {"children"}

-----------------------------------------------------------------------------
(* Checkpoints *)

CheckpointRecord ==
  [tree : [Node -> NodeRecord], status : Statuses, index : Nat]
Checkpoint(tr, st, ix) == [tree |-> tr, status |-> st, index |-> ix]

\* How writing state.json and inputs.json can end.  A failed write poisons the
\* instance whether or not state.json was already replaced; Ctrl+C does not.
Writes(onMain) ==
  {"ok"} \union (IF faults < MaxFaults THEN {"lost", "half"} ELSE {})
         \union (IF onMain /\ ints < MaxInterrupts THEN {"stop", "late"} ELSE {})
Replaces(w) == w \in {"ok", "half", "late"}

Save(w, tr, st, ix) ==
  /\ disk' = IF Replaces(w) THEN Checkpoint(tr, st, ix) ELSE disk
  /\ poisoned' = (w \in {"lost", "half"})
  /\ faults' = IF w \in {"lost", "half"} THEN faults + 1 ELSE faults
  /\ ints' = IF w \in {"stop", "late"} THEN ints + 1 ELSE ints
WriteError(w) == IF w \in {"stop", "late"} THEN "interrupt" ELSE "raised"

-----------------------------------------------------------------------------
(* Frames *)

Goes(n, where, value) ==
  /\ pc' = [pc EXCEPT ![n] = where]
  /\ res' = [res EXCEPT ![n] = value]
Owes(n, event) == note' = [note EXCEPT ![n] = event]
Shows(n) == seen' = seen \union {n}
Calm(n) == note[n] = "none"
Returned(n, v) == pc[n] = "back" /\ Calm(n) /\ res[n] = v
Busy(n) == pc[n] \notin {"idle", "back"} \/ ~Calm(n)

\* transition(): refuse after a failed checkpoint, check the candidate with
\* the rules of load, then write memory, views and disk under the run lock.
\* The frame continues at "where" only if the checkpoint was written.
Transition(n, op, candidate, publish, where, value, event) ==
  /\ IF poisoned \/ tree[n].phase \notin From(op)
                 \/ ~CheckNode(n, candidate, tree)
     THEN /\ rejected' = (rejected \/ ~poisoned)
          /\ Goes(n, "raise", "raised")
          /\ UNCHANGED <<tree, disk, poisoned, faults, ints, seen, note>>
     ELSE /\ tree' = [tree EXCEPT ![n] = candidate]
          /\ IF publish THEN Shows(n) ELSE UNCHANGED seen
          /\ \E w \in Writes(main'[n]) :
               /\ Save(w, tree', status, index')
               /\ IF w = "ok"
                  THEN Goes(n, where, value) /\ Owes(n, event)
                  ELSE Goes(n, "raise", WriteError(w)) /\ UNCHANGED note
          /\ UNCHANGED rejected
  /\ UNCHANGED <<status, proc, rebind, attempt, log>>

-----------------------------------------------------------------------------
(* The order of the visit *)

Earlier(n) == {m \in Node : /\ Parent[m] = Parent[n] /\ Slot[m] = Slot[n]
                            /\ Pos[m] < Pos[n]}
Members(p, s) == {m \in Node : Parent[m] = p /\ Slot[m] = s}
SlotCompleted(p, s) == \A m \in Members(p, s) : Returned(m, "completed")
SlotStopped(p, s, v) == \E m \in Members(p, s) : Returned(m, v)
Stops == Halting \union Raising

PoolSize(f) == IF Workers < Cardinality(tree[f].kids)
               THEN Workers ELSE Cardinality(tree[f].kids)
\* A fan-out that replays its items, or has one worker, runs them in line.
Concurrent(p) == /\ p # Root /\ Kind[p] = "fanout"
                 /\ tree[p].phase = "children" /\ PoolSize(p) > 1

SlotOpen(p, s) ==
  IF Concurrent(p)
  THEN pc[p] \in {"kids", "drain"} /\ s \in pool[p].started \ pool[p].finished
  ELSE /\ pc[p] = "kids" /\ s \in tree[p].kids
       /\ \A t \in tree[p].kids : t < s => SlotCompleted(p, t)

\* run() reaches n once everything before it completed.
Turn(n) ==
  /\ proc = "run" /\ pc[n] = "idle"
  /\ \A m \in Earlier(n) : Returned(m, "completed")
  /\ Parent[n] # Root => SlotOpen(Parent[n], Slot[n])

\* Mutant: replayed root steps move the index too.
EntersAnyIndex(n) ==
  /\ Turn(n)
  /\ main' = [main EXCEPT ![n] =
               Parent[n] = Root \/ (main[Parent[n]] /\ ~Concurrent(Parent[n]))]
  /\ index' = IF Parent[n] = Root THEN Pos[n] ELSE index

Enters(n) ==
  /\ Turn(n)
  /\ main' = [main EXCEPT ![n] =
               Parent[n] = Root \/ (main[Parent[n]] /\ ~Concurrent(Parent[n]))]
  /\ index' = IF Parent[n] = Root /\ tree[n].phase # "done" THEN Pos[n] ELSE index

-----------------------------------------------------------------------------
(* step(): replay, or begin *)

\* Mutant: a completed container does not replay its children.
ReplayShallow(n) ==
  /\ Enters(n) /\ tree[n].phase = "done"
  /\ Shows(n) /\ Goes(n, "back", "completed")
  /\ UNCHANGED <<tree, status, disk, poisoned, rejected, proc, rebind, budget,
                 note, pool, log>>

\* A completed occurrence projects its result again and replays its children;
\* a call keeps its scope private, so its children are not replayed.
Replay(n) ==
  /\ Enters(n) /\ tree[n].phase = "done"
  /\ Shows(n)
  /\ Goes(n, IF Kind[n] # "call" /\ tree[n].kids # {} THEN "kids" ELSE "back",
          "completed")
  /\ UNCHANGED <<tree, status, disk, poisoned, rejected, proc, rebind, budget,
                 note, pool, log>>

ReplayAborted(n) ==
  /\ Enters(n) /\ tree[n].phase # "done" /\ tree[n].outcome = "aborted"
  /\ IF tree[n].result # "none" THEN Shows(n) ELSE UNCHANGED seen
  /\ Goes(n, "back", "aborted")
  /\ UNCHANGED <<tree, status, disk, poisoned, rejected, proc, rebind, budget,
                 note, pool, log>>

\* Mutants: a blocked call starts over; activity is not recorded.
BegunAfresh(n) ==
  IF Kind[n] = "call" /\ tree[n].phase = "blocked"
  THEN [Fresh EXCEPT !.active = TRUE] ELSE [tree[n] EXCEPT !.active = TRUE]
BegunSilently(n) == tree[n]

\* A blocked call drops the record of its previous attempt.
Begun(n) ==
  IF Kind[n] = "call" /\ tree[n].phase = "blocked"
  THEN [tree[n] EXCEPT !.active = TRUE, !.result = "none", !.outcome = "none",
          !.phase = IF tree[n].bound THEN "children" ELSE "ready"]
  ELSE [tree[n] EXCEPT !.active = TRUE]

\* Mutant: an aborted occurrence is run again.
BeginAborted(n) ==
  /\ Enters(n) /\ tree[n].phase # "done"
  /\ Transition(n, "begin", Begun(n), FALSE, "begun", "none", "started")
  /\ UNCHANGED pool

Begin(n) ==
  /\ Enters(n) /\ tree[n].phase # "done" /\ tree[n].outcome # "aborted"
  /\ Transition(n, "begin", Begun(n), FALSE, "begun", "none",
       IF Kind[n] = "call" \/ tree[n].phase \in {"ready", "blocked"}
       THEN "started" ELSE "none")
  /\ UNCHANGED pool

\* Mutant: append_log() does not look at the checkpoint failure.
NotifyAnyway(n) ==
  /\ note[n] # "none"
  /\ Owes(n, "none")
  /\ log' = log \union {<<note[n], n>>}
  /\ UNCHANGED <<tree, status, index, disk, poisoned, rejected, proc, rebind,
                 budget, pc, res, main, pool, seen>>

\* notify(): the event follows the checkpoint and never precedes it.  Another
\* thread may have failed its checkpoint in between; the log may be unwritable.
Notify(n) ==
  /\ note[n] # "none"
  /\ Owes(n, "none")
  /\ \/ /\ ~poisoned
        /\ log' = log \union {<<note[n], n>>}
        /\ UNCHANGED <<pc, res, faults>>
     \/ /\ poisoned \/ faults < MaxFaults
        /\ faults' = IF poisoned THEN faults ELSE faults + 1
        /\ Goes(n, "raise", "raised")
        /\ UNCHANGED log
  /\ UNCHANGED <<tree, status, index, disk, poisoned, rejected, proc, rebind,
                 attempt, ints, main, pool, seen>>

-----------------------------------------------------------------------------
(* execute_step(): the implementation runs, outside the lock *)

\* What an implementation may answer: a result, an abort, nothing because it is
\* not installed, or an exception.
Answers == {"completed", "failed", "paused", "aborted"}
            \union (IF faults < MaxFaults THEN {"missing", "raised"} ELSE {})

\* Mutant: the implementation is asked again although it expanded before.
ExecuteAlways(n) ==
  /\ pc[n] = "begun" /\ Calm(n) /\ Kind[n] # "call"
  /\ \E r \in Answers :
       /\ Goes(n, IF r = "raised" THEN "raise" ELSE "ran", r)
       /\ faults' = IF r \in {"missing", "raised"} THEN faults + 1 ELSE faults
  /\ UNCHANGED <<tree, status, index, disk, poisoned, rejected, proc, rebind,
                 attempt, ints, note, main, pool, seen, log>>

Execute(n) ==
  /\ pc[n] = "begun" /\ Calm(n) /\ Kind[n] # "call"
  /\ tree[n].phase \in {"ready", "blocked"}
  /\ \E r \in Answers :
       /\ Goes(n, IF r = "raised" THEN "raise" ELSE "ran", r)
       /\ faults' = IF r \in {"missing", "raised"} THEN faults + 1 ELSE faults
  /\ UNCHANGED <<tree, status, index, disk, poisoned, rejected, proc, rebind,
                 attempt, ints, note, main, pool, seen, log>>

\* An occurrence that was expanded before continues at its children.
Reenter(n) ==
  /\ pc[n] = "begun" /\ Calm(n) /\ Kind[n] # "call"
  /\ tree[n].phase \notin {"ready", "blocked"}
  /\ Shows(n) /\ Goes(n, "kids", "none")
  /\ pool' = [pool EXCEPT ![n] =
               IF Concurrent(n) THEN [NoPool EXCEPT !.queued = 1..PoolSize(n)]
                                ELSE NoPool]
  /\ UNCHANGED <<tree, status, index, disk, poisoned, rejected, proc, rebind,
                 budget, note, main, log>>

\* The children an own result may select: one branch, the first iteration, or
\* the items of a fan-out in order.
Selections(n) ==
  CASE Kind[n] = "block"  -> {{s} : s \in Slots(n)}
    [] Kind[n] = "loop"   -> {{1}}
    [] Kind[n] = "fanout" -> {1..k : k \in Slots(n)}
    [] OTHER -> {}

Expand(n) ==
  /\ pc[n] = "ran" /\ res[n] = "completed"
  /\ UNCHANGED <<index, main, pool>>
  /\ \E ks \in Selections(n) :
       Transition(n, "expand",
         [tree[n] EXCEPT !.result = "completed", !.kids = ks, !.phase = "children"],
         TRUE, "begun", "none", "completed")

\* A loop whose iterations 1..s-1 completed and whose condition holds gets
\* iteration s, up to max_iterations.
AllCompleted(n) == \A s \in tree[n].kids : SlotCompleted(n, s)

Iterate(n) ==
  /\ pc[n] = "kids" /\ Kind[n] = "loop" /\ tree[n].phase # "done"
  /\ AllCompleted(n)
  /\ UNCHANGED <<index, main, pool>>
  /\ \E s \in Slots(n) :
       /\ tree[n].kids = 1..(s - 1)
       /\ Transition(n, "iterate", [tree[n] EXCEPT !.kids = @ \union {s}],
            FALSE, "kids", "none", "none")

-----------------------------------------------------------------------------
(* workflow(): bind, rebind, run the bound child, finalize outputs *)

Bind(n) ==
  /\ pc[n] = "begun" /\ Calm(n) /\ Kind[n] = "call" /\ ~tree[n].bound
  /\ UNCHANGED <<index, main, pool>>
  /\ Transition(n, "bind",
       [tree[n] EXCEPT !.bound = TRUE, !.kids = {1}, !.phase = "children"],
       FALSE, "kids", "none", "none")

\* The target is missing, disabled, recursive, too deep, or its inputs are bad.
BindFails(n) ==
  /\ pc[n] = "begun" /\ Calm(n) /\ Kind[n] = "call" /\ ~tree[n].bound
  /\ Goes(n, "ran", "failed")
  /\ UNCHANGED <<tree, status, index, disk, poisoned, rejected, proc, rebind,
                 budget, note, main, pool, seen, log>>

Rebind(n) ==
  /\ pc[n] = "begun" /\ Calm(n) /\ Kind[n] = "call" /\ tree[n].bound /\ rebind
  /\ UNCHANGED <<index, main, pool>>
  /\ Transition(n, "rebind", tree[n], FALSE, "kids", "none", "none")

\* Bound inputs are kept; or the new ones do not fit and the error propagates.
EnterBound(n) ==
  /\ pc[n] = "begun" /\ Calm(n) /\ Kind[n] = "call" /\ tree[n].bound
  /\ \/ ~rebind /\ Goes(n, "kids", "none") /\ UNCHANGED faults
     \/ /\ rebind /\ faults < MaxFaults /\ faults' = faults + 1
        /\ Goes(n, "raise", "raised")
  /\ UNCHANGED <<tree, status, index, disk, poisoned, rejected, proc, rebind,
                 attempt, ints, note, main, pool, seen, log>>

Outputs(n) ==
  /\ pc[n] = "kids" /\ Kind[n] = "call" /\ AllCompleted(n)
  /\ UNCHANGED <<index, main, pool>>
  /\ Transition(n, "outputs", [tree[n] EXCEPT !.phase = "outputs"], FALSE,
       "outs", "none", "none")

EvaluateOutputs(n) ==
  /\ pc[n] = "outs"
  /\ \E r \in {"completed", "failed"} : Goes(n, "ran", r)
  /\ UNCHANGED <<tree, status, index, disk, poisoned, rejected, proc, rebind,
                 budget, note, main, pool, seen, log>>

-----------------------------------------------------------------------------
(* finish(): an own result, or the outcome of a subtree *)

OutcomeOf(n, r) ==
  IF r = "missing" THEN "failed"
  ELSE IF r = "failed" /\ n \in Tolerant THEN "completed"
  ELSE r

Finished(n, r) ==
  LET o == OutcomeOf(n, r) IN
    [tree[n] EXCEPT !.active = FALSE, !.outcome = o,
       !.result = IF r \in {"missing", "aborted"} THEN "failed" ELSE r,
       !.phase = IF o = "completed" THEN "done" ELSE "blocked"]

Finish(n) ==
  /\ pc[n] = "ran" /\ res[n] \in {"completed", "missing"} \union Halting
  /\ UNCHANGED <<index, main, pool>>
  /\ Transition(n, "finish", Finished(n, res[n]), res[n] # "missing",
       "back", OutcomeOf(n, res[n]),
       IF res[n] = "missing" THEN "failed" ELSE "completed")

\* Mutant: a subtree that halted blocks its owner like an own failure.
SettledBlocked(n, o) ==
  [tree[n] EXCEPT !.active = FALSE, !.outcome = o,
     !.phase = IF o = "completed" THEN "done" ELSE "blocked"]

Settled(n, o) ==
  [tree[n] EXCEPT !.active = FALSE, !.outcome = o,
     !.phase = IF o = "completed" THEN "done" ELSE "children"]

Settle(n) ==
  /\ pc[n] = "fold" /\ res[n] \in {"completed"} \union Halting
  /\ UNCHANGED <<index, main, pool>>
  /\ Transition(n, "settle", Settled(n, res[n]), Kind[n] = "fanout",
       "back", res[n], "none")

\* run_children() and run() hand the first stop, or completion, to the owner.
InLine(n) == pc[n] = "kids" /\ ~Concurrent(n)

ChildrenCompleted(n) ==
  /\ InLine(n) /\ AllCompleted(n) /\ (Kind[n] # "call")
  /\ Goes(n, IF tree[n].phase = "done" THEN "back" ELSE "fold", "completed")
  /\ UNCHANGED <<tree, status, index, disk, poisoned, rejected, proc, rebind,
                 budget, note, main, pool, seen, log>>

ChildrenStopped(n) ==
  /\ InLine(n)
  /\ \E s \in tree[n].kids, v \in Stops :
       /\ SlotStopped(n, s, v)
       /\ Goes(n, IF v \in Raising THEN "raise"
                  ELSE IF Kind[n] = "call" THEN "ran" ELSE "fold", v)
  /\ UNCHANGED <<tree, status, index, disk, poisoned, rejected, proc, rebind,
                 budget, note, main, pool, seen, log>>

\* Mutant: unwinding forgets how far the occurrence came.
LeaveReady(n) ==
  /\ pc[n] = "raise"
  /\ tree' = IF poisoned THEN tree
             ELSE [tree EXCEPT ![n].active = FALSE, ![n].phase = "ready"]
  /\ Goes(n, "back", res[n])
  /\ UNCHANGED <<status, index, disk, poisoned, rejected, proc, rebind, budget,
                 note, main, pool, seen, log>>

\* leave: memory only, and skipped once a checkpoint failed.
Leave(n) ==
  /\ pc[n] = "raise"
  /\ tree' = IF poisoned THEN tree ELSE [tree EXCEPT ![n].active = FALSE]
  /\ Goes(n, "back", res[n])
  /\ UNCHANGED <<status, index, disk, poisoned, rejected, proc, rebind, budget,
                 note, main, pool, seen, log>>

-----------------------------------------------------------------------------
(* fan_out(): a window of items on pool threads, collected in order *)

PoolVars == <<tree, status, index, disk, poisoned, rejected, proc, rebind,
              budget, note, main, seen, log>>

StartItem(f, s) ==
  /\ pc[f] = "kids" /\ s \in pool[f].queued
  /\ pool' = [pool EXCEPT ![f].queued = @ \ {s}, ![f].started = @ \union {s}]
  /\ UNCHANGED PoolVars /\ UNCHANGED <<pc, res>>

ItemStops(f, s) == \E v \in Stops : SlotStopped(f, s, v)

\* Mutant: the future of an item that raised is never resolved.
ReturnItemUnlessRaised(f, s) ==
  /\ pc[f] \in {"kids", "drain"} /\ s \in pool[f].started \ pool[f].finished
  /\ SlotCompleted(f, s) \/ \E v \in Halting : SlotStopped(f, s, v)
  /\ pool' = [pool EXCEPT ![f].finished = @ \union {s},
                          ![f].halted = @ \/ ItemStops(f, s)]
  /\ UNCHANGED PoolVars /\ UNCHANGED <<pc, res>>

ReturnItem(f, s) ==
  /\ pc[f] \in {"kids", "drain"} /\ s \in pool[f].started \ pool[f].finished
  /\ SlotCompleted(f, s) \/ ItemStops(f, s)
  /\ pool' = [pool EXCEPT ![f].finished = @ \union {s},
                          ![f].halted = @ \/ ItemStops(f, s)]
  /\ UNCHANGED PoolVars /\ UNCHANGED <<pc, res>>

\* The next result in order: stop at it, or let one more item in unless some
\* item has stopped meanwhile.
Collect(f) ==
  LET s == pool[f].next
      following == s + PoolSize(f)
      last == Cardinality(tree[f].kids)
  IN /\ pc[f] = "kids" /\ Concurrent(f) /\ s \in pool[f].finished
     /\ \/ /\ SlotCompleted(f, s)
           /\ pool' = [pool EXCEPT ![f].next = s + 1,
                ![f].queued = IF following <= last /\ ~pool[f].halted
                              THEN @ \union {following} ELSE @]
           /\ IF s = last THEN Goes(f, "drain", "completed")
                          ELSE UNCHANGED <<pc, res>>
        \/ /\ \E v \in Stops : SlotStopped(f, s, v) /\ Goes(f, "drain", v)
           /\ UNCHANGED pool
     /\ UNCHANGED PoolVars

\* Mutant: the pool is shut down without waiting.
DrainedAtOnce(f) ==
  /\ pc[f] = "drain"
  /\ Goes(f, IF res[f] \in Raising THEN "raise" ELSE "fold", res[f])
  /\ UNCHANGED PoolVars /\ UNCHANGED pool

\* _shutdown_workers(): what was not started is cancelled, the rest awaited.
Drained(f) ==
  /\ pc[f] = "drain" /\ pool[f].started = pool[f].finished
  /\ Goes(f, IF res[f] \in Raising THEN "raise" ELSE "fold", res[f])
  /\ UNCHANGED PoolVars /\ UNCHANGED pool

-----------------------------------------------------------------------------
(* Ctrl+C reaches the innermost frame of the main thread *)

Innermost(n) ==
  /\ Busy(n) /\ main[n]
  /\ \A m \in Node : Parent[m] = n => ~(Busy(m) /\ main[m])

Interrupt(n) ==
  /\ proc = "run" /\ ints < MaxInterrupts /\ Innermost(n)
  /\ ~(pc[n] = "drain" /\ res[n] = "interrupt")   \* bound: no second Ctrl+C
                                                  \* while the pool drains
  /\ ints' = ints + 1
  /\ Goes(n, IF pc[n] \in {"kids", "drain"} /\ Concurrent(n)
             THEN "drain" ELSE "raise", "interrupt")
  /\ Owes(n, "none")
  /\ UNCHANGED <<tree, status, index, disk, poisoned, rejected, proc, rebind,
                 attempt, faults, main, pool, seen, log>>

-----------------------------------------------------------------------------
(* execute() and resume() *)

RootNodes == {n \in Node : Parent[n] = Root}

\* Memory of a process that is gone is forgotten; only the checkpoint is left.
Forgets ==
  /\ proc' = "none"
  /\ tree' = disk'.tree /\ status' = disk'.status /\ index' = disk'.index
  /\ poisoned' = FALSE /\ rebind' = FALSE
  /\ pc' = [n \in Node |-> "idle"] /\ res' = [n \in Node |-> "none"]
  /\ note' = [n \in Node |-> "none"] /\ main' = [n \in Node |-> TRUE]
  /\ pool' = [n \in Node |-> NoPool]
  /\ seen' = {} /\ log' = {}

\* The setup checkpoint says "running" before any step is visited.  It lies
\* outside the handlers: an interrupt or a failed write ends the process.
Setup(tr, ix, inputs) ==
  /\ attempt' = attempt + 1
  /\ \E w \in Writes(TRUE) :
       /\ disk' = IF Replaces(w) THEN Checkpoint(tr, "running", ix) ELSE disk
       /\ faults' = IF w \in {"lost", "half"} THEN faults + 1 ELSE faults
       /\ ints' = IF w \in {"stop", "late"} THEN ints + 1 ELSE ints
       /\ IF w = "ok"
          THEN /\ proc' = "run" /\ tree' = tr /\ status' = "running"
               /\ index' = ix /\ rebind' = inputs
               /\ UNCHANGED <<poisoned, frames, seen, log>>
          ELSE Forgets
  /\ UNCHANGED rejected

Start ==
  /\ proc = "none" /\ attempt = 0 /\ attempt < MaxAttempts
  /\ Setup(Untouched, 0, FALSE)

\* resume() validates the stored tree before it writes anything.
Resume ==
  /\ proc = "none" /\ attempt < MaxAttempts
  /\ disk.status \in {"paused", "failed"} /\ ValidTree(disk.tree)
  /\ \E inputs \in BOOLEAN : Setup(disk.tree, disk.index, inputs)

RootStops(v) == \E n \in RootNodes : Returned(n, v)
RootCompleted == \A n \in RootNodes : Returned(n, "completed")
NoFrame == \A n \in RootNodes : ~Busy(n)

\* _execute_steps() returns an outcome, or raises to its caller.
RootReturns ==
  /\ proc = "run"
  /\ \/ /\ RootCompleted
        /\ proc' = "final" /\ UNCHANGED status
     \/ \E v \in Halting :
          /\ RootStops(v) /\ status' = v /\ proc' = "final"
     \/ /\ RootStops("interrupt") /\ status' = "paused" /\ proc' = "saving"
     \/ /\ RootStops("raised") /\ ~poisoned
        /\ status' = "failed" /\ proc' = "saving"
  /\ UNCHANGED <<tree, index, disk, poisoned, rejected, rebind, budget, frames,
                 seen, log>>

\* Ctrl+C between two root steps.
RootInterrupt ==
  /\ proc = "run" /\ ints < MaxInterrupts /\ NoFrame
  /\ ints' = ints + 1 /\ status' = "paused" /\ proc' = "saving"
  /\ UNCHANGED <<tree, index, disk, poisoned, rejected, rebind, attempt, faults,
                 frames, seen, log>>

\* The closing log entry and checkpoint, outside every handler.  They fail
\* when a checkpoint failed before, when a write fails, or on Ctrl+C.
\* Mutant: a run that returns is completed.
FinalAlways == IF proc = "final" THEN "completed" ELSE status

FinalStatus == IF status = "running" THEN "completed" ELSE status

Close ==
  /\ proc \in {"final", "saving"}
  /\ \E w \in Writes(TRUE) :
       /\ disk' = IF Replaces(w) /\ ~poisoned
                  THEN Checkpoint(tree, FinalStatus, index) ELSE disk
       /\ faults' = IF w \in {"lost", "half"} THEN faults + 1 ELSE faults
       /\ ints' = IF w \in {"stop", "late"} THEN ints + 1 ELSE ints
  /\ Forgets
  /\ UNCHANGED <<rejected, attempt>>

\* A checkpoint error is re-raised unsaved: the checkpoint on disk stands.
GivesUp ==
  /\ proc = "run" /\ RootStops("raised") /\ poisoned
  /\ UNCHANGED disk
  /\ Forgets
  /\ UNCHANGED <<rejected, budget>>

Killed ==
  /\ proc # "none" /\ faults < MaxFaults /\ faults' = faults + 1
  /\ UNCHANGED disk
  /\ Forgets
  /\ UNCHANGED <<rejected, attempt, ints>>

-----------------------------------------------------------------------------
Init ==
  /\ tree = Untouched /\ status = "created" /\ index = 0
  /\ disk = Checkpoint(Untouched, "created", 0)
  /\ poisoned = FALSE /\ rejected = FALSE /\ proc = "none" /\ rebind = FALSE
  /\ attempt = 0 /\ faults = 0 /\ ints = 0
  /\ pc = [n \in Node |-> "idle"] /\ res = [n \in Node |-> "none"]
  /\ note = [n \in Node |-> "none"] /\ main = [n \in Node |-> TRUE]
  /\ pool = [n \in Node |-> NoPool]
  /\ seen = {} /\ log = {}

\* What the process does by itself once it is running.
StepOf(n) ==
  \/ Replay(n) \/ ReplayAborted(n) \/ Begin(n) \/ Notify(n)
  \/ Execute(n) \/ Reenter(n) \/ Expand(n) \/ Iterate(n)
  \/ Bind(n) \/ BindFails(n) \/ Rebind(n) \/ EnterBound(n)
  \/ Outputs(n) \/ EvaluateOutputs(n) \/ Finish(n) \/ Settle(n)
  \/ ChildrenCompleted(n) \/ ChildrenStopped(n) \/ Leave(n)
  \/ Collect(n) \/ Drained(n)
  \/ \E s \in Slots(n) : StartItem(n, s) \/ ReturnItem(n, s)

Next ==
  \/ Start \/ Resume \/ RootReturns \/ RootInterrupt \/ Close \/ GivesUp \/ Killed
  \/ \E n \in Node : StepOf(n) \/ Interrupt(n)

Spec == Init /\ [][Next]_vars

\* Implementations return, threads are scheduled, and the engine goes on; the
\* user, the disk and the operating system owe nothing.
Fairness ==
  /\ WF_vars(\E n \in Node : StepOf(n))
  /\ WF_vars(RootReturns) /\ WF_vars(Close) /\ WF_vars(GivesUp)

FairSpec == Spec /\ Fairness

-----------------------------------------------------------------------------
(* Properties *)

\* Every variable has its type.
TypeOK ==
  /\ tree \in [Node -> NodeRecord]
  /\ status \in Statuses /\ index \in Nat
  /\ disk \in CheckpointRecord
  /\ poisoned \in BOOLEAN /\ rejected \in BOOLEAN /\ rebind \in BOOLEAN
  /\ proc \in {"none", "run", "final", "saving"}
  /\ attempt \in 0..MaxAttempts
  /\ faults \in 0..MaxFaults /\ ints \in 0..MaxInterrupts
  /\ pc \in [Node -> Place] /\ res \in [Node -> Value]
  /\ note \in [Node -> Event] /\ main \in [Node -> BOOLEAN]
  /\ pool \in [Node -> PoolRecord]
  /\ seen \subseteq Node
  /\ log \subseteq Event \X Node

\* transition() never refuses an operation the runner asks for: no path of the
\* runner, fresh, resumed or unwinding, meets the phase and shape checks.
NeverRefused == ~rejected

\* Whatever was written, with failures and interrupts at any point, passes
\* validate_execution() when the run is loaded.
StoredTreeLoads == ValidTree(disk.tree)

\* Persisted progress keeps the authored order, over every resume: a step that
\* left "ready" has only completed steps before it in its sequence.
InOrder ==
  \A n \in Node : disk.tree[n].phase # "ready" =>
    \A m \in Earlier(n) : disk.tree[m].phase = "done"

\* Resume replays: an implementation whose own result was checkpointed as
\* completed is not executed again, whatever became of its children.
NoRepeat ==
  [][\A n \in Node : Kind[n] # "call" /\ pc[n] = "begun" /\ pc'[n] = "ran"
       => disk.tree[n].result # "completed"]_vars

\* Selected branches, iterations, items and bound definitions stay frozen: no
\* later checkpoint drops one.
FrozenExpansion ==
  [][\A n \in Node : /\ disk.tree[n].kids \subseteq disk'.tree[n].kids
                     /\ disk.tree[n].bound => disk'.tree[n].bound]_vars

\* A run reported completed has completed every root step, and a run reported
\* aborted has a root step whose subtree was aborted.
StatusMatchesTree ==
  /\ disk.status = "completed" =>
       \A n \in RootNodes : disk.tree[n].phase = "done"
  /\ disk.status = "aborted" =>
       \E n \in RootNodes : disk.tree[n].outcome = "aborted"

\* The saved root index splits the root sequence: what lies before is done and
\* what lies after is untouched, so no resume skips or repeats a root step.
ResumePoint ==
  \A n \in RootNodes :
    /\ Pos[n] < disk.index => disk.tree[n].phase = "done"
    /\ Pos[n] > disk.index => disk.tree[n] = Fresh

\* Replay rebuilds the expression context: once a container returned completed,
\* in this process or replayed from an earlier one, the results of all its
\* selected children are in the context the next steps read.
ContextRestored ==
  \A n \in Node : Returned(n, "completed") =>
    /\ n \in seen
    /\ Kind[n] \in {"block", "loop", "fanout"} =>
         ChildrenOf(n, tree[n]) \subseteq seen

\* Events follow their checkpoint: when an event is appended, state.json
\* already holds what it announces.
LogFollowsCheckpoint ==
  [][\A n \in Node :
       /\ <<"started", n>> \in log' \ log => disk.tree[n].active
       /\ <<"completed", n>> \in log' \ log => disk.tree[n].result # "none"
    ]_vars

\* After a failed checkpoint no thread of the instance saves or logs again.
PoisonSilences == [][poisoned => disk' = disk /\ log' \subseteq log]_vars

\* The operator's abort is final: an occurrence recorded aborted stays so.
AbortIsFinal ==
  [][\A n \in Node : disk.tree[n].outcome = "aborted" =>
       disk'.tree[n] = disk.tree[n]]_vars

\* At most PoolSize items of a fan-out run at once, and no item starts that is
\* a whole window or more behind an item that stopped.  A fan-out that has stopped
\* waiting left no item running behind its back, whether it completed, halted,
\* raised or was interrupted.
PoolDiscipline ==
  \A f \in Node : Kind[f] = "fanout" =>
    /\ Cardinality(pool[f].started \ pool[f].finished) <= PoolSize(f)
    /\ \A s \in pool[f].started, t \in tree[f].kids :
         ItemStops(f, t) => s < t + PoolSize(f)
    /\ pc[f] \in {"fold", "raise", "back"} => \A m \in Node : Parent[m] = f => ~Busy(m)

\* Every process that works on the run ends, and leaves a run that says so.
RunsEnd == proc # "none" ~> proc = "none"

\* The state file alone behaves as the promised life cycle of a run: whatever
\* threads, failures, interrupts and resumes do, completed steps stay completed
\* and in order, and the status moves only along its diagram.
Lifecycle == INSTANCE RunLifecycle WITH
  status <- disk.status,
  done <- {n \in Node : disk.tree[n].phase = "done"},
  Step <- Node, Top <- RootNodes, Prior <- [n \in Node |-> Earlier(n)]

ImplementsLifecycle == Lifecycle!Spec
=============================================================================
