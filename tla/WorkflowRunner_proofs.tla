----------------------- MODULE WorkflowRunner_proofs -----------------------
(* Theorems about the runner of WorkflowExecution: how the frames of owners  *)
(* and children stand to each other, to the pools and to the checkpoint.     *)
EXTENDS WorkflowExecution_proofs

-----------------------------------------------------------------------------
(* What a step of one frame leaves alone *)

\* What a step may write.
Writing == disk' = disk \/ disk' = Checkpoint(tree', status', index')

\* A transition goes on where it was asked to, with its candidate written and
\* published, or it raises; either way only one record and one frame change.
Effect(n, op, c, p, where, v, e) ==
  /\ \A m \in Node \ {n} : /\ pc'[m] = pc[m] /\ res'[m] = res[m]
                           /\ note'[m] = note[m] /\ tree'[m] = tree[m]
  /\ Writing /\ UNCHANGED <<status, proc, attempt>> /\ seen \subseteq seen'
  /\ tree'[n] = tree[n] \/ tree'[n] = c
  /\ \/ pc'[n] = "raise" /\ res'[n] \in Raising /\ note'[n] = note[n]
     \/ /\ pc'[n] = where /\ res'[n] = v /\ note'[n] = e /\ tree'[n] = c
        /\ tree[n].phase \in From(op)
        /\ disk' = Checkpoint(tree', status', index')
        /\ p => n \in seen'

LEMMA TransitionEffect ==
  ASSUME TypeOK, NEW n \in Node, NEW op, NEW c \in NodeRecord, NEW p \in BOOLEAN, NEW where,
         NEW v, NEW e, Transition(n, op, c, p, where, v, e)
  PROVE  Effect(n, op, c, p, where, v, e)
<1> USE DEF Effect, Writing
<1>0. UNCHANGED <<status, proc, rebind, attempt, log>>
  BY DEF Transition
<1>1. CASE poisoned \/ tree[n].phase \notin From(op) \/ ~CheckNode(n, c, tree)
  BY <1>0, <1>1 DEF Transition, TypeOK, Goes, Raising
<1>2. CASE ~(poisoned \/ tree[n].phase \notin From(op) \/ ~CheckNode(n, c, tree))
  <2>1. /\ tree' = [tree EXCEPT ![n] = c] /\ tree[n].phase \in From(op)
        /\ CheckNode(n, c, tree)
        /\ seen \subseteq seen' /\ (p => n \in seen')
    BY <1>2 DEF Transition, Shows
  <2>2. PICK w \in Writes(main'[n]) :
               /\ Save(w, tree', status, index')
               /\ IF w = "ok"
                  THEN Goes(n, where, v) /\ Owes(n, e)
                  ELSE Goes(n, "raise", WriteError(w)) /\ UNCHANGED note
    BY <1>2 DEF Transition
  <2>3. tree'[n] = c /\ \A m \in Node \ {n} : tree'[m] = tree[m]
    BY <2>1 DEF TypeOK
  <2>4. /\ disk' = disk \/ disk' = Checkpoint(tree', status', index')
        /\ w = "ok" => disk' = Checkpoint(tree', status', index')
    BY <1>0, <2>2 DEF Save, Replaces
  <2>5. CASE w = "ok"
    BY <1>0, <2>1, <2>2, <2>3, <2>4, <2>5 DEF Goes, Owes, TypeOK
  <2>6. CASE w # "ok"
    BY <1>0, <2>1, <2>2, <2>3, <2>4, <2>6 DEF Goes, WriteError, Raising, TypeOK
  <2> QED BY <2>5, <2>6
<1> QED BY <1>1, <1>2

\* The frame of n moves and the frames, records and pools of all others stand;
\* a frame that has returned moves no more.
Alone(n) ==
  /\ \A m \in Node \ {n} :
       /\ pc'[m] = pc[m] /\ res'[m] = res[m] /\ note'[m] = note[m]
       /\ tree'[m] = tree[m] /\ main'[m] = main[m] /\ pool'[m] = pool[m]
  /\ \A v : ~Returned(n, v)
  /\ Writing /\ UNCHANGED <<status, proc, attempt>> /\ seen \subseteq seen'
  /\ pc[n] # "idle" => main'[n] = main[n] /\ index' = index
  /\ pc'[n] # "idle"

LEMMA FrameIsAlone ==
  ASSUME IInv, NEW n \in Node, StepOf(n) \/ Interrupt(n)
  PROVE  Alone(n)
<1> USE DEF Alone, Writing
<1>0. TypeOK /\ (note[n] # "none" => pc[n] # "idle") /\ tree[n] \in NodeRecord
  BY DEF IInv, Kept, Owing, TypeOK
<1>1. CASE Replay(n) \/ ReplayAborted(n)
  BY <1>0, <1>1 DEF Replay, ReplayAborted, Enters, Turn, Shows, Goes, Returned, budget, TypeOK
<1>2. CASE Notify(n) \/ Execute(n) \/ Reenter(n)
  BY <1>0, <1>2 DEF Notify, Execute, Reenter, Shows, Goes, Owes, Calm, Returned, budget, TypeOK
<1>3. CASE BindFails(n) \/ EnterBound(n) \/ EvaluateOutputs(n) \/ Leave(n)
  BY <1>0, <1>3 DEF BindFails, EnterBound, EvaluateOutputs, Leave, Goes, Returned, budget, TypeOK
<1>4. CASE ChildrenCompleted(n) \/ ChildrenStopped(n) \/ Interrupt(n)
  BY <1>0, <1>4 DEF ChildrenCompleted, ChildrenStopped, InLine, Interrupt, Innermost, Busy, Goes,
                    Owes, Returned, budget, TypeOK
<1>5. CASE Collect(n) \/ Drained(n) \/ \E s \in Slots(n) : StartItem(n, s) \/ ReturnItem(n, s)
  BY <1>0, <1>5 DEF Collect, Drained, StartItem, ReturnItem, PoolVars, Goes, Returned, budget,
                    TypeOK
<1>6. ASSUME NEW op, NEW c \in NodeRecord, NEW p \in BOOLEAN, NEW where, NEW v, NEW e,
             Transition(n, op, c, p, where, v, e), UNCHANGED pool, where # "idle",
             \A m \in Node \ {n} : main'[m] = main[m], \A u : ~Returned(n, u),
             pc[n] # "idle" => main'[n] = main[n] /\ index' = index
      PROVE  Alone(n)
  <2>1. Effect(n, op, c, p, where, v, e)
    BY <1>0, <1>6, TransitionEffect
  <2> QED BY <1>6, <2>1 DEF Effect
<1>7. CASE Begin(n)
  <2>1. Begun(n) \in NodeRecord
    BY <1>0 DEF Begun, NodeRecord
  <2>2. PICK e : Transition(n, "begin", Begun(n), FALSE, "begun", "none", e)
    BY <1>7 DEF Begin
  <2>3. /\ UNCHANGED pool /\ pc[n] = "idle"
        /\ \A m \in Node \ {n} : main'[m] = main[m]
    BY <1>0, <1>7 DEF Begin, Enters, Turn, TypeOK
  <2> QED BY <1>6, <2>1, <2>2, <2>3 DEF Returned
<1>8. CASE Expand(n) \/ Iterate(n) \/ Bind(n) \/ Rebind(n) \/ Outputs(n) \/ Finish(n) \/ Settle(n)
  <2>1. UNCHANGED <<index, main, pool>> /\ pc[n] \in {"ran", "kids", "begun", "fold"}
    BY <1>8 DEF Expand, Iterate, Bind, Rebind, Outputs, Finish, Settle
  <2>2. \E op, where, v, e : \E c \in NodeRecord, p \in BOOLEAN :
          Transition(n, op, c, p, where, v, e) /\ where # "idle"
    <3>1. CASE Expand(n)
      <4>1. \A ks \in Selections(n) :
              [tree[n] EXCEPT !.result = "completed", !.kids = ks, !.phase = "children"]
                \in NodeRecord
        BY <1>0, SelectionsTyped DEF NodeRecord
      <4> QED BY <3>1, <4>1 DEF Expand
    <3>2. CASE Iterate(n)
      <4>1. \A s \in Slots(n) : [tree[n] EXCEPT !.kids = @ \union {s}] \in NodeRecord
        BY <1>0, SlotsTyped DEF NodeRecord
      <4> QED BY <3>2, <4>1 DEF Iterate
    <3>3. CASE Bind(n)
      <4>1. [tree[n] EXCEPT !.bound = TRUE, !.kids = {1}, !.phase = "children"] \in NodeRecord
        BY <1>0, <3>3, SlotsTyped, SlotAssumption DEF NodeRecord, Bind
      <4> QED BY <3>3, <4>1 DEF Bind
    <3>4. CASE Rebind(n)
      BY <1>0, <3>4 DEF Rebind
    <3>5. CASE Outputs(n)
      <4>1. [tree[n] EXCEPT !.phase = "outputs"] \in NodeRecord
        BY <1>0 DEF NodeRecord
      <4> QED BY <3>5, <4>1 DEF Outputs
    <3>6. CASE Finish(n)
      <4>1. Finished(n, res[n]) \in NodeRecord
        BY <1>0, <3>6 DEF Finish, Finished, OutcomeOf, NodeRecord, Halting
      <4> QED BY <3>6, <4>1 DEF Finish
    <3>7. CASE Settle(n)
      <4>1. Settled(n, res[n]) \in NodeRecord
        BY <1>0, <3>7 DEF Settle, Settled, NodeRecord, Halting
      <4> QED BY <3>7, <4>1 DEF Settle
    <3> QED BY <1>8, <3>1, <3>2, <3>3, <3>4, <3>5, <3>6, <3>7
  <2> QED BY <1>6, <2>1, <2>2 DEF Returned
<1> QED BY <1>1, <1>2, <1>3, <1>4, <1>5, <1>7, <1>8 DEF StepOf

-----------------------------------------------------------------------------
(* The second inductive invariant                                            *)
(* A frame is busy only while its owner waits for its slot; what a slot, a   *)
(* pool or a container gave back stays given back for as long as the         *)
(* process lives.                                                            *)

\* What any tree of a run looks like, in memory under its root index and on
\* disk under the stored one: items are numbered from one, what was touched has
\* everything before it done, and the index splits the root sequence.
Laid(tr, ix) ==
  /\ \A n \in Node : Kind[n] = "fanout" => \E k \in Nat : tr[n].kids = 1..k
  /\ \A n \in Node : tr[n] # Fresh => Behind(n, tr)
  /\ \A n \in RootNodes : /\ Pos[n] < ix => tr[n].phase = "done"
                          /\ Pos[n] > ix => tr[n] = Fresh

\* What the place of a frame says of its record and of the context.
PlacedAt(n, where, value, nd, shown) ==
  /\ where \in {"begun", "ran", "outs"} => nd.phase # "done"
  /\ where \in {"kids", "outs"} /\ Kind[n] = "call" => nd.bound /\ nd.phase # "done"
  /\ where = "kids" /\ Kind[n] # "call" => nd.phase \in {"children", "done"}
  /\ where = "drain" => Kind[n] = "fanout" /\ nd.phase = "children"
  /\ where = "fold" => Kind[n] # "call" /\ nd.phase = "children"
  /\ where = "back" /\ value \in Halting => nd.phase # "done"
  /\ where = "back" /\ value = "aborted" => nd.outcome = "aborted"
  /\ where \in {"kids", "drain", "fold"} /\ Kind[n] # "call" => n \in shown
  /\ where = "back" /\ value = "completed" => n \in shown

Placed == \A n \in Node : PlacedAt(n, pc[n], res[n], tree[n], seen)

\* An event is owed only right after the checkpoint that justifies it.
NotedAt(n) ==
  /\ note[n] # "none" => pc[n] \in {"begun", "back"}
  /\ note[n] = "started" => tree[n].active /\ disk.tree[n].active
  /\ note[n] = "completed" => tree[n].result # "none" /\ disk.tree[n].result # "none"

Noted == \A n \in Node : NotedAt(n)

\* The frame of p has come to its children.
Opened(p) == \/ pc[p] \in {"kids", "drain", "outs", "fold", "raise", "back"}
             \/ pc[p] = "ran" /\ Kind[p] = "call"

\* How the frame of a child stands to the frame of its owner: while it is busy
\* its slot is open, in line slots are taken in order, and a child in line with
\* the main thread is on the main thread.
AttendedAt(m, p) ==
  /\ Opened(p)
  /\ Kind[p] = "loop" => Slot[m] \in tree[p].kids
  /\ ~Concurrent(p) => \A t \in tree[p].kids : t < Slot[m] => SlotCompleted(p, t)
  /\ Busy(m) => SlotOpen(p, Slot[m])
  /\ pc[p] = "kids" /\ ~Concurrent(p) /\ main[p] => main[m]

Attended ==
  \A m \in Node : pc[m] # "idle" /\ Parent[m] # Root => AttendedAt(m, Parent[m])

\* Nothing of a sequence is entered before what comes earlier has completed.
Ordered ==
  \A n \in Node : pc[n] # "idle" => \A m \in Earlier(n) : Returned(m, "completed")

\* A frame that reports its children completed has all of them back.
Gathers(n) == \/ pc[n] = "outs"
              \/ pc[n] \in {"fold", "ran"} /\ res[n] = "completed"
              \/ pc[n] = "back" /\ Kind[n] # "call" /\ res[n] = "completed"
GatheredAt(n) ==
  Gathers(n) => \A m \in ChildrenOf(n, tree[n]) : Returned(m, "completed")

Gathered == \A n \in Node : GatheredAt(n)

\* The window of a fan-out: items before next were collected, nothing a window
\* or more after them was let in, and a pool is shut down only while it is one.
PoolAt(f) ==
  /\ pc[f] \in {"idle", "begun", "ran"} => pool[f] = NoPool
  /\ pool[f].next >= 1
  /\ pool[f].finished \subseteq pool[f].started
  /\ \A s \in pool[f].queued \union pool[f].started :
       s >= 1 /\ s < pool[f].next + PoolSize(f)
  /\ \A s \in 1..(pool[f].next - 1) : s \in pool[f].finished /\ SlotCompleted(f, s)
  /\ pc[f] = "drain" => Concurrent(f)
  /\ pc[f] = "drain" /\ res[f] = "completed"
       => pool[f].next = Cardinality(tree[f].kids) + 1

Pooled == \A f \in Node : Kind[f] = "fanout" => PoolAt(f)

\* The index has reached every root step that was entered.
Reached == \A n \in RootNodes : pc[n] # "idle" => Pos[n] <= index

\* The status in memory and on disk at each stage of a process.
Staged ==
  /\ attempt = 0 => disk.status = "created"
  /\ proc # "none" => disk.status = "running"
  /\ proc = "run" => status = "running"
  /\ proc = "saving" => status \in {"paused", "failed"}
  /\ proc = "final" => \/ status = "running" /\ RootCompleted
                       \/ status \in Halting /\ RootStops(status)
  /\ proc \in {"final", "saving"} => \A n \in Node : ~Busy(n)

\* Every frame was entered on behalf of the root sequence: no set of frames
\* hangs together by itself.
Grounded ==
  \A S \in SUBSET Node :
    (\A n \in S : pc[n] # "idle" /\ Parent[n] \in S) => S = {}

Walks ==
  /\ Laid(tree, index) /\ Laid(disk.tree, disk.index) /\ Grounded
  /\ Placed /\ Noted /\ Attended /\ Ordered /\ Gathered /\ Pooled
  /\ Reached /\ Staged /\ StatusMatchesTree /\ NeverRefused

RInv == IInv /\ Walks

-----------------------------------------------------------------------------
(* Steps of a frame: what stays, and the place it goes to *)

\* The record an own result leaves.
LEMMA FinishedRecord ==
  ASSUME NEW n \in Node, tree[n] \in NodeRecord,
         NEW r \in {"completed", "failed", "paused", "aborted", "missing"}
  PROVE  /\ Finished(n, r) \in NodeRecord
         /\ Finished(n, r).kids = tree[n].kids /\ Finished(n, r).bound = tree[n].bound
         /\ Finished(n, r).outcome = OutcomeOf(n, r) /\ Finished(n, r).active = FALSE
         /\ Finished(n, r).result = IF r \in {"missing", "aborted"} THEN "failed" ELSE r
         /\ Finished(n, r).phase = IF OutcomeOf(n, r) = "completed" THEN "done" ELSE "blocked"
BY DEF Finished, OutcomeOf, NodeRecord, Halting

\* The record the outcome of a subtree leaves.
LEMMA SettledRecord ==
  ASSUME NEW n \in Node, tree[n] \in NodeRecord,
         NEW r \in {"completed", "failed", "paused", "aborted"}
  PROVE  /\ Settled(n, r) \in NodeRecord
         /\ Settled(n, r).kids = tree[n].kids /\ Settled(n, r).bound = tree[n].bound
         /\ Settled(n, r).outcome = r /\ Settled(n, r).active = FALSE
         /\ Settled(n, r).result = tree[n].result
         /\ Settled(n, r).phase = IF r = "completed" THEN "done" ELSE "children"
BY DEF Settled, NodeRecord, Halting

\* Returns of this process are final.
LEMMA ReturnedStays ==
  ASSUME NEW n \in Node, Alone(n)
  PROVE  /\ \A m \in Node : \A v : Returned(m, v) => Returned(m, v)'
         /\ \A m \in Node \ {n} : \A v : Returned(m, v)' => Returned(m, v)
         /\ \A m \in Node \ {n} : Busy(m)' <=> Busy(m)
         /\ \A p, s : SlotCompleted(p, s) => SlotCompleted(p, s)'
<1>1. ASSUME NEW m \in Node, NEW v, Returned(m, v) PROVE Returned(m, v)'
  <2>1. m # n
    BY <1>1 DEF Alone
  <2> QED BY <1>1, <2>1 DEF Alone, Returned, Calm
<1>2. ASSUME NEW m \in Node \ {n}
      PROVE  (\A v : Returned(m, v)' => Returned(m, v)) /\ (Busy(m)' <=> Busy(m))
  BY DEF Alone, Returned, Busy, Calm
<1>3. ASSUME NEW p, NEW s, SlotCompleted(p, s) PROVE SlotCompleted(p, s)'
  BY <1>1, <1>3 DEF SlotCompleted, Members
<1> QED BY <1>1, <1>2, <1>3

\* A frame that returned with a halting value or an abort is not done.
LEMMA StoppedNotDone ==
  ASSUME Placed, NEW m \in Node, NEW v \in Halting, Returned(m, v)
  PROVE  tree[m].phase # "done"
BY DEF Placed, PlacedAt, Returned

\* The place a transition leads to, given the one it asks for.
LEMMA EffectPlaced ==
  ASSUME NEW n \in Node, NEW op, NEW c, NEW p \in BOOLEAN, NEW where, NEW v, NEW e,
         Effect(n, op, c, p, where, v, e),
         tree[n].phase \in From(op) =>
           PlacedAt(n, where, v, c, IF p THEN seen \union {n} ELSE seen)
  PROVE  PlacedAt(n, pc'[n], res'[n], tree'[n], seen')
<1>1. CASE pc'[n] = "raise"
  BY <1>1 DEF PlacedAt
<1>2. CASE /\ pc'[n] = where /\ res'[n] = v /\ tree'[n] = c
           /\ tree[n].phase \in From(op) /\ (p => n \in seen')
  <2>1. PlacedAt(n, where, v, c, IF p THEN seen \union {n} ELSE seen) /\ seen \subseteq seen'
    BY <1>2 DEF Effect
  <2>2. (n \in IF p THEN seen \union {n} ELSE seen) => n \in seen'
    BY <1>2, <2>1
  <2> QED BY <1>2, <2>1, <2>2 DEF PlacedAt
<1> QED BY <1>1, <1>2 DEF Effect

\* Every frame is in its place after its step.
LEMMA StepPlaced ==
  ASSUME RInv, NEW n \in Node, StepOf(n) \/ Interrupt(n)
  PROVE  Placed'
<1>0. /\ TypeOK /\ Placed /\ tree[n] \in NodeRecord /\ IInv
      /\ SoundAt(n, tree) /\ FramedAt(n, pc[n], res[n])
      /\ PlacedAt(n, pc[n], res[n], tree[n], seen)
  BY DEF RInv, Walks, Placed, IInv, Kept, Sound, Framed, TypeOK
<1>a. Alone(n)
  BY <1>0, FrameIsAlone
<1> SUFFICES PlacedAt(n, pc'[n], res'[n], tree'[n], seen')
  <2>1. ASSUME NEW m \in Node, m # n
        PROVE  PlacedAt(m, pc'[m], res'[m], tree'[m], seen')
    <3>1. PlacedAt(m, pc[m], res[m], tree[m], seen)
      BY <1>0 DEF Placed
    <3>2. pc'[m] = pc[m] /\ res'[m] = res[m] /\ tree'[m] = tree[m] /\ seen \subseteq seen'
      BY <1>a, <2>1 DEF Alone
    <3> QED BY <3>1, <3>2 DEF PlacedAt
  <2> QED BY <2>1 DEF Placed
<1> DEFINE Goal == PlacedAt(n, pc'[n], res'[n], tree'[n], seen')
<1>m. ASSUME NEW where, NEW v, Goes(n, where, v), UNCHANGED tree,
             PlacedAt(n, where, v, tree[n], seen')
      PROVE  Goal
  BY <1>0, <1>m DEF Goes, TypeOK
<1>1. CASE Replay(n)
  <2>1. /\ Goes(n, IF Kind[n] # "call" /\ tree[n].kids # {} THEN "kids" ELSE "back", "completed")
        /\ UNCHANGED tree /\ n \in seen' /\ tree[n].phase = "done"
    BY <1>1 DEF Replay, Shows
  <2> QED BY <1>m, <2>1 DEF PlacedAt, Halting
<1>2. CASE ReplayAborted(n)
  BY <1>m, <1>2 DEF ReplayAborted, PlacedAt
<1>3. CASE Begin(n)
  <2>1. Begun(n) \in NodeRecord /\ (tree[n].phase # "done" => Begun(n).phase # "done")
    BY <1>0 DEF Begun, NodeRecord
  <2>2. PICK e : Transition(n, "begin", Begun(n), FALSE, "begun", "none", e)
    BY <1>3 DEF Begin
  <2>3. Effect(n, "begin", Begun(n), FALSE, "begun", "none", e)
    BY <1>0, <2>1, <2>2, TransitionEffect
  <2>4. tree[n].phase # "done"
    BY <1>3 DEF Begin
  <2>5. PlacedAt(n, "begun", "none", Begun(n), seen)
    BY <2>1, <2>4 DEF PlacedAt
  <2> QED BY <2>3, <2>5, EffectPlaced
<1>4. CASE Notify(n)
  <2>1. UNCHANGED <<tree, seen>> /\ (UNCHANGED <<pc, res>> \/ Goes(n, "raise", "raised"))
    BY <1>4 DEF Notify
  <2>2. PlacedAt(n, "raise", "raised", tree[n], seen)
    BY DEF PlacedAt
  <2> QED BY <1>0, <1>m, <2>1, <2>2
<1>5. CASE Execute(n)
  BY <1>0, <1>m, <1>5 DEF Execute, PlacedAt
<1>6. CASE Reenter(n)
  <2>1. Goes(n, "kids", "none") /\ UNCHANGED tree /\ n \in seen' /\ Kind[n] # "call"
        /\ pc[n] = "begun" /\ tree[n].phase \notin {"ready", "blocked"}
    BY <1>6 DEF Reenter, Shows
  <2>2. tree[n].phase = "children"
    BY <1>0, <2>1 DEF PlacedAt, SoundAt, CheckNode, NodeRecord
  <2> QED BY <1>m, <2>1, <2>2 DEF PlacedAt
<1>7. CASE Expand(n)
  <2>1. PICK ks \in Selections(n) :
          Transition(n, "expand",
            [tree[n] EXCEPT !.result = "completed", !.kids = ks, !.phase = "children"],
            TRUE, "begun", "none", "completed")
    BY <1>7 DEF Expand
  <2> DEFINE c == [tree[n] EXCEPT !.result = "completed", !.kids = ks, !.phase = "children"]
  <2>2. c \in NodeRecord /\ c.phase = "children"
    BY <1>0, SelectionsTyped DEF NodeRecord
  <2> HIDE DEF c
  <2>3. Effect(n, "expand", c, TRUE, "begun", "none", "completed")
    BY <1>0, <2>1, <2>2, TransitionEffect DEF c
  <2>4. PlacedAt(n, "begun", "none", c, seen \union {n})
    BY <2>2 DEF PlacedAt
  <2> QED BY <2>3, <2>4, EffectPlaced
<1>8. CASE Iterate(n)
  <2>1. PICK s \in Slots(n) :
          Transition(n, "iterate", [tree[n] EXCEPT !.kids = @ \union {s}],
            FALSE, "kids", "none", "none")
    BY <1>8 DEF Iterate
  <2> DEFINE c == [tree[n] EXCEPT !.kids = @ \union {s}]
  <2>2. c \in NodeRecord /\ c.phase = tree[n].phase
    BY <1>0, SlotsTyped DEF NodeRecord
  <2> HIDE DEF c
  <2>3. Effect(n, "iterate", c, FALSE, "kids", "none", "none")
    BY <1>0, <2>1, <2>2, TransitionEffect DEF c
  <2>4. Kind[n] = "loop" /\ pc[n] = "kids"
    BY <1>8 DEF Iterate
  <2>5. tree[n].phase \in From("iterate") => PlacedAt(n, "kids", "none", c, seen)
    BY <1>0, <2>2, <2>4 DEF PlacedAt, From
  <2> QED BY <2>3, <2>5, EffectPlaced
<1>9. CASE Bind(n)
  <2> DEFINE c == [tree[n] EXCEPT !.bound = TRUE, !.kids = {1}, !.phase = "children"]
  <2>1. c \in NodeRecord /\ c.bound /\ c.phase = "children"
    BY <1>0, <1>9, SlotsTyped, SlotAssumption DEF NodeRecord, Bind
  <2> HIDE DEF c
  <2>2. Effect(n, "bind", c, FALSE, "kids", "none", "none") /\ Kind[n] = "call"
    BY <1>0, <1>9, <2>1, TransitionEffect DEF Bind, c
  <2>3. PlacedAt(n, "kids", "none", c, seen)
    BY <2>1, <2>2 DEF PlacedAt
  <2> QED BY <2>2, <2>3, EffectPlaced
<1>10. CASE BindFails(n)
  BY <1>0, <1>m, <1>10 DEF BindFails, PlacedAt
<1>11. CASE Rebind(n)
  <2>1. /\ Effect(n, "rebind", tree[n], FALSE, "kids", "none", "none")
        /\ Kind[n] = "call" /\ pc[n] = "begun" /\ tree[n].bound
    BY <1>0, <1>11, TransitionEffect DEF Rebind
  <2>2. PlacedAt(n, "kids", "none", tree[n], seen)
    BY <1>0, <2>1 DEF PlacedAt
  <2> QED BY <2>1, <2>2, EffectPlaced
<1>12. CASE EnterBound(n)
  BY <1>0, <1>m, <1>12 DEF EnterBound, PlacedAt
<1>13. CASE Outputs(n)
  <2> DEFINE c == [tree[n] EXCEPT !.phase = "outputs"]
  <2>1. c \in NodeRecord /\ c.phase = "outputs" /\ c.bound = tree[n].bound
    BY <1>0 DEF NodeRecord
  <2> HIDE DEF c
  <2>2. /\ Effect(n, "outputs", c, FALSE, "outs", "none", "none")
        /\ Kind[n] = "call" /\ pc[n] = "kids"
    BY <1>0, <1>13, <2>1, TransitionEffect DEF Outputs, c
  <2>3. PlacedAt(n, "outs", "none", c, seen)
    BY <1>0, <2>1, <2>2 DEF PlacedAt
  <2> QED BY <2>2, <2>3, EffectPlaced
<1>14. CASE EvaluateOutputs(n)
  BY <1>0, <1>m, <1>14 DEF EvaluateOutputs, PlacedAt
<1>15. CASE Finish(n)
  <2> DEFINE c == Finished(n, res[n])
             o == OutcomeOf(n, res[n])
             p == res[n] # "missing"
  <2>1. res[n] \in {"completed", "failed", "paused", "aborted", "missing"}
    BY <1>15 DEF Finish, Halting
  <2>2. /\ c \in NodeRecord /\ c.outcome = o
        /\ c.phase = IF o = "completed" THEN "done" ELSE "blocked"
        /\ o = "completed" => p
    BY <1>0, <2>1 DEF Finished, OutcomeOf, NodeRecord, Halting
  <2>3. PICK e : Transition(n, "finish", c, p, "back", o, e)
    BY <1>15 DEF Finish
  <2>4. p \in BOOLEAN
    OBVIOUS
  <2> HIDE DEF c, o, p
  <2>5. Effect(n, "finish", c, p, "back", o, e)
    BY <1>0, <2>2, <2>3, <2>4, TransitionEffect
  <2>6. PlacedAt(n, "back", o, c, IF p THEN seen \union {n} ELSE seen)
    BY <2>2 DEF PlacedAt, Halting
  <2> QED BY <2>4, <2>5, <2>6, EffectPlaced
<1>16. CASE Settle(n)
  <2> DEFINE c == Settled(n, res[n])
             p == Kind[n] = "fanout"
  <2>1. res[n] \in {"completed", "failed", "paused", "aborted"} /\ pc[n] = "fold"
    BY <1>16 DEF Settle, Halting
  <2>2. /\ c \in NodeRecord /\ c.outcome = res[n]
        /\ c.phase = IF res[n] = "completed" THEN "done" ELSE "children"
    BY <1>0, <2>1 DEF Settled, NodeRecord, Halting
  <2>3. Transition(n, "settle", c, p, "back", res[n], "none")
    BY <1>16 DEF Settle
  <2>4. p \in BOOLEAN
    OBVIOUS
  <2> HIDE DEF c, p
  <2>5. Effect(n, "settle", c, p, "back", res[n], "none")
    BY <1>0, <2>2, <2>3, <2>4, TransitionEffect
  <2>6. n \in seen
    BY <1>0, <2>1 DEF PlacedAt
  <2>7. PlacedAt(n, "back", res[n], c, IF p THEN seen \union {n} ELSE seen)
    BY <2>2, <2>6 DEF PlacedAt, Halting
  <2> QED BY <2>4, <2>5, <2>7, EffectPlaced
<1>17. CASE ChildrenCompleted(n)
  <2>1. /\ Goes(n, IF tree[n].phase = "done" THEN "back" ELSE "fold", "completed")
        /\ UNCHANGED <<tree, seen>> /\ pc[n] = "kids" /\ Kind[n] # "call"
    BY <1>17 DEF ChildrenCompleted, InLine
  <2> QED BY <1>0, <1>m, <2>1 DEF PlacedAt, Halting
<1>18. CASE ChildrenStopped(n)
  <2>1. PICK s \in tree[n].kids, v \in Stops :
          /\ SlotStopped(n, s, v)
          /\ Goes(n, IF v \in Raising THEN "raise"
                     ELSE IF Kind[n] = "call" THEN "ran" ELSE "fold", v)
    BY <1>18 DEF ChildrenStopped
  <2>2. UNCHANGED <<tree, seen>> /\ pc[n] = "kids"
    BY <1>18 DEF ChildrenStopped, InLine
  <2>3. CASE v \in Raising
    BY <1>m, <2>1, <2>2, <2>3 DEF PlacedAt
  <2>4. CASE v \notin Raising /\ Kind[n] = "call"
    BY <1>0, <1>m, <2>1, <2>2, <2>4 DEF PlacedAt
  <2>5. CASE v \notin Raising /\ Kind[n] # "call"
    <3>1. PICK m \in Members(n, s) : Returned(m, v)
      BY <2>1 DEF SlotStopped
    <3>2. tree[m].phase # "done" /\ m \in ChildrenOf(n, tree[n])
      BY <1>0, <2>5, <3>1, StoppedNotDone DEF Stops, Members, ChildrenOf
    <3>3. tree[n].phase = "children"
      BY <1>0, <2>2, <2>5, <3>2 DEF PlacedAt, SoundAt, CheckNode, HandledChildFailure
    <3> QED BY <1>0, <1>m, <2>1, <2>2, <2>5, <3>3 DEF PlacedAt
  <2> QED BY <2>3, <2>4, <2>5
<1>19. CASE Leave(n)
  <2>1. pc[n] = "raise" /\ Goes(n, "back", res[n])
    BY <1>19 DEF Leave
  <2>2. pc'[n] = "back" /\ res'[n] = res[n] /\ res[n] \in Raising
    BY <1>0, <2>1 DEF Goes, TypeOK, FramedAt
  <2> QED BY <2>2 DEF PlacedAt, Raising, Halting
<1>20. CASE Collect(n)
  <2>1. /\ UNCHANGED <<tree, seen>> /\ pc[n] = "kids" /\ Concurrent(n)
        /\ UNCHANGED <<pc, res>> \/ \E v : Goes(n, "drain", v)
    BY <1>20 DEF Collect, PoolVars
  <2> QED BY <1>0, <1>m, <2>1 DEF PlacedAt, Concurrent
<1>21. CASE \E s \in Slots(n) : StartItem(n, s) \/ ReturnItem(n, s)
  BY <1>0, <1>21 DEF StartItem, ReturnItem, PoolVars
<1>22. CASE Drained(n)
  <2>1. /\ UNCHANGED <<tree, seen>> /\ pc[n] = "drain"
        /\ Goes(n, IF res[n] \in Raising THEN "raise" ELSE "fold", res[n])
    BY <1>22 DEF Drained, PoolVars
  <2> QED BY <1>0, <1>m, <2>1 DEF PlacedAt
<1>23. CASE Interrupt(n)
  <2>1. /\ UNCHANGED <<tree, seen>>
        /\ \/ Goes(n, "raise", "interrupt")
           \/ pc[n] \in {"kids", "drain"} /\ Concurrent(n) /\ Goes(n, "drain", "interrupt")
    BY <1>23 DEF Interrupt
  <2> QED BY <1>0, <1>m, <2>1 DEF PlacedAt, Concurrent
<1> QED BY <1>1, <1>2, <1>3, <1>4, <1>5, <1>6, <1>7, <1>8, <1>9, <1>10, <1>11, <1>12,
           <1>13, <1>14, <1>15, <1>16, <1>17, <1>18, <1>19, <1>20, <1>21, <1>22, <1>23
        DEF StepOf

-----------------------------------------------------------------------------
(* Owners and children *)

\* A frame that returned is not busy, and returned one value.
LEMMA ReturnedIsIdle ==
  ASSUME NEW m \in Node, NEW v, Returned(m, v)
  PROVE  ~Busy(m) /\ pc[m] # "idle" /\ \A u : Returned(m, u) => u = v
BY DEF Returned, Busy

\* Once a member of a sequence stopped, no member of it is busy.
LEMMA StoppedSlotIsQuiet ==
  ASSUME RInv, NEW p, NEW s, NEW v \in Stops, SlotStopped(p, s, v),
         NEW m \in Members(p, s)
  PROVE  ~Busy(m)
<1>0. /\ Ordered /\ m \in Node /\ Parent[m] = p /\ Slot[m] = s
      /\ note[m] # "none" => pc[m] # "idle"
  BY DEF RInv, Walks, IInv, Kept, Owing, Members
<1>1. PICK k \in Node : Parent[k] = p /\ Slot[k] = s /\ Returned(k, v)
  BY DEF SlotStopped, Members
<1>2. Pos[m] \in Nat /\ Pos[k] \in Nat
  BY <1>0, <1>1, TreeAssumption
<1>3. CASE Pos[m] < Pos[k]
  <2>1. m \in Earlier(k) /\ pc[k] # "idle"
    BY <1>0, <1>1, <1>3, ReturnedIsIdle DEF Earlier
  <2> QED BY <1>0, <1>1, <2>1, ReturnedIsIdle DEF Ordered
<1>4. CASE Pos[k] < Pos[m]
  <2>1. k \in Earlier(m) /\ ~Returned(k, "completed")
    BY <1>0, <1>1, <1>4, ReturnedIsIdle DEF Earlier, Stops, Halting, Raising
  <2>2. pc[m] = "idle"
    BY <1>0, <2>1 DEF Ordered
  <2> QED BY <1>0, <2>2 DEF Busy, Calm
<1>5. CASE Pos[k] = Pos[m]
  BY <1>0, <1>1, <1>5, SlotAssumption, ReturnedIsIdle
<1> QED BY <1>2, <1>3, <1>4, <1>5

\* No child of n is busy.
Childless(n) == \A m \in Node : Parent[m] = n => ~Busy(m)

\* The slot of a busy child is open.
LEMMA BusyChild ==
  ASSUME RInv, NEW n \in Node, NEW m \in Node, Parent[m] = n, Busy(m)
  PROVE  /\ AttendedAt(m, n) /\ SlotOpen(n, Slot[m]) /\ pc[n] \in {"kids", "drain"}
         /\ pc[m] # "idle"
<1>1. Attended /\ pc[m] # "idle" /\ n # Root
  BY TreeAssumption DEF RInv, Walks, IInv, Kept, Owing, Busy, Calm
<1>2. AttendedAt(m, n)
  BY <1>1 DEF Attended
<1> QED BY <1>1, <1>2 DEF AttendedAt, SlotOpen

\* An owner whose children completed, or one of whose children stopped while
\* they run in line, has no busy child.
LEMMA InLineChildless ==
  ASSUME RInv, NEW n \in Node, ~Concurrent(n),
         AllCompleted(n) \/ \E s \in tree[n].kids, v \in Stops : SlotStopped(n, s, v)
  PROVE  Childless(n)
<1> SUFFICES ASSUME NEW m \in Node, Parent[m] = n, Busy(m) PROVE FALSE
  BY DEF Childless
<1>1. /\ SlotOpen(n, Slot[m]) /\ AttendedAt(m, n) /\ m \in Members(n, Slot[m])
      /\ pc[m] # "idle"
  BY BusyChild DEF Members
<1>2. /\ Slot[m] \in tree[n].kids
      /\ \A t \in tree[n].kids : t < Slot[m] => SlotCompleted(n, t)
  BY <1>1 DEF SlotOpen
<1>3. CASE AllCompleted(n)
  BY <1>1, <1>2, <1>3, ReturnedIsIdle DEF AllCompleted, SlotCompleted, Members
<1>4. ASSUME NEW s \in tree[n].kids, NEW v \in Stops, SlotStopped(n, s, v)
      PROVE  FALSE
  <2>1. PICK k \in Members(n, s) : Returned(k, v)
    BY <1>4 DEF SlotStopped
  <2>2. /\ s \in Nat /\ Slot[m] \in Nat /\ k \in Node /\ Parent[k] = n /\ Slot[k] = s
        /\ v # "completed"
    BY <2>1, TreeAssumption DEF Members, Stops, Halting, Raising
  <2>3. CASE s = Slot[m]
    BY <1>1, <1>4, <2>3, StoppedSlotIsQuiet
  <2>4. CASE s < Slot[m]
    BY <1>2, <1>4, <2>1, <2>2, <2>4, ReturnedIsIdle DEF SlotCompleted
  <2>5. CASE Slot[m] < s
    <3>1. AttendedAt(k, n)
      <4>1. Attended /\ pc[k] # "idle" /\ n # Root
        BY <2>1, <2>2, ReturnedIsIdle, TreeAssumption DEF RInv, Walks
      <4> QED BY <2>2, <4>1 DEF Attended
    <3>2. SlotCompleted(n, Slot[m])
      BY <1>2, <2>2, <2>5, <3>1 DEF AttendedAt
    <3> QED BY <1>1, <3>2, ReturnedIsIdle DEF SlotCompleted, Members
  <2> QED BY <2>2, <2>3, <2>4, <2>5
<1> QED BY <1>3, <1>4

\* An owner stops waiting for its children only when none of them is busy.
LEMMA LeavesChildless ==
  ASSUME RInv, NEW n \in Node, StepOf(n) \/ Interrupt(n), 
         pc[n] \notin {"kids", "drain"} \/ pc'[n] \notin {"kids", "drain"}
  PROVE  Childless(n)
<1>0. TypeOK /\ Attended /\ Pooled /\ IInv
  BY DEF RInv, Walks, IInv
<1>1. CASE pc[n] \notin {"kids", "drain"}
  BY <1>1, BusyChild DEF Childless
<1>2. CASE pc[n] \in {"kids", "drain"} /\ pc'[n] \notin {"kids", "drain"}
  <2>1. \/ Outputs(n) \/ ChildrenCompleted(n) \/ ChildrenStopped(n) \/ Drained(n)
        \/ Iterate(n) \/ Interrupt(n)
    BY <1>0, <1>2
       DEF StepOf, Replay, ReplayAborted, Begin, Enters, Turn, Execute, Reenter, Expand, Bind,
           BindFails, Rebind, EnterBound, EvaluateOutputs, Finish, Settle, Leave, Collect,
           StartItem, ReturnItem, Notify, Goes, TypeOK, RInv, Walks, Noted, NotedAt
  <2>2. CASE Outputs(n) \/ Iterate(n)
    <3>1. AllCompleted(n) /\ Kind[n] # "fanout"
      BY <2>2 DEF Outputs, Iterate
    <3> QED BY <3>1, InLineChildless DEF Concurrent
  <2>3. CASE ChildrenCompleted(n) \/ ChildrenStopped(n)
    BY <2>3, InLineChildless DEF ChildrenCompleted, ChildrenStopped, InLine
  <2>4. CASE Drained(n)
    <3>1. Concurrent(n) /\ pool[n].started = pool[n].finished
      <4>1. Placed /\ pc[n] = "drain"
        BY <2>4 DEF RInv, Walks, Drained
      <4>2. Kind[n] = "fanout"
        BY <4>1 DEF Placed, PlacedAt
      <4> QED BY <1>0, <2>4, <4>1, <4>2 DEF Pooled, PoolAt, Drained
    <3>2. \A s : ~SlotOpen(n, s)
      BY <3>1 DEF SlotOpen
    <3> QED BY <3>2, BusyChild DEF Childless
  <2>5. CASE Interrupt(n)
    <3>1. Innermost(n) /\ ~Concurrent(n)
      BY <1>0, <1>2, <2>5 DEF Interrupt, Goes, TypeOK
    <3>2. ASSUME NEW m \in Node, Parent[m] = n, Busy(m) PROVE FALSE
      <4>1. AttendedAt(m, n) /\ SlotOpen(n, Slot[m])
        BY <3>2, BusyChild
      <4>2. main[m]
        BY <3>1, <4>1 DEF AttendedAt, SlotOpen, Innermost
      <4> QED BY <3>1, <3>2, <4>2 DEF Innermost
    <3> QED BY <3>2 DEF Childless
  <2> QED BY <2>1, <2>2, <2>3, <2>4, <2>5
<1> QED BY <1>1, <1>2

-----------------------------------------------------------------------------
(* Steps of a frame: order, owners and children *)

\* A step of a frame that stands idle is its entry.
LEMMA EntersFromIdle ==
  ASSUME RInv, NEW n \in Node, StepOf(n) \/ Interrupt(n), pc[n] = "idle"
  PROVE  Enters(n) /\ (Replay(n) \/ ReplayAborted(n) \/ Begin(n))
<1>1. note[n] = "none"
  BY DEF RInv, IInv, Kept, Owing
<1> QED BY <1>1
     DEF StepOf, Replay, ReplayAborted, Begin, Notify, Execute, Reenter, Expand, Iterate, Bind,
         BindFails, Rebind, EnterBound, Outputs, EvaluateOutputs, Finish, Settle,
         ChildrenCompleted, ChildrenStopped, InLine, Leave, Collect, Drained, StartItem,
         ReturnItem, Interrupt, Innermost, Busy, Calm

\* A frame that steps and was entered before is busy.
LEMMA StepsBusy ==
  ASSUME NEW n \in Node, Alone(n), pc[n] # "idle"
  PROVE  Busy(n)
BY DEF Alone, Returned, Busy

\* The frame of an owner that steps finds its children idle, or came to them.
LEMMA UnopenedChildren ==
  ASSUME RInv, NEW n \in Node, ~Opened(n)
  PROVE  \A m \in Node : Parent[m] = n => pc[m] = "idle"
BY TreeAssumption DEF RInv, Walks, Attended, AttendedAt

\* Nothing is entered out of order.
LEMMA StepOrdered ==
  ASSUME RInv, NEW n \in Node, StepOf(n) \/ Interrupt(n)
  PROVE  Ordered'
<1>0. Ordered /\ Alone(n)
  BY FrameIsAlone DEF RInv, Walks
<1>1. ASSUME NEW k \in Node, pc[k] # "idle" \/ k = n, NEW m \in Earlier(k)
      PROVE  Returned(m, "completed")
  <2>1. CASE pc[k] # "idle"
    BY <1>0, <1>1, <2>1 DEF Ordered
  <2>2. CASE k = n /\ pc[n] = "idle"
    BY <1>1, <2>2, EntersFromIdle DEF Enters, Turn
  <2> QED BY <1>1, <2>1, <2>2
<1>2. \A k \in Node : pc'[k] # "idle" => pc[k] # "idle" \/ k = n
  BY <1>0 DEF Alone
<1>3. \A m \in Node : Returned(m, "completed") => Returned(m, "completed")'
  BY <1>0, ReturnedStays
<1> QED BY <1>1, <1>2, <1>3 DEF Ordered, Earlier

\* What others own is not disturbed.
LEMMA OthersAttended ==
  ASSUME NEW n \in Node, Alone(n), NEW m \in Node, NEW p \in Node, p # n,
         Opened(p), Kind[p] = "loop" => Slot[m] \in tree[p].kids,
         ~Concurrent(p) => \A t \in tree[p].kids : t < Slot[m] => SlotCompleted(p, t),
         SlotOpen(p, Slot[m]) \/ ~Busy(m)',
         pc[p] = "kids" /\ ~Concurrent(p) /\ main[p] => main'[m]
  PROVE  AttendedAt(m, p)'
<1>1. pc'[p] = pc[p] /\ tree'[p] = tree[p] /\ pool'[p] = pool[p] /\ main'[p] = main[p]
  BY DEF Alone
<1>2. (Concurrent(p)' <=> Concurrent(p)) /\ (Opened(p)' <=> Opened(p))
  BY <1>1 DEF Concurrent, PoolSize, Opened
<1>3. \A t : SlotCompleted(p, t) => SlotCompleted(p, t)'
  BY ReturnedStays
<1>4. SlotOpen(p, Slot[m]) => SlotOpen(p, Slot[m])'
  BY <1>1, <1>2, <1>3 DEF SlotOpen
<1> QED BY <1>1, <1>2, <1>3, <1>4 DEF AttendedAt

\* A pool that is not one opens no slot but the next in line.
LEMMA EntersAttended ==
  ASSUME RInv, NEW n \in Node, StepOf(n) \/ Interrupt(n), Parent[n] # Root
  PROVE  AttendedAt(n, Parent[n])'
<1> DEFINE p == Parent[n]
<1>0. /\ Alone(n) /\ p \in Node /\ p # n /\ TypeOK
      /\ pc[n] # "idle" => AttendedAt(n, p)
  BY FrameIsAlone, TreeAssumption, SlotAssumption DEF RInv, Walks, Attended, IInv
<1> HIDE DEF p
<1>1. CASE pc[n] # "idle"
  <2>1. AttendedAt(n, p) /\ SlotOpen(p, Slot[n]) /\ main'[n] = main[n]
    BY <1>0, <1>1, StepsBusy DEF AttendedAt, Alone
  <2> QED BY <1>0, <2>1, OthersAttended DEF AttendedAt, p
<1>2. CASE pc[n] = "idle"
  <2>1. /\ SlotOpen(p, Slot[n])
        /\ main' = [main EXCEPT ![n] = p = Root \/ (main[p] /\ ~Concurrent(p))]
    BY <1>2, EntersFromIdle DEF Enters, Turn, p
  <2>2. main[p] /\ ~Concurrent(p) => main'[n]
    BY <1>0, <2>1 DEF TypeOK
  <2>3. Opened(p)
    BY <2>1 DEF SlotOpen, Opened
  <2>4. /\ Kind[p] = "loop" => Slot[n] \in tree[p].kids
        /\ ~Concurrent(p) => \A t \in tree[p].kids : t < Slot[n] => SlotCompleted(p, t)
    BY <2>1 DEF SlotOpen, Concurrent
  <2> QED BY <1>0, <2>1, <2>2, <2>3, <2>4, OthersAttended DEF p
<1> QED BY <1>1, <1>2

\* A step of an owner that leaves its selection and its pool as they are.
LEMMA OwnerAttends ==
  ASSUME NEW n \in Node, Alone(n), NEW m \in Node, m # n, AttendedAt(m, n),
         tree'[n].kids = tree[n].kids,
         Kind[n] = "fanout" =>
           (tree'[n].phase = "children" <=> tree[n].phase = "children"),
         Opened(n)', ~Busy(m) \/ SlotOpen(n, Slot[m])',
         pc'[n] = "kids" => pc[n] = "kids"
  PROVE  AttendedAt(m, n)'
<1>1. Concurrent(n)' <=> Concurrent(n)
  BY DEF Concurrent, PoolSize
<1>2. \A t : SlotCompleted(n, t) => SlotCompleted(n, t)'
  BY ReturnedStays
<1>3. Busy(m)' <=> Busy(m)
  BY ReturnedStays
<1>4. main'[m] = main[m] /\ (Opened(n) => main'[n] = main[n])
  BY DEF Alone, Opened
<1> QED BY <1>1, <1>2, <1>3, <1>4 DEF AttendedAt

\* The children of an owner that steps are attended as before.
LEMMA ChildrenAttended ==
  ASSUME RInv, NEW n \in Node, StepOf(n) \/ Interrupt(n),
         NEW m \in Node, Parent[m] = n, pc[m] # "idle"
  PROVE  AttendedAt(m, n)'
<1>0. /\ TypeOK /\ Alone(n) /\ m # n /\ AttendedAt(m, n) /\ tree[n] \in NodeRecord
      /\ PlacedAt(n, pc[n], res[n], tree[n], seen) /\ n # Root
  BY FrameIsAlone, TreeAssumption, SlotAssumption
     DEF RInv, Walks, Attended, IInv, TypeOK, Placed
<1>a. /\ Opened(n) /\ (note[n] # "none" => pc[n] \in {"begun", "back"})
      /\ pc[n] = "outs" => Kind[n] = "call"
  BY <1>0 DEF AttendedAt, RInv, Walks, Noted, NotedAt, IInv, Kept, Framed, FramedAt
<1>b. pc[n] \notin {"kids", "drain"} \/ pc'[n] \notin {"kids", "drain"} => ~Busy(m)
  BY LeavesChildless DEF Childless
<1>t. ASSUME NEW op, NEW c \in NodeRecord, NEW p \in BOOLEAN, NEW where, NEW v, NEW e,
             Transition(n, op, c, p, where, v, e)
      PROVE  tree'[n] \in {tree[n], c} /\ pc'[n] \in {"raise", where}
  <2>1. Effect(n, op, c, p, where, v, e)
    BY <1>0, <1>t, TransitionEffect
  <2> QED BY <2>1 DEF Effect
<1>1. CASE Iterate(n)
  <2>1. PICK s \in Slots(n) :
          /\ tree[n].kids = 1..(s - 1)
          /\ Transition(n, "iterate", [tree[n] EXCEPT !.kids = @ \union {s}],
               FALSE, "kids", "none", "none")
    BY <1>1 DEF Iterate
  <2>2. [tree[n] EXCEPT !.kids = @ \union {s}] \in NodeRecord /\ s \in Nat
    BY <1>0, SlotsTyped DEF NodeRecord
  <2>3. /\ tree'[n] \in {tree[n], [tree[n] EXCEPT !.kids = @ \union {s}]}
        /\ pc'[n] \in {"raise", "kids"}
    BY <1>t, <2>1, <2>2
  <2>4. tree[n].kids \subseteq tree'[n].kids /\ tree'[n].kids \subseteq tree[n].kids \union {s}
    BY <1>0, <2>3 DEF NodeRecord
  <2>5. Kind[n] = "loop" /\ pc[n] = "kids" /\ AllCompleted(n)
    BY <1>1 DEF Iterate
  <2>6. ~Concurrent(n) /\ ~Concurrent(n)'
    BY <2>5 DEF Concurrent
  <2>7. ~Busy(m)'
    BY <1>0, <2>5, <2>6, InLineChildless, ReturnedStays DEF Childless
  <2>8. \A t \in tree'[n].kids : t < Slot[m] => SlotCompleted(n, t)'
    <3>1. Slot[m] \in 1..(s - 1)
      BY <1>0, <2>1, <2>5 DEF AttendedAt
    <3>2. \A t \in tree'[n].kids : t < Slot[m] => t \in tree[n].kids
      BY <2>2, <2>4, <3>1
    <3>3. \A t \in tree'[n].kids : t < Slot[m] => SlotCompleted(n, t)
      BY <1>0, <2>6, <3>2 DEF AttendedAt
    <3> QED BY <1>0, <3>3, ReturnedStays
  <2>9. main'[n] = main[n] /\ main'[m] = main[m]
    BY <1>0, <2>5 DEF Alone
  <2> QED BY <1>0, <2>3, <2>4, <2>5, <2>6, <2>7, <2>8, <2>9 DEF AttendedAt, Opened
<1>2. CASE Outputs(n) \/ Finish(n)
  <2>1. Kind[n] = "call" /\ pc[n] \in {"kids", "ran"}
    BY <1>a, <1>2 DEF Outputs, Finish, Opened
  <2>2. tree'[n].kids = tree[n].kids /\ pc'[n] \in {"raise", "outs", "back"}
    <3>1. CASE Outputs(n)
      <4>1. [tree[n] EXCEPT !.phase = "outputs"] \in NodeRecord
        BY <1>0 DEF NodeRecord
      <4>2. /\ tree'[n] \in {tree[n], [tree[n] EXCEPT !.phase = "outputs"]}
            /\ pc'[n] \in {"raise", "outs"}
        BY <1>t, <3>1, <4>1 DEF Outputs
      <4> QED BY <1>0, <4>2 DEF NodeRecord
    <3>2. CASE Finish(n)
      <4>1. /\ Finished(n, res[n]) \in NodeRecord
            /\ Finished(n, res[n]).kids = tree[n].kids
        <5>1. res[n] \in {"completed", "failed", "paused", "aborted", "missing"}
          BY <3>2 DEF Finish, Halting
        <5> QED BY <1>0, <5>1, FinishedRecord
      <4>2. tree'[n] \in {tree[n], Finished(n, res[n])} /\ pc'[n] \in {"raise", "back"}
        BY <1>t, <3>2, <4>1 DEF Finish
      <4> QED BY <4>1, <4>2
    <3> QED BY <1>2, <3>1, <3>2
  <2> QED BY <1>0, <1>b, <2>1, <2>2, OwnerAttends DEF Opened
<1>3. CASE Settle(n)
  <2> DEFINE c == Settled(n, res[n])
  <2>1. /\ pc[n] = "fold" /\ res[n] \in {"completed", "failed", "paused", "aborted"}
        /\ tree[n].phase = "children"
    BY <1>0, <1>3 DEF Settle, Halting, PlacedAt
  <2>2. /\ c \in NodeRecord /\ c.kids = tree[n].kids
        /\ c.phase = IF res[n] = "completed" THEN "done" ELSE "children"
    BY <1>0, <2>1, SettledRecord
  <2>3. tree'[n] \in {tree[n], c} /\ pc'[n] \in {"raise", "back"}
    BY <1>t, <1>3, <2>2 DEF Settle
  <2> HIDE DEF c
  <2>4. CASE tree'[n].phase = "children"
    BY <1>0, <1>b, <2>1, <2>2, <2>3, <2>4, OwnerAttends DEF Opened
  <2>5. CASE tree'[n].phase # "children"
    <3>1. res[n] = "completed" /\ tree'[n].kids = tree[n].kids
      BY <2>1, <2>2, <2>3, <2>5
    <3>2. \A t \in tree[n].kids : SlotCompleted(n, t)
      <4>1. \A k \in ChildrenOf(n, tree[n]) : Returned(k, "completed")
        BY <2>1, <3>1 DEF RInv, Walks, Gathered, GatheredAt, Gathers
      <4> QED BY <4>1 DEF SlotCompleted, Members, ChildrenOf
    <3>3. \A t \in tree'[n].kids : SlotCompleted(n, t)'
      BY <1>0, <3>1, <3>2, ReturnedStays
    <3>4. ~Busy(m)'
      BY <1>0, <1>b, <2>1, ReturnedStays
    <3> QED BY <1>0, <2>3, <3>1, <3>3, <3>4 DEF AttendedAt, Opened
  <2> QED BY <2>4, <2>5
<1>4. CASE EvaluateOutputs(n) \/ ChildrenCompleted(n) \/ ChildrenStopped(n) \/ Drained(n)
            \/ (Notify(n) /\ pc[n] = "back")
  <2>1. tree' = tree /\ Opened(n)' /\ (pc'[n] = "kids" => pc[n] = "kids")
        /\ (pc[n] \notin {"kids", "drain"} \/ pc'[n] \notin {"kids", "drain"})
    BY <1>0, <1>a, <1>4
       DEF EvaluateOutputs, ChildrenCompleted, ChildrenStopped, InLine, Drained, PoolVars, Notify,
           Goes, Opened, TypeOK
  <2> QED BY <1>0, <1>b, <2>1, OwnerAttends
<1>5. CASE Leave(n)
  <2>1. tree'[n].kids = tree[n].kids /\ tree'[n].phase = tree[n].phase
    BY <1>0, <1>5 DEF Leave, TypeOK, NodeRecord
  <2>2. pc[n] = "raise" /\ pc'[n] = "back"
    BY <1>0, <1>5 DEF Leave, Goes, TypeOK
  <2> QED BY <1>0, <1>b, <2>1, <2>2, OwnerAttends DEF Opened
<1>6. CASE Collect(n) \/ Interrupt(n)
  <2>1. /\ tree' = tree /\ Opened(n)' /\ (pc'[n] = "kids" => pc[n] = "kids")
        /\ pc'[n] \in {"kids", "drain"} =>
             /\ Concurrent(n) /\ pc[n] \in {"kids", "drain"}
             /\ pool'[n].started = pool[n].started /\ pool'[n].finished = pool[n].finished
    BY <1>0, <1>6
       DEF Collect, PoolVars, Interrupt, Goes, Opened, TypeOK, PoolRecord
  <2>2. CASE pc'[n] \in {"kids", "drain"}
    <3>1. Concurrent(n)'
      BY <2>1, <2>2 DEF Concurrent, PoolSize
    <3>2. SlotOpen(n, Slot[m]) => SlotOpen(n, Slot[m])'
      BY <2>1, <2>2, <3>1 DEF SlotOpen
    <3>3. ~Busy(m) \/ SlotOpen(n, Slot[m])'
      BY <1>0, <3>2 DEF AttendedAt
    <3> QED BY <1>0, <2>1, <3>3, OwnerAttends
  <2>3. CASE pc'[n] \notin {"kids", "drain"}
    BY <1>0, <1>b, <2>1, <2>3, OwnerAttends
  <2> QED BY <2>2, <2>3
<1>7. ASSUME NEW s \in Slots(n), StartItem(n, s) \/ ReturnItem(n, s)
      PROVE  AttendedAt(m, n)'
  <2>1. /\ tree' = tree /\ pc' = pc /\ pc[n] \in {"kids", "drain"} /\ pool[n] \in PoolRecord
    BY <1>0, <1>7 DEF StartItem, ReturnItem, PoolVars, TypeOK
  <2>2. Concurrent(n)' <=> Concurrent(n)
    BY <2>1 DEF Concurrent, PoolSize
  <2>3. \A t : SlotCompleted(n, t) => SlotCompleted(n, t)'
    BY <1>0, ReturnedStays
  <2>4. ASSUME Busy(m), Concurrent(n)
        PROVE  Slot[m] \in pool'[n].started \ pool'[n].finished
    <3>1. Slot[m] \in pool[n].started \ pool[n].finished
      BY <1>0, <2>4 DEF AttendedAt, SlotOpen
    <3>2. CASE StartItem(n, s)
      BY <1>0, <2>1, <3>1, <3>2 DEF StartItem, TypeOK, PoolRecord
    <3>3. CASE ReturnItem(n, s)
      <4>1. /\ pool'[n].started = pool[n].started
            /\ pool'[n].finished = pool[n].finished \union {s}
        <5> DEFINE h == pool[n].halted \/ ItemStops(n, s)
        <5>1. pool' = [pool EXCEPT ![n].finished = @ \union {s}, ![n].halted = h]
          BY <3>3 DEF ReturnItem
        <5> HIDE DEF h
        <5> QED BY <1>0, <2>1, <5>1 DEF TypeOK, PoolRecord
      <4>2. Slot[m] # s
        <5>1. SlotCompleted(n, s) \/ \E v \in Stops : SlotStopped(n, s, v)
          BY <3>3 DEF ReturnItem, ItemStops
        <5>2. m \in Members(n, Slot[m])
          BY DEF Members
        <5> QED BY <2>4, <5>1, <5>2, StoppedSlotIsQuiet, ReturnedIsIdle DEF SlotCompleted
      <4> QED BY <3>1, <4>1, <4>2
    <3> QED BY <1>7, <3>2, <3>3
  <2>5. Busy(m) => SlotOpen(n, Slot[m])'
    BY <1>0, <2>1, <2>2, <2>3, <2>4 DEF AttendedAt, SlotOpen
  <2>6. Opened(n)'
    BY <2>1 DEF Opened
  <2> QED BY <1>0, <2>1, <2>5, <2>6, OwnerAttends
<1> QED BY <1>a, <1>1, <1>2, <1>3, <1>4, <1>5, <1>6, <1>7, <1>0
        DEF StepOf, Replay, ReplayAborted, Begin, Enters, Turn, Execute, Reenter, Expand, Bind,
            BindFails, Rebind, EnterBound, Opened, Notify, Selections

\* Every step of a frame keeps owners and children together.
LEMMA StepAttended ==
  ASSUME RInv, NEW n \in Node, StepOf(n) \/ Interrupt(n)
  PROVE  Attended'
<1>0. Alone(n) /\ Attended
  BY FrameIsAlone DEF RInv, Walks
<1> SUFFICES ASSUME NEW m \in Node, pc'[m] # "idle", Parent[m] # Root
             PROVE  AttendedAt(m, Parent[m])'
  BY DEF Attended
<1>1. CASE m = n
  BY <1>1, EntersAttended
<1>2. CASE m # n
  <2>1. /\ pc[m] # "idle" /\ main'[m] = main[m] /\ Parent[m] \in Node
        /\ AttendedAt(m, Parent[m]) /\ (Busy(m)' <=> Busy(m))
    BY <1>0, <1>2, ReturnedStays, TreeAssumption DEF Alone, Attended
  <2>2. CASE Parent[m] = n
    BY <2>1, <2>2, ChildrenAttended
  <2>3. CASE Parent[m] # n
    BY <1>0, <2>1, <2>3, OthersAttended DEF AttendedAt
  <2> QED BY <2>2, <2>3
<1> QED BY <1>1, <1>2

\* Every step of a frame keeps the events behind their checkpoints.
LEMMA StepNoted ==
  ASSUME RInv, NEW n \in Node, StepOf(n) \/ Interrupt(n)
  PROVE  Noted'
<1>0. /\ TypeOK /\ Noted /\ IInv /\ NotedAt(n) /\ tree[n] \in NodeRecord
      /\ disk \in CheckpointRecord
  BY DEF RInv, Walks, IInv, Noted, TypeOK
<1>a. Alone(n)
  BY FrameIsAlone DEF RInv
<1> SUFFICES NotedAt(n)'
  <2>1. ASSUME NEW m \in Node, m # n PROVE NotedAt(m)'
    <3>1. NotedAt(m) /\ pc'[m] = pc[m] /\ note'[m] = note[m] /\ tree'[m] = tree[m]
      BY <1>0, <1>a, <2>1 DEF Noted, Alone
    <3>2. disk'.tree[m] = disk.tree[m] \/ disk'.tree[m] = tree[m]
      BY <1>a, <3>1 DEF Alone, Writing, Checkpoint
    <3> QED BY <3>1, <3>2 DEF NotedAt
  <2> QED BY <2>1 DEF Noted
<1>n. note'[n] = "none" => NotedAt(n)'
  BY DEF NotedAt
<1>t. ASSUME NEW op, NEW c \in NodeRecord, NEW p \in BOOLEAN, NEW where, NEW v, NEW e,
             Transition(n, op, c, p, where, v, e), note[n] = "none",
             e # "none" => where \in {"begun", "back"},
             e = "started" => c.active, e = "completed" => c.result # "none"
      PROVE  NotedAt(n)'
  <2>1. Effect(n, op, c, p, where, v, e)
    BY <1>0, <1>t, TransitionEffect
  <2>2. CASE note'[n] = note[n]
    BY <1>n, <1>t, <2>2
  <2>3. CASE /\ pc'[n] = where /\ note'[n] = e /\ tree'[n] = c
             /\ disk' = Checkpoint(tree', status', index')
    <3>1. disk'.tree[n] = c
      BY <2>3 DEF Checkpoint
    <3> QED BY <1>t, <2>3, <3>1 DEF NotedAt
  <2> QED BY <2>1, <2>2, <2>3 DEF Effect
<1>1. CASE Begin(n)
  <2>1. Begun(n) \in NodeRecord /\ Begun(n).active = TRUE
    BY <1>0 DEF Begun, NodeRecord
  <2>2. PICK e \in {"started", "none"} :
          Transition(n, "begin", Begun(n), FALSE, "begun", "none", e)
    BY <1>1 DEF Begin
  <2>3. note[n] = "none"
    BY <1>0, <1>1 DEF Begin, Enters, Turn, NotedAt
  <2> QED BY <1>t, <2>1, <2>2, <2>3
<1>2. CASE Expand(n)
  <2>1. PICK ks \in Selections(n) :
          Transition(n, "expand",
            [tree[n] EXCEPT !.result = "completed", !.kids = ks, !.phase = "children"],
            TRUE, "begun", "none", "completed")
    BY <1>2 DEF Expand
  <2> DEFINE c == [tree[n] EXCEPT !.result = "completed", !.kids = ks, !.phase = "children"]
  <2>2. c \in NodeRecord /\ c.result = "completed"
    BY <1>0, SelectionsTyped DEF NodeRecord
  <2>3. note[n] = "none"
    BY <1>0, <1>2 DEF Expand, NotedAt
  <2> HIDE DEF c
  <2> QED BY <1>t, <2>1, <2>2, <2>3 DEF c
<1>3. CASE Finish(n)
  <2> DEFINE p == res[n] # "missing"
  <2>1. /\ res[n] \in {"completed", "failed", "paused", "aborted", "missing"}
        /\ note[n] = "none" /\ p \in BOOLEAN
    BY <1>0, <1>3 DEF Finish, Halting, NotedAt
  <2>2. PICK e : /\ Transition(n, "finish", Finished(n, res[n]), p, "back",
                     OutcomeOf(n, res[n]), e)
                 /\ e \in {"failed", "completed"}
    BY <1>3 DEF Finish
  <2>3. Finished(n, res[n]) \in NodeRecord /\ Finished(n, res[n]).result # "none"
    BY <1>0, <2>1, FinishedRecord
  <2> HIDE DEF p
  <2> QED BY <1>t, <2>1, <2>2, <2>3
<1>4. CASE Iterate(n) \/ Bind(n) \/ Rebind(n) \/ Outputs(n) \/ Settle(n)
  <2>1. note[n] = "none"
    BY <1>0, <1>4 DEF Iterate, Bind, Rebind, Outputs, Settle, Calm, NotedAt
  <2>2. note' \in {note, [note EXCEPT ![n] = "none"]}
    BY <1>4 DEF Iterate, Bind, Rebind, Outputs, Settle, Transition, Owes
  <2> QED BY <1>0, <1>n, <2>1, <2>2 DEF TypeOK
<1>5. CASE Notify(n) \/ Interrupt(n)
  BY <1>0, <1>n, <1>5 DEF Notify, Interrupt, Owes, TypeOK
<1>6. CASE \/ Replay(n) \/ ReplayAborted(n) \/ Execute(n) \/ Reenter(n) \/ BindFails(n)
           \/ EnterBound(n) \/ EvaluateOutputs(n) \/ ChildrenCompleted(n)
           \/ ChildrenStopped(n) \/ Leave(n) \/ Collect(n) \/ Drained(n)
           \/ \E s \in Slots(n) : StartItem(n, s) \/ ReturnItem(n, s)
  <2>1. UNCHANGED note /\ (pc[n] \notin {"begun", "back"} \/ Calm(n))
    BY <1>6 DEF Replay, ReplayAborted, Enters, Turn, Execute, Reenter, BindFails, EnterBound,
                EvaluateOutputs, ChildrenCompleted, ChildrenStopped, InLine, Leave, Collect,
                Drained, StartItem, ReturnItem, PoolVars
  <2> QED BY <1>0, <1>n, <2>1 DEF NotedAt, Calm
<1> QED BY <1>1, <1>2, <1>3, <1>4, <1>5, <1>6 DEF StepOf

\* Every step of a frame that reports its children has all of them back.
LEMMA StepGathered ==
  ASSUME RInv, NEW n \in Node, StepOf(n) \/ Interrupt(n)
  PROVE  Gathered'
<1>0. /\ TypeOK /\ Gathered /\ IInv /\ GatheredAt(n) /\ tree[n] \in NodeRecord
      /\ SoundAt(n, tree) /\ FramedAt(n, pc[n], res[n])
      /\ PlacedAt(n, pc[n], res[n], tree[n], seen)
      /\ Kind[n] = "fanout" => PoolAt(n) /\ \E k \in Nat : tree[n].kids = 1..k
  BY DEF RInv, Walks, IInv, Kept, Sound, Framed, Gathered, TypeOK, Placed, Pooled, Laid
<1>a. Alone(n)
  BY FrameIsAlone DEF RInv
<1>b. \A m \in Node : \A v : Returned(m, v) => Returned(m, v)'
  BY <1>a, ReturnedStays
<1> SUFFICES GatheredAt(n)'
  <2>1. ASSUME NEW k \in Node, k # n PROVE GatheredAt(k)'
    <3>1. GatheredAt(k) /\ pc'[k] = pc[k] /\ res'[k] = res[k] /\ tree'[k] = tree[k]
      BY <1>0, <1>a, <2>1 DEF Gathered, Alone
    <3> QED BY <1>b, <3>1 DEF GatheredAt, Gathers, ChildrenOf
  <2> QED BY <2>1 DEF Gathered
<1>c. ASSUME tree'[n].kids = tree[n].kids,
             \A s \in tree[n].kids : SlotCompleted(n, s)
      PROVE  GatheredAt(n)'
  BY <1>b, <1>c DEF GatheredAt, ChildrenOf, SlotCompleted, Members
<1>d. ASSUME tree'[n].kids = tree[n].kids,
             \A m \in ChildrenOf(n, tree[n]) : Returned(m, "completed")
      PROVE  GatheredAt(n)'
  BY <1>b, <1>d DEF GatheredAt, ChildrenOf
<1>e. ~Gathers(n)' => GatheredAt(n)'
  BY DEF GatheredAt
<1>t. ASSUME NEW op, NEW c \in NodeRecord, NEW p \in BOOLEAN, NEW where, NEW v, NEW e,
             Transition(n, op, c, p, where, v, e)
      PROVE  pc'[n] = "raise" \/ (tree'[n] = c /\ pc'[n] = where /\ res'[n] = v)
  <2>1. Effect(n, op, c, p, where, v, e)
    BY <1>0, <1>t, TransitionEffect
  <2> QED BY <2>1 DEF Effect
<1>r. pc'[n] = "raise" => GatheredAt(n)'
  BY <1>e DEF Gathers
<1>1. CASE Replay(n)
  <2>1. /\ tree' = tree /\ res'[n] = "completed"
        /\ pc'[n] = IF Kind[n] # "call" /\ tree[n].kids # {} THEN "kids" ELSE "back"
    BY <1>0, <1>1 DEF Replay, Goes, TypeOK
  <2>2. Gathers(n)' => tree[n].kids = {}
    BY <2>1 DEF Gathers
  <2> QED BY <1>c, <1>e, <2>1, <2>2
<1>2. CASE Begin(n) \/ Expand(n) \/ Iterate(n) \/ Bind(n) \/ Rebind(n)
  <2>1. pc'[n] \in {"raise", "begun", "kids"}
    BY <1>0, <1>2 DEF Begin, Expand, Iterate, Bind, Rebind, Transition, Goes, TypeOK
  <2> QED BY <1>e, <2>1 DEF Gathers
<1>3. CASE Notify(n)
  <2>1. tree' = tree /\ (UNCHANGED <<pc, res>> \/ pc'[n] = "raise")
    BY <1>0, <1>3 DEF Notify, Goes, TypeOK
  <2>2. CASE UNCHANGED <<pc, res>>
    BY <1>0, <1>d, <1>e, <2>1, <2>2 DEF GatheredAt, Gathers
  <2> QED BY <1>r, <2>1, <2>2
<1>4. CASE Execute(n)
  <2>1. tree' = tree /\ Kind[n] # "call" /\ tree[n].phase \in {"ready", "blocked"}
    BY <1>4 DEF Execute
  <2>2. tree[n].kids = {}
    BY <1>0, <2>1 DEF SoundAt
  <2> QED BY <1>c, <2>1, <2>2
<1>5. CASE ReplayAborted(n) \/ Reenter(n) \/ BindFails(n) \/ EnterBound(n)
  <2>1. pc'[n] = "kids" \/ pc'[n] = "raise" \/ (res'[n] # "completed" /\ pc'[n] # "outs")
    BY <1>0, <1>5 DEF ReplayAborted, Reenter, BindFails, EnterBound, Goes, TypeOK
  <2> QED BY <1>e, <2>1 DEF Gathers
<1>6. CASE Outputs(n)
  <2>1. [tree[n] EXCEPT !.phase = "outputs"] \in NodeRecord
    BY <1>0 DEF NodeRecord
  <2>2. pc'[n] = "raise" \/ tree'[n] = [tree[n] EXCEPT !.phase = "outputs"]
    BY <1>t, <1>6, <2>1 DEF Outputs
  <2>3. \A s \in tree[n].kids : SlotCompleted(n, s)
    BY <1>6 DEF Outputs, AllCompleted
  <2> QED BY <1>0, <1>c, <1>r, <2>2, <2>3 DEF NodeRecord
<1>7. CASE EvaluateOutputs(n)
  <2>1. tree' = tree /\ pc[n] = "outs"
    BY <1>7 DEF EvaluateOutputs
  <2> QED BY <1>0, <1>d, <2>1 DEF GatheredAt, Gathers
<1>8. CASE Finish(n)
  <2> DEFINE p == res[n] # "missing"
  <2>1. /\ res[n] \in {"completed", "failed", "paused", "aborted", "missing"}
        /\ pc[n] = "ran" /\ p \in BOOLEAN
    BY <1>8 DEF Finish, Halting
  <2>2. PICK e : Transition(n, "finish", Finished(n, res[n]), p, "back",
                   OutcomeOf(n, res[n]), e)
    BY <1>8 DEF Finish
  <2>3. Finished(n, res[n]) \in NodeRecord /\ Finished(n, res[n]).kids = tree[n].kids
    BY <1>0, <2>1, FinishedRecord
  <2> HIDE DEF p
  <2>4. pc'[n] = "raise" \/ (pc'[n] = "back" /\ tree'[n].kids = tree[n].kids)
    BY <1>t, <2>1, <2>2, <2>3
  <2>5. Kind[n] # "call" => tree[n].kids = {}
    BY <1>0, <2>1 DEF FramedAt, SoundAt
  <2>6. CASE pc'[n] = "back" /\ tree'[n].kids = tree[n].kids
    BY <1>c, <1>e, <2>5, <2>6 DEF Gathers
  <2> QED BY <1>r, <2>4, <2>6
<1>9. CASE Settle(n)
  <2> DEFINE p == Kind[n] = "fanout"
  <2>1. /\ res[n] \in {"completed", "failed", "paused", "aborted"}
        /\ pc[n] = "fold" /\ p \in BOOLEAN
    BY <1>9 DEF Settle, Halting
  <2>2. Transition(n, "settle", Settled(n, res[n]), p, "back", res[n], "none")
    BY <1>9 DEF Settle
  <2>3. Settled(n, res[n]) \in NodeRecord /\ Settled(n, res[n]).kids = tree[n].kids
    BY <1>0, <2>1, SettledRecord
  <2> HIDE DEF p
  <2>4. \/ pc'[n] = "raise"
        \/ pc'[n] = "back" /\ res'[n] = res[n] /\ tree'[n].kids = tree[n].kids
    BY <1>t, <2>1, <2>2, <2>3
  <2>5. Gathers(n)' /\ pc'[n] = "back" /\ res'[n] = res[n] => Gathers(n)
    BY <2>1 DEF Gathers
  <2> QED BY <1>0, <1>d, <1>e, <1>r, <2>4, <2>5 DEF GatheredAt
<1>10. CASE ChildrenCompleted(n)
  BY <1>c, <1>10 DEF ChildrenCompleted, AllCompleted
<1>11. CASE ChildrenStopped(n)
  <2>1. \E v \in Stops : res'[n] = v /\ pc'[n] \in {"raise", "ran", "fold"}
    BY <1>0, <1>11 DEF ChildrenStopped, Goes, TypeOK
  <2> QED BY <1>e, <2>1 DEF Gathers, Stops, Halting, Raising
<1>12. CASE Leave(n)
  <2>1. pc'[n] = "back" /\ res'[n] \in Raising
    BY <1>0, <1>12 DEF Leave, Goes, TypeOK, FramedAt
  <2> QED BY <1>e, <2>1 DEF Gathers, Raising
<1>13. CASE Collect(n) \/ (\E s \in Slots(n) : StartItem(n, s) \/ ReturnItem(n, s)) \/ Interrupt(n)
  <2>1. pc'[n] \in {"kids", "drain", "raise"}
    BY <1>0, <1>13 DEF Collect, StartItem, ReturnItem, PoolVars, Interrupt, Goes, TypeOK
  <2> QED BY <1>e, <2>1 DEF Gathers
<1>14. CASE Drained(n)
  <2>1. /\ tree' = tree /\ pc[n] = "drain" /\ res'[n] = res[n]
        /\ pc'[n] = IF res[n] \in Raising THEN "raise" ELSE "fold"
    BY <1>0, <1>14 DEF Drained, PoolVars, Goes, TypeOK
  <2>2. CASE res[n] = "completed"
    <3>1. PICK k \in Nat : tree[n].kids = 1..k
      BY <1>0, <2>1 DEF PlacedAt
    <3>2. Cardinality(tree[n].kids) = k
      BY <3>1, FS_Interval
    <3>3. pool[n].next = k + 1
      BY <1>0, <2>1, <2>2, <3>2 DEF PlacedAt, PoolAt
    <3>4. \A s \in 1..k : SlotCompleted(n, s)
      BY <1>0, <2>1, <3>3 DEF PlacedAt, PoolAt
    <3> QED BY <1>c, <2>1, <3>1, <3>4
  <2>3. CASE res[n] # "completed"
    BY <1>e, <2>1, <2>3 DEF Gathers
  <2> QED BY <2>2, <2>3
<1> QED BY <1>1, <1>2, <1>3, <1>4, <1>5, <1>6, <1>7, <1>8, <1>9, <1>10, <1>11, <1>12,
           <1>13, <1>14 DEF StepOf

-----------------------------------------------------------------------------
(* Steps of a frame: the pools                                               *)

\* A pool that holds nothing has collected nothing.
LEMMA EmptyPool ==
  ASSUME NEW n \in Node, pool'[n] = NoPool, pc'[n] # "drain"
  PROVE  PoolAt(n)'
BY DEF PoolAt, NoPool

\* A pool stands as long as the selection of its fan-out does.
LEMMA PoolStands ==
  ASSUME NEW n \in Node, Alone(n), PoolAt(n), pool'[n] = pool[n],
         tree'[n].kids = tree[n].kids, pc'[n] \notin {"idle", "begun", "ran"},
         pc'[n] = "drain" =>
           /\ Concurrent(n)'
           /\ res'[n] = "completed" => pool[n].next = Cardinality(tree[n].kids) + 1
  PROVE  PoolAt(n)'
<1>1. PoolSize(n)' = PoolSize(n)
  BY DEF PoolSize
<1>2. \A s : SlotCompleted(n, s) => SlotCompleted(n, s)'
  BY ReturnedStays
<1> QED BY <1>1, <1>2 DEF PoolAt

\* Every step of a frame keeps the windows of the fan-outs.
LEMMA StepPooled ==
  ASSUME RInv, NEW n \in Node, StepOf(n) \/ Interrupt(n)
  PROVE  Pooled'
<1>0. /\ TypeOK /\ Pooled /\ IInv /\ tree[n] \in NodeRecord /\ pool[n] \in PoolRecord
      /\ FramedAt(n, pc[n], res[n]) /\ PlacedAt(n, pc[n], res[n], tree[n], seen) /\ NotedAt(n)
      /\ PoolSize(n) \in Nat /\ Cardinality(tree[n].kids) \in Nat
  <2>1. /\ TypeOK /\ Pooled /\ IInv /\ Placed /\ Noted /\ Framed
    BY DEF RInv, Walks, IInv, Kept
  <2>2. tree \in [Node -> NodeRecord] /\ pool \in [Node -> PoolRecord]
    BY <2>1 DEF TypeOK
  <2> QED BY <2>1, <2>2, PoolSizeNat DEF Framed, Placed, Noted
<1>a. Alone(n)
  BY <1>0, FrameIsAlone
<1>b. \A s : SlotCompleted(n, s) => SlotCompleted(n, s)'
  BY <1>a, ReturnedStays
<1> SUFFICES ASSUME Kind[n] = "fanout" PROVE PoolAt(n)'
  <2>1. ASSUME NEW f \in Node, Kind[f] = "fanout", f # n PROVE PoolAt(f)'
    <3>1. PoolAt(f) /\ pc'[f] = pc[f] /\ res'[f] = res[f] /\ tree'[f] = tree[f]
          /\ pool'[f] = pool[f]
      BY <1>0, <1>a, <2>1 DEF Pooled, Alone
    <3>2. /\ PoolSize(f)' = PoolSize(f) /\ (Concurrent(f)' <=> Concurrent(f))
          /\ \A s : SlotCompleted(f, s) => SlotCompleted(f, s)'
      BY <1>a, <3>1, ReturnedStays DEF PoolSize, Concurrent
    <3> QED BY <3>1, <3>2 DEF PoolAt
  <2> QED BY <2>1 DEF Pooled
<1>p. PoolAt(n)
  BY <1>0 DEF Pooled
<1>t. ASSUME NEW op, NEW c \in NodeRecord, NEW p \in BOOLEAN, NEW where, NEW v, NEW e,
             Transition(n, op, c, p, where, v, e)
      PROVE  tree'[n] \in {tree[n], c} /\ pc'[n] \in {"raise", where}
  <2>1. Effect(n, op, c, p, where, v, e)
    BY <1>0, <1>t, TransitionEffect
  <2> QED BY <2>1 DEF Effect
<1>1. CASE Replay(n) \/ ReplayAborted(n) \/ Begin(n)
  <2>1. pc[n] = "idle" /\ pool' = pool
    BY <1>1 DEF Replay, ReplayAborted, Begin, Enters, Turn
  <2>2. pc'[n] # "drain"
    BY <1>0, <1>1 DEF Replay, ReplayAborted, Begin, Transition, Goes, TypeOK
  <2> QED BY <1>p, <2>1, <2>2, EmptyPool DEF PoolAt
<1>2. CASE Notify(n)
  <2>1. /\ tree' = tree /\ pool' = pool /\ pc[n] \in {"begun", "back"}
        /\ pc'[n] \in {pc[n], "raise"}
    BY <1>0, <1>2 DEF Notify, Goes, TypeOK, NotedAt
  <2>2. CASE pc[n] = "begun"
    BY <1>p, <2>1, <2>2, EmptyPool DEF PoolAt
  <2>3. CASE pc[n] = "back"
    BY <1>a, <1>p, <2>1, <2>3, PoolStands
  <2> QED BY <2>1, <2>2, <2>3
<1>3. CASE Execute(n) \/ Expand(n) \/ Finish(n)
  <2>1. pc[n] \in {"begun", "ran"} /\ pool' = pool
    BY <1>3 DEF Execute, Expand, Finish
  <2>2. pc'[n] # "drain"
    BY <1>0, <1>3 DEF Execute, Expand, Finish, Transition, Goes, TypeOK
  <2> QED BY <1>p, <2>1, <2>2, EmptyPool DEF PoolAt
<1>4. CASE Reenter(n)
  <2>1. /\ tree' = tree /\ pc'[n] = "kids"
        /\ pool'[n] \in {NoPool, [NoPool EXCEPT !.queued = 1..PoolSize(n)]}
    BY <1>0, <1>4 DEF Reenter, Goes, TypeOK
  <2>2. PoolSize(n)' = PoolSize(n)
    BY <2>1 DEF PoolSize
  <2>3. CASE pool'[n] = NoPool
    BY <2>1, <2>3, EmptyPool
  <2>4. CASE pool'[n] = [NoPool EXCEPT !.queued = 1..PoolSize(n)]
    <3>1. /\ pool'[n].queued = 1..PoolSize(n) /\ pool'[n].started = {}
          /\ pool'[n].finished = {} /\ pool'[n].next = 1
      BY <2>4 DEF NoPool
    <3> QED BY <1>0, <2>1, <2>2, <3>1 DEF PoolAt
  <2> QED BY <2>1, <2>3, <2>4
<1>5. CASE Settle(n)
  <2> DEFINE p == Kind[n] = "fanout"
  <2>1. /\ res[n] \in {"completed", "failed", "paused", "aborted"} /\ p \in BOOLEAN
        /\ pool' = pool
    BY <1>5 DEF Settle, Halting
  <2>2. Transition(n, "settle", Settled(n, res[n]), p, "back", res[n], "none")
    BY <1>5 DEF Settle
  <2>3. Settled(n, res[n]) \in NodeRecord /\ Settled(n, res[n]).kids = tree[n].kids
    BY <1>0, <2>1, SettledRecord
  <2> HIDE DEF p
  <2>4. tree'[n].kids = tree[n].kids /\ pc'[n] \in {"raise", "back"}
    BY <1>t, <2>1, <2>2, <2>3
  <2> QED BY <1>a, <1>p, <2>1, <2>4, PoolStands
<1>6. CASE ChildrenCompleted(n) \/ ChildrenStopped(n)
  <2>1. tree' = tree /\ pool' = pool /\ pc'[n] \in {"raise", "fold", "back"}
    BY <1>0, <1>6 DEF ChildrenCompleted, ChildrenStopped, Goes, TypeOK
  <2> QED BY <1>a, <1>p, <2>1, PoolStands
<1>7. CASE Leave(n)
  <2>1. tree'[n].kids = tree[n].kids /\ pool' = pool /\ pc'[n] = "back"
    BY <1>0, <1>7 DEF Leave, Goes, TypeOK, NodeRecord
  <2> QED BY <1>a, <1>p, <2>1, PoolStands
<1>8. CASE Drained(n)
  <2>1. tree' = tree /\ pool' = pool /\ pc'[n] \in {"raise", "fold"}
    BY <1>0, <1>8 DEF Drained, PoolVars, Goes, TypeOK
  <2> QED BY <1>a, <1>p, <2>1, PoolStands
<1>9. CASE Interrupt(n)
  <2>1. /\ tree' = tree /\ pool' = pool /\ res'[n] = "interrupt"
        /\ pc'[n] = "raise" \/ (pc'[n] = "drain" /\ Concurrent(n))
    BY <1>0, <1>9 DEF Interrupt, Goes, TypeOK
  <2>2. Concurrent(n)' <=> Concurrent(n)
    BY <2>1 DEF Concurrent, PoolSize
  <2> QED BY <1>a, <1>p, <2>1, <2>2, PoolStands
<1>10. CASE Collect(n)
  <2> DEFINE s == pool[n].next
  <2>1. /\ tree' = tree /\ pc[n] = "kids" /\ Concurrent(n) /\ s \in pool[n].finished
        /\ s \in Nat
    BY <1>0, <1>10 DEF Collect, PoolVars, PoolRecord
  <2>2. (Concurrent(n)' <=> Concurrent(n)) /\ PoolSize(n)' = PoolSize(n)
    BY <2>1 DEF Concurrent, PoolSize
  <2>3. ASSUME SlotCompleted(n, s),
               pool' = [pool EXCEPT ![n].next = s + 1,
                 ![n].queued = IF s + PoolSize(n) <= Cardinality(tree[n].kids) /\ ~pool[n].halted
                               THEN @ \union {s + PoolSize(n)} ELSE @],
               IF s = Cardinality(tree[n].kids) THEN Goes(n, "drain", "completed")
                                                ELSE UNCHANGED <<pc, res>>
        PROVE  PoolAt(n)'
    <3>1. /\ pool'[n].next = s + 1 /\ pool'[n].started = pool[n].started
          /\ pool'[n].finished = pool[n].finished
          /\ pool'[n].queued \subseteq pool[n].queued \union {s + PoolSize(n)}
      BY <1>0, <2>3 DEF TypeOK, PoolRecord
    <3>2. /\ pc'[n] \in {"kids", "drain"}
          /\ pc'[n] = "drain" => s = Cardinality(tree[n].kids)
      BY <1>0, <2>1, <2>3 DEF Goes, TypeOK
    <3>3. \A t \in pool'[n].queued \union pool'[n].started :
            t >= 1 /\ t < pool'[n].next + PoolSize(n)'
      <4>1. \A t \in pool[n].queued \union pool[n].started :
              t \in Nat /\ t >= 1 /\ t < s + PoolSize(n)
        BY <1>0, <1>p DEF PoolAt, PoolRecord
      <4> HIDE DEF s
      <4>2. s + PoolSize(n) >= 1 /\ s + PoolSize(n) < (s + 1) + PoolSize(n)
        BY <1>0, <1>p, <2>1 DEF PoolAt, s
      <4>3. \A t \in pool[n].queued \union pool[n].started :
              t >= 1 /\ t < (s + 1) + PoolSize(n)
        BY <1>0, <2>1, <4>1
      <4> QED BY <2>2, <3>1, <4>2, <4>3
    <3>4. \A t \in 1..(s + 1 - 1) : t \in pool[n].finished /\ SlotCompleted(n, t)
      <4>1. \A t \in 1..(s - 1) : t \in pool[n].finished /\ SlotCompleted(n, t)
        BY <1>p DEF PoolAt
      <4>2. \A t \in 1..(s + 1 - 1) : t = s \/ t \in 1..(s - 1)
        BY <2>1
      <4> QED BY <2>1, <2>3, <4>1, <4>2
    <3>5. pool'[n].next >= 1 /\ pool'[n].finished \subseteq pool'[n].started
      BY <1>p, <2>1, <3>1 DEF PoolAt
    <3> QED BY <1>0, <1>b, <2>1, <2>2, <3>1, <3>2, <3>3, <3>4, <3>5 DEF PoolAt
  <2>4. ASSUME NEW v \in Stops, Goes(n, "drain", v), UNCHANGED pool
        PROVE  PoolAt(n)'
    <3>1. pc'[n] = "drain" /\ res'[n] # "completed"
      BY <1>0, <2>4 DEF Goes, TypeOK, Stops, Halting, Raising
    <3> QED BY <1>a, <1>p, <2>1, <2>2, <2>4, <3>1, PoolStands
  <2> QED BY <1>10, <2>3, <2>4 DEF Collect
<1>11. ASSUME NEW s \in Slots(n), StartItem(n, s) PROVE PoolAt(n)'
  <2>1. /\ tree' = tree /\ UNCHANGED <<pc, res>> /\ pc[n] = "kids" /\ s \in pool[n].queued
        /\ pool'[n].queued = pool[n].queued \ {s}
        /\ pool'[n].started = pool[n].started \union {s}
        /\ pool'[n].finished = pool[n].finished /\ pool'[n].next = pool[n].next
    BY <1>0, <1>11 DEF StartItem, PoolVars, TypeOK, PoolRecord
  <2>2. PoolSize(n)' = PoolSize(n)
    BY <2>1 DEF PoolSize
  <2> QED BY <1>b, <1>p, <2>1, <2>2 DEF PoolAt
<1>12. ASSUME NEW s \in Slots(n), ReturnItem(n, s) PROVE PoolAt(n)'
  <2> DEFINE h == pool[n].halted \/ ItemStops(n, s)
  <2>1. /\ tree' = tree /\ UNCHANGED <<pc, res>> /\ s \in pool[n].started
        /\ pool' = [pool EXCEPT ![n].finished = @ \union {s}, ![n].halted = h]
    BY <1>12 DEF ReturnItem, PoolVars
  <2> HIDE DEF h
  <2>2. /\ pool'[n].queued = pool[n].queued /\ pool'[n].started = pool[n].started
        /\ pool'[n].finished = pool[n].finished \union {s} /\ pool'[n].next = pool[n].next
    BY <1>0, <2>1 DEF TypeOK, PoolRecord
  <2>3. (Concurrent(n)' <=> Concurrent(n)) /\ PoolSize(n)' = PoolSize(n)
    BY <2>1 DEF Concurrent, PoolSize
  <2>4. pc[n] \in {"kids", "drain"}
    BY <1>12 DEF ReturnItem
  <2> QED BY <1>b, <1>p, <2>1, <2>2, <2>3, <2>4 DEF PoolAt
<1> QED BY <1>0, <1>1, <1>2, <1>3, <1>4, <1>5, <1>6, <1>7, <1>8, <1>9, <1>10, <1>11, <1>12
        DEF StepOf, Iterate, Bind, BindFails, Rebind, EnterBound, Outputs, EvaluateOutputs,
            FramedAt

-----------------------------------------------------------------------------
(* Steps of a frame: the trees and the root index                            *)

\* A frame moves only while the process visits the tree.
LEMMA StepsRunning ==
  ASSUME RInv, NEW n \in Node, StepOf(n) \/ Interrupt(n)
  PROVE  proc = "run" /\ status = "running" /\ disk.status = "running"
<1>0. Staged /\ proc \in {"none", "run", "final", "saving"} /\ Alone(n)
  BY FrameIsAlone DEF RInv, Walks, IInv, TypeOK
<1>1. CASE pc[n] = "idle"
  BY <1>0, <1>1, EntersFromIdle DEF Enters, Turn, Staged
<1>2. CASE pc[n] # "idle"
  <2>1. Busy(n) /\ proc # "none"
    BY <1>0, <1>2, StepsBusy DEF RInv, IInv, Kept, Quiet
  <2> QED BY <1>0, <2>1 DEF Staged
<1> QED BY <1>1, <1>2

\* What is done is left alone, and the items of a fan-out are numbered.
LEMMA RecordMoves ==
  ASSUME RInv, NEW n \in Node, StepOf(n) \/ Interrupt(n)
  PROVE  /\ tree[n].phase = "done" => tree'[n].phase = "done"
         /\ Kind[n] = "fanout" =>
              \/ tree'[n].kids = tree[n].kids
              \/ \E k \in Nat : tree'[n].kids = 1..k
<1>0. /\ tree \in [Node -> NodeRecord] /\ tree[n] \in NodeRecord /\ FramedAt(n, pc[n], res[n])
  BY DEF RInv, IInv, Kept, Framed, TypeOK
<1>t. ASSUME NEW op, NEW c, NEW p, NEW where, NEW v, NEW e,
             Transition(n, op, c, p, where, v, e),
             op \in {"begin", "expand", "bind", "rebind", "iterate", "outputs", "finish",
                     "settle"}
      PROVE  tree'[n] = tree[n] \/ (tree'[n] = c /\ tree[n].phase # "done")
  BY <1>0, <1>t DEF Transition, From
<1> DEFINE Goal == /\ tree[n].phase = "done" => tree'[n].phase = "done"
                   /\ Kind[n] = "fanout" => \/ tree'[n].kids = tree[n].kids
                                            \/ \E k \in Nat : tree'[n].kids = 1..k
<1>1. CASE Begin(n)
  <2>1. PICK e : Transition(n, "begin", Begun(n), FALSE, "begun", "none", e)
    BY <1>1 DEF Begin
  <2>2. tree'[n] = tree[n] \/ (tree'[n] = Begun(n) /\ tree[n].phase # "done")
    BY <1>t, <2>1
  <2>3. Begun(n).kids = tree[n].kids
    BY <1>0 DEF Begun, NodeRecord
  <2> QED BY <2>2, <2>3
<1>2. CASE Expand(n)
  <2>1. PICK ks \in Selections(n) :
          Transition(n, "expand",
            [tree[n] EXCEPT !.result = "completed", !.kids = ks, !.phase = "children"],
            TRUE, "begun", "none", "completed")
    BY <1>2 DEF Expand
  <2> DEFINE c == [tree[n] EXCEPT !.result = "completed", !.kids = ks, !.phase = "children"]
  <2>2. c.kids = ks
    BY <1>0 DEF NodeRecord
  <2> HIDE DEF c
  <2>3. tree'[n] = tree[n] \/ (tree'[n] = c /\ tree[n].phase # "done")
    BY <1>t, <2>1 DEF c
  <2>4. Kind[n] = "fanout" => \E k \in Nat : ks = 1..k
    BY SlotsTyped DEF Selections
  <2> QED BY <2>2, <2>3, <2>4
<1>3. CASE Finish(n)
  <2>1. res[n] \in {"completed", "failed", "paused", "aborted", "missing"}
    BY <1>3 DEF Finish, Halting
  <2>2. PICK p, e : Transition(n, "finish", Finished(n, res[n]), p, "back",
                      OutcomeOf(n, res[n]), e)
    BY <1>3 DEF Finish
  <2>3. tree'[n] = tree[n] \/ (tree'[n] = Finished(n, res[n]) /\ tree[n].phase # "done")
    BY <1>t, <2>2
  <2>4. Finished(n, res[n]).kids = tree[n].kids
    BY <1>0, <2>1, FinishedRecord
  <2> QED BY <2>3, <2>4
<1>4. CASE Settle(n)
  <2>1. res[n] \in {"completed", "failed", "paused", "aborted"}
    BY <1>4 DEF Settle, Halting
  <2>2. PICK p : Transition(n, "settle", Settled(n, res[n]), p, "back", res[n], "none")
    BY <1>4 DEF Settle
  <2>3. tree'[n] = tree[n] \/ (tree'[n] = Settled(n, res[n]) /\ tree[n].phase # "done")
    BY <1>t, <2>2
  <2>4. Settled(n, res[n]).kids = tree[n].kids
    BY <1>0, <2>1, SettledRecord
  <2> QED BY <2>3, <2>4
<1>5. CASE Iterate(n) \/ Bind(n) \/ Rebind(n) \/ Outputs(n)
  <2>1. Kind[n] # "fanout"
    BY <1>5 DEF Iterate, Bind, Rebind, Outputs
  <2>2. tree'[n] = tree[n] \/ tree[n].phase # "done"
    <3>1. CASE Iterate(n)
      BY <1>t, <3>1 DEF Iterate
    <3>2. CASE Bind(n)
      BY <1>t, <3>2 DEF Bind
    <3>3. CASE Rebind(n)
      BY <1>t, <3>3 DEF Rebind
    <3>4. CASE Outputs(n)
      BY <1>t, <3>4 DEF Outputs
    <3> QED BY <1>5, <3>1, <3>2, <3>3, <3>4
  <2> QED BY <2>1, <2>2
<1>6. CASE Leave(n)
  BY <1>0, <1>6 DEF Leave, NodeRecord
<1>7. CASE \/ Replay(n) \/ ReplayAborted(n) \/ Notify(n) \/ Execute(n) \/ Reenter(n)
           \/ BindFails(n) \/ EnterBound(n) \/ EvaluateOutputs(n) \/ ChildrenCompleted(n)
           \/ ChildrenStopped(n) \/ Collect(n) \/ Drained(n) \/ Interrupt(n)
           \/ \E s \in Slots(n) : StartItem(n, s) \/ ReturnItem(n, s)
  <2>1. tree' = tree
    BY <1>7 DEF Replay, ReplayAborted, Notify, Execute, Reenter, BindFails, EnterBound,
                EvaluateOutputs, ChildrenCompleted, ChildrenStopped, Collect, Drained, PoolVars,
                Interrupt, StartItem, ReturnItem
  <2> QED BY <2>1
<1> QED BY <1>1, <1>2, <1>3, <1>4, <1>5, <1>6, <1>7 DEF StepOf

\* The root sequence has one slot.
LEMMA RootOrder ==
  ASSUME NEW m \in RootNodes, NEW n \in RootNodes
  PROVE  /\ m \in Node /\ n \in Node /\ Pos[m] \in Nat \ {0} /\ Pos[n] \in Nat \ {0}
         /\ Pos[m] < Pos[n] => m \in Earlier(n)
         /\ Pos[m] = Pos[n] => m = n
BY TreeAssumption, SlotAssumption DEF RootNodes, Earlier

\* Every step of a frame keeps the tree laid out under the index, in memory and
\* on disk.
LEMMA StepLaid ==
  ASSUME RInv, NEW n \in Node, StepOf(n) \/ Interrupt(n)
  PROVE  Laid(tree', index') /\ Laid(disk'.tree, disk'.index)
<1>0. /\ IInv /\ Alone(n) /\ Laid(tree, index) /\ Laid(disk.tree, disk.index) /\ Reached
      /\ index \in Nat
  BY FrameIsAlone DEF RInv, Walks, IInv, TypeOK
<1>1. \A m \in Node : tree[m].phase = "done" => tree'[m].phase = "done"
  BY <1>0, RecordMoves DEF Alone
<1>2. \A m \in Node \ {n} : tree'[m] = tree[m]
  BY <1>0 DEF Alone
<1>3. \A m \in Node : Behind(m, tree) => Behind(m, tree')
  BY <1>1 DEF Behind, Earlier
<1>4. Behind(n, tree)
  <2>1. CASE pc[n] = "idle"
    BY <1>0, <2>1, EntersFromIdle, EntersBehind
  <2>2. CASE pc[n] # "idle"
    BY <1>0, <2>2 DEF IInv, Kept, Framed, FramedAt
  <2> QED BY <2>1, <2>2
<1>5. \A m \in Node : Kind[m] = "fanout" => \E k \in Nat : tree'[m].kids = 1..k
  BY <1>0, <1>2, RecordMoves DEF Laid
<1>6. \A m \in Node : tree'[m] # Fresh => Behind(m, tree')
  BY <1>0, <1>2, <1>3, <1>4 DEF Laid
<1>7. ASSUME NEW m \in RootNodes
      PROVE  /\ Pos[m] < index' => tree'[m].phase = "done"
             /\ Pos[m] > index' => tree'[m] = Fresh
  <2>0. m \in Node /\ Pos[m] \in Nat
    BY <1>7, RootOrder
  <2>1. CASE index' = index /\ (m = n => Pos[n] <= index \/ tree' = tree)
    <3>1. /\ Pos[m] < index => tree[m].phase = "done"
          /\ Pos[m] > index => tree[m] = Fresh
      BY <1>0, <1>7 DEF Laid
    <3>2. CASE m = n /\ Pos[n] <= index
      BY <1>0, <1>1, <2>0, <2>1, <3>1, <3>2
    <3> QED BY <1>1, <1>2, <2>0, <2>1, <3>1, <3>2
  <2>2. CASE pc[n] # "idle"
    BY <1>0, <1>7, <2>1, <2>2 DEF Alone, Reached
  <2>3. CASE pc[n] = "idle" /\ n \in RootNodes /\ tree[n].phase # "done"
    <3>1. index' = Pos[n]
      BY <2>3, EntersFromIdle DEF Enters, RootNodes
    <3>2. CASE Pos[m] < Pos[n]
      BY <1>1, <1>4, <1>7, <2>0, <2>3, <3>1, <3>2, RootOrder DEF Behind
    <3>3. CASE Pos[m] > Pos[n]
      <4>1. n \in Earlier(m) /\ m # n
        BY <1>7, <2>0, <2>3, <3>3, RootOrder
      <4>2. tree[m] = Fresh
        BY <1>0, <2>0, <2>3, <4>1 DEF Laid, Behind
      <4> QED BY <1>2, <2>0, <2>3, <3>1, <3>3, <4>1, <4>2, RootOrder, <1>7
    <3> QED BY <1>7, <2>0, <2>3, <3>1, <3>2, <3>3, RootOrder
  <2>4. CASE pc[n] = "idle" /\ (n \notin RootNodes \/ tree[n].phase = "done")
    <3>1. Enters(n) /\ (Replay(n) \/ ReplayAborted(n) \/ Begin(n))
      BY <2>4, EntersFromIdle
    <3>2. index' = index
      BY <2>4, <3>1 DEF Enters, RootNodes
    <3>3. tree[n].phase = "done" => tree' = tree
      BY <3>1 DEF Replay, ReplayAborted, Begin
    <3> QED BY <1>7, <2>1, <2>4, <3>2, <3>3
  <2> QED BY <2>2, <2>3, <2>4
<1>8. Laid(tree', index')
  BY <1>5, <1>6, <1>7 DEF Laid
<1>9. disk' = disk \/ (disk'.tree = tree' /\ disk'.index = index')
  BY <1>0 DEF Alone, Writing, Checkpoint
<1> QED BY <1>0, <1>8, <1>9

\* Every step of a frame keeps the index at or behind what was entered.
LEMMA StepReached ==
  ASSUME RInv, NEW n \in Node, StepOf(n) \/ Interrupt(n)
  PROVE  Reached'
<1>0. Alone(n) /\ Laid(tree, index) /\ Reached /\ Ordered /\ index \in Nat
  BY FrameIsAlone DEF RInv, Walks, IInv, TypeOK
<1> SUFFICES ASSUME NEW m \in RootNodes, pc'[m] # "idle" PROVE Pos[m] <= index'
  BY DEF Reached, RootNodes
<1>1. m \in Node /\ Pos[m] \in Nat
  BY RootOrder
<1>2. m # n => Pos[m] <= index
  BY <1>0, <1>1 DEF Alone, Reached
<1>3. CASE pc[n] # "idle"
  BY <1>0, <1>2, <1>3 DEF Alone, Reached
<1>4. CASE pc[n] = "idle"
  <2>1. index' = IF Parent[n] = Root /\ tree[n].phase # "done" THEN Pos[n] ELSE index
    BY <1>4, EntersFromIdle DEF Enters
  <2>2. CASE Parent[n] = Root /\ tree[n].phase # "done"
    <3>1. n \in RootNodes /\ Pos[n] \in Nat
      BY <2>2, TreeAssumption DEF RootNodes
    <3>2. ~(Pos[n] < Pos[m])
      <4>1. SUFFICES ASSUME Pos[n] < Pos[m] PROVE FALSE
        OBVIOUS
      <4>2. n \in Earlier(m) /\ m # n
        BY <1>1, <3>1, <4>1, RootOrder
      <4>3. pc[m] # "idle"
        BY <1>0, <1>1, <4>2 DEF Alone
      <4> QED BY <1>0, <1>1, <1>4, <4>2, <4>3, ReturnedIsIdle DEF Ordered
    <3> QED BY <1>1, <2>1, <2>2, <3>1, <3>2
  <2>3. CASE ~(Parent[n] = Root /\ tree[n].phase # "done")
    <3>1. m = n => Pos[m] <= index
      <4>1. SUFFICES ASSUME m = n, Pos[m] > index PROVE FALSE
        BY <1>0, <1>1
      <4>2. tree[n] = Fresh /\ tree[n].phase = "done"
        BY <1>0, <2>3, <4>1 DEF Laid, RootNodes
      <4> QED BY <4>2 DEF Fresh
    <3> QED BY <1>2, <2>1, <2>3, <3>1
  <2> QED BY <2>2, <2>3
<1> QED BY <1>3, <1>4

\* Every step of a frame leaves the run running.
LEMMA StepStaged ==
  ASSUME RInv, NEW n \in Node, StepOf(n) \/ Interrupt(n)
  PROVE  Staged' /\ StatusMatchesTree'
<1>1. Alone(n) /\ proc = "run" /\ status = "running" /\ disk.status = "running"
  BY FrameIsAlone, StepsRunning DEF RInv
<1>2. /\ status' = status /\ proc' = proc /\ attempt' = attempt
      /\ disk'.status = "running" /\ attempt # 0
  BY <1>1 DEF Alone, Writing, Checkpoint, RInv, IInv, Kept, Quiet
<1> QED BY <1>1, <1>2 DEF Staged, StatusMatchesTree

\* Every step of a frame keeps the frames together.
LEMMA StepGrounded ==
  ASSUME RInv, NEW n \in Node, StepOf(n) \/ Interrupt(n)
  PROVE  Grounded'
<1>0. Alone(n) /\ Grounded
  BY FrameIsAlone DEF RInv, Walks
<1> SUFFICES ASSUME NEW S \in SUBSET Node,
                    \A m \in S : pc'[m] # "idle" /\ Parent[m] \in S
             PROVE  S = {}
  BY DEF Grounded
<1>1. \A m \in S : m # n => pc[m] # "idle"
  BY <1>0 DEF Alone
<1>2. CASE n \notin S \/ pc[n] # "idle"
  BY <1>0, <1>1, <1>2 DEF Grounded
<1>3. CASE n \in S /\ pc[n] = "idle"
  <2>1. \A m \in Node : Parent[m] = n => pc[m] = "idle"
    BY <1>3, UnopenedChildren DEF Opened
  <2>2. Parent[n] \in S /\ Parent[n] # n
    BY <1>3, SlotAssumption
  <2>3. \A m \in S \ {n} : pc[m] # "idle" /\ Parent[m] \in S \ {n}
    BY <1>1, <2>1
  <2>4. S \ {n} = {}
    BY <1>0, <2>3 DEF Grounded
  <2> QED BY <2>2, <2>4
<1> QED BY <1>2, <1>3

-----------------------------------------------------------------------------
(* Steps of a frame: no transition is refused                                *)

\* A transition that may start where the record stands and whose candidate
\* passes its check is not refused.
LEMMA AllowedStays ==
  ASSUME NeverRefused, NEW n \in Node, NEW op, NEW c, NEW p, NEW where, NEW v, NEW e,
         Transition(n, op, c, p, where, v, e), tree[n].phase \in From(op),
         CheckNode(n, c, tree)
  PROVE  NeverRefused'
BY DEF Transition, NeverRefused

\* What a frame reports completed has only completed children.
LEMMA GatheredDone ==
  ASSUME RInv, NEW n \in Node, Gathers(n)
  PROVE  \A m \in ChildrenOf(n, tree[n]) : tree[m].phase = "done"
BY DEF RInv, IInv, Kept, Framed, FramedAt, Walks, Gathered, GatheredAt, Returned, ChildrenOf

\* The candidate of an own result, or of an outcome of call, passes its check.
LEMMA FinishedChecks ==
  ASSUME RInv, NEW n \in Node, Finish(n)
  PROVE  tree[n].phase # "done" /\ CheckNode(n, Finished(n, res[n]), tree)
<1> DEFINE c == Finished(n, res[n])
<1>0. /\ tree[n] \in NodeRecord /\ SoundAt(n, tree) /\ FramedAt(n, pc[n], res[n])
      /\ PlacedAt(n, pc[n], res[n], tree[n], seen) /\ pc[n] = "ran"
      /\ res[n] \in {"completed", "failed", "paused", "aborted", "missing"}
  BY DEF RInv, IInv, Kept, Sound, Framed, Walks, Placed, TypeOK, Finish, Halting
<1>1. /\ c.kids = tree[n].kids /\ c.bound = tree[n].bound
      /\ c.outcome = OutcomeOf(n, res[n]) /\ c.active = FALSE
      /\ c.result = IF res[n] \in {"missing", "aborted"} THEN "failed" ELSE res[n]
      /\ c.phase = IF OutcomeOf(n, res[n]) = "completed" THEN "done" ELSE "blocked"
  BY <1>0, FinishedRecord
<1> HIDE DEF c
<1>2. CASE OutcomeOf(n, res[n]) = "completed"
  <2>1. res[n] = "completed" \/ (res[n] = "failed" /\ n \in Tolerant)
    BY <1>0, <1>2 DEF OutcomeOf
  <2>2. HandledChildFailure(n, c) \/ \A m \in ChildrenOf(n, c) : tree[m].phase = "done"
    <3>1. CASE Kind[n] # "call"
      BY <1>0, <1>1, <3>1 DEF FramedAt, SoundAt, ChildrenOf
    <3>2. CASE Kind[n] = "call" /\ res[n] = "completed"
      BY <1>0, <1>1, <3>2, GatheredDone DEF Gathers, ChildrenOf
    <3>3. CASE Kind[n] = "call" /\ res[n] = "failed" /\ n \in Tolerant
      BY <1>1, <1>2, <3>3 DEF HandledChildFailure
    <3> QED BY <2>1, <3>1, <3>2, <3>3
  <2>3. /\ c.phase = "done" /\ c.result # "none" /\ ~c.active /\ c.outcome = "completed"
    BY <1>1, <1>2, <2>1
  <2>4. CheckNode(n, c, tree)
    BY <1>0, <1>1, <2>2, <2>3 DEF CheckNode, SoundAt
  <2> QED BY <1>0, <2>4 DEF c, PlacedAt
<1>3. CASE OutcomeOf(n, res[n]) # "completed"
  <2>1. /\ c.phase = "blocked" /\ c.result \in {"failed", "paused"} /\ c.outcome \in Halting
    BY <1>0, <1>1, <1>3 DEF OutcomeOf, Halting
  <2>2. CheckNode(n, c, tree)
    BY <1>0, <1>1, <2>1 DEF CheckNode, SoundAt
  <2> QED BY <1>0, <2>2 DEF c, PlacedAt
<1> QED BY <1>2, <1>3

\* So does the candidate of the outcome of a subtree.
LEMMA SettledChecks ==
  ASSUME RInv, NEW n \in Node, Settle(n)
  PROVE  tree[n].phase = "children" /\ CheckNode(n, Settled(n, res[n]), tree)
<1> DEFINE c == Settled(n, res[n])
<1>0. /\ tree[n] \in NodeRecord /\ SoundAt(n, tree)
      /\ PlacedAt(n, pc[n], res[n], tree[n], seen) /\ pc[n] = "fold"
      /\ res[n] \in {"completed", "failed", "paused", "aborted"}
  BY DEF RInv, IInv, Kept, Sound, Walks, Placed, TypeOK, Settle, Halting
<1>1. /\ c.kids = tree[n].kids /\ c.bound = tree[n].bound /\ c.result = tree[n].result
      /\ c.outcome = res[n] /\ c.active = FALSE
      /\ c.phase = IF res[n] = "completed" THEN "done" ELSE "children"
  BY <1>0, SettledRecord
<1> HIDE DEF c
<1>2. tree[n].phase = "children" /\ Kind[n] # "call"
  BY <1>0 DEF PlacedAt
<1>3. tree[n].result # "none" /\ tree[n].kids # {} /\ ~tree[n].bound
  BY <1>0, <1>2 DEF SoundAt, CheckNode
<1>4. c.phase = "done" => \A m \in ChildrenOf(n, c) : tree[m].phase = "done"
  BY <1>0, <1>1, GatheredDone DEF Gathers, ChildrenOf
<1>5. CheckNode(n, c, tree)
  BY <1>0, <1>1, <1>2, <1>3, <1>4 DEF CheckNode
<1> QED BY <1>2, <1>5 DEF c

\* No transition a frame asks for is refused.
LEMMA StepAllowed ==
  ASSUME RInv, NEW n \in Node, StepOf(n) \/ Interrupt(n)
  PROVE  NeverRefused'
<1>0. /\ NeverRefused /\ tree[n] \in NodeRecord /\ SoundAt(n, tree)
      /\ FramedAt(n, pc[n], res[n]) /\ PlacedAt(n, pc[n], res[n], tree[n], seen)
  BY DEF RInv, IInv, Kept, Sound, Framed, Walks, Placed, TypeOK
<1>1. CASE Begin(n)
  <2>1. PICK e : Transition(n, "begin", Begun(n), FALSE, "begun", "none", e)
    BY <1>1 DEF Begin
  <2>2. tree[n].phase \in From("begin")
    BY <1>0, <1>1 DEF Begin, From, NodeRecord
  <2>3. CheckNode(n, Begun(n), tree)
    <3>1. CASE Kind[n] = "call" /\ tree[n].phase = "blocked"
      <4>1. /\ Begun(n).result = "none" /\ Begun(n).outcome = "none"
            /\ Begun(n).kids = tree[n].kids /\ Begun(n).bound = tree[n].bound
            /\ Begun(n).phase = IF tree[n].bound THEN "children" ELSE "ready"
        BY <1>0, <3>1 DEF Begun, NodeRecord
      <4> QED BY <1>0, <3>1, <4>1 DEF SoundAt, CheckNode
    <3>2. CASE ~(Kind[n] = "call" /\ tree[n].phase = "blocked")
      <4>1. /\ Begun(n).result = tree[n].result /\ Begun(n).outcome = tree[n].outcome
            /\ Begun(n).kids = tree[n].kids /\ Begun(n).bound = tree[n].bound
            /\ Begun(n).phase = tree[n].phase
        BY <1>0, <3>2 DEF Begun, NodeRecord
      <4>2. tree[n].phase # "done"
        BY <1>1 DEF Begin
      <4> QED BY <1>0, <4>1, <4>2 DEF SoundAt, CheckNode
    <3> QED BY <3>1, <3>2
  <2> QED BY <1>0, <2>1, <2>2, <2>3, AllowedStays
<1>2. CASE Expand(n)
  <2>1. PICK ks \in Selections(n) :
          Transition(n, "expand",
            [tree[n] EXCEPT !.result = "completed", !.kids = ks, !.phase = "children"],
            TRUE, "begun", "none", "completed")
    BY <1>2 DEF Expand
  <2> DEFINE c == [tree[n] EXCEPT !.result = "completed", !.kids = ks, !.phase = "children"]
  <2>2. /\ c.phase = "children" /\ c.result = "completed" /\ c.kids = ks
        /\ c.bound = tree[n].bound
    BY <1>0 DEF NodeRecord
  <2>3. Transition(n, "expand", c, TRUE, "begun", "none", "completed")
    BY <2>1
  <2> HIDE DEF c
  <2>4. Kind[n] # "call" /\ ks # {}
    <3>1. \A k \in Slots(n) : 1 \in 1..k
      BY SlotsTyped
    <3> QED BY <3>1 DEF Selections
  <2>5. tree[n].phase \in From("expand")
    BY <1>0, <1>2, <2>4 DEF FramedAt, Expand, From
  <2>6. CheckNode(n, c, tree)
    BY <1>0, <2>2, <2>4 DEF SoundAt, CheckNode
  <2> QED BY <1>0, <2>3, <2>5, <2>6, AllowedStays
<1>3. CASE Iterate(n)
  <2>1. PICK s \in Slots(n) :
          Transition(n, "iterate", [tree[n] EXCEPT !.kids = @ \union {s}],
            FALSE, "kids", "none", "none")
    BY <1>3 DEF Iterate
  <2> DEFINE c == [tree[n] EXCEPT !.kids = @ \union {s}]
  <2>2. /\ c.phase = tree[n].phase /\ c.result = tree[n].result
        /\ c.kids = tree[n].kids \union {s} /\ c.bound = tree[n].bound
    BY <1>0 DEF NodeRecord
  <2>3. Transition(n, "iterate", c, FALSE, "kids", "none", "none")
    BY <2>1
  <2> HIDE DEF c
  <2>4. tree[n].phase = "children" /\ Kind[n] # "call"
    BY <1>0, <1>3 DEF Iterate, PlacedAt
  <2>5. CheckNode(n, c, tree)
    BY <1>0, <2>2, <2>4 DEF SoundAt, CheckNode
  <2> QED BY <1>0, <2>3, <2>4, <2>5, AllowedStays DEF From
<1>4. CASE Bind(n)
  <2> DEFINE c == [tree[n] EXCEPT !.bound = TRUE, !.kids = {1}, !.phase = "children"]
  <2>1. c.phase = "children" /\ c.bound /\ c.kids = {1}
    BY <1>0 DEF NodeRecord
  <2>2. Transition(n, "bind", c, FALSE, "kids", "none", "none")
    BY <1>4 DEF Bind
  <2> HIDE DEF c
  <2>3. Kind[n] = "call" /\ tree[n].phase \in From("bind")
    BY <1>0, <1>4 DEF Bind, PlacedAt, SoundAt, CheckNode, From, NodeRecord
  <2>4. CheckNode(n, c, tree)
    BY <2>1, <2>3 DEF CheckNode
  <2> QED BY <1>0, <2>2, <2>3, <2>4, AllowedStays
<1>5. CASE Rebind(n)
  <2>1. Transition(n, "rebind", tree[n], FALSE, "kids", "none", "none")
    BY <1>5 DEF Rebind
  <2>2. tree[n].phase \in From("rebind")
    BY <1>0, <1>5 DEF Rebind, PlacedAt, SoundAt, CheckNode, From, NodeRecord
  <2> QED BY <1>0, <2>1, <2>2, AllowedStays DEF SoundAt
<1>6. CASE Outputs(n)
  <2> DEFINE c == [tree[n] EXCEPT !.phase = "outputs"]
  <2>1. /\ c.phase = "outputs" /\ c.bound = tree[n].bound /\ c.kids = tree[n].kids
    BY <1>0 DEF NodeRecord
  <2>2. Transition(n, "outputs", c, FALSE, "outs", "none", "none")
    BY <1>6 DEF Outputs
  <2> HIDE DEF c
  <2>3. tree[n].bound /\ tree[n].phase \in From("outputs")
    BY <1>0, <1>6 DEF Outputs, PlacedAt, SoundAt, CheckNode, From, NodeRecord
  <2>4. CheckNode(n, c, tree)
    BY <1>0, <2>1, <2>3 DEF CheckNode, SoundAt
  <2> QED BY <1>0, <2>2, <2>3, <2>4, AllowedStays
<1>7. CASE Finish(n)
  <2>1. PICK p, e : Transition(n, "finish", Finished(n, res[n]), p, "back",
                      OutcomeOf(n, res[n]), e)
    BY <1>7 DEF Finish
  <2>2. CheckNode(n, Finished(n, res[n]), tree) /\ tree[n].phase \in From("finish")
    BY <1>0, <1>7, FinishedChecks DEF From, NodeRecord
  <2> QED BY <1>0, <2>1, <2>2, AllowedStays
<1>8. CASE Settle(n)
  <2>1. PICK p : Transition(n, "settle", Settled(n, res[n]), p, "back", res[n], "none")
    BY <1>8 DEF Settle
  <2>2. CheckNode(n, Settled(n, res[n]), tree) /\ tree[n].phase \in From("settle")
    BY <1>8, SettledChecks DEF From
  <2> QED BY <1>0, <2>1, <2>2, AllowedStays
<1>9. CASE \/ Replay(n) \/ ReplayAborted(n) \/ Notify(n) \/ Execute(n) \/ Reenter(n)
           \/ BindFails(n) \/ EnterBound(n) \/ EvaluateOutputs(n) \/ ChildrenCompleted(n)
           \/ ChildrenStopped(n) \/ Leave(n) \/ Collect(n) \/ Drained(n) \/ Interrupt(n)
           \/ \E s \in Slots(n) : StartItem(n, s) \/ ReturnItem(n, s)
  BY <1>0, <1>9
     DEF NeverRefused, Replay, ReplayAborted, Notify, Execute, Reenter, BindFails, EnterBound,
         EvaluateOutputs, ChildrenCompleted, ChildrenStopped, Leave, Collect, Drained, PoolVars,
         Interrupt, StartItem, ReturnItem
<1> QED BY <1>1, <1>2, <1>3, <1>4, <1>5, <1>6, <1>7, <1>8, <1>9 DEF StepOf

-----------------------------------------------------------------------------
(* Steps of a process                                                        *)

\* Every step of a frame keeps the second invariant.
LEMMA StepWalks ==
  ASSUME RInv, NEW n \in Node, StepOf(n) \/ Interrupt(n)
  PROVE  Walks'
<1>1. Laid(tree, index)' /\ Laid(disk.tree, disk.index)'
  BY StepLaid DEF Laid, Behind
<1> QED BY <1>1, StepPlaced, StepNoted, StepAttended, StepOrdered, StepGathered, StepPooled,
           StepReached, StepStaged, StepGrounded, StepAllowed DEF Walks

\* When no root step is busy no frame is.
LEMMA RootsQuiet ==
  ASSUME RInv, \A m \in RootNodes : ~Busy(m)
  PROVE  \A n \in Node : ~Busy(n)
<1> DEFINE S == {n \in Node : Busy(n)}
<1>1. ASSUME NEW n \in S PROVE pc[n] # "idle" /\ Parent[n] \in S
  <2>1. n \in Node /\ Busy(n) /\ Parent[n] \in Node
    BY TreeAssumption DEF RootNodes
  <2>2. pc[n] # "idle" /\ pc[Parent[n]] \in {"kids", "drain"}
    BY <2>1, BusyChild
  <2> QED BY <2>1, <2>2 DEF Busy
<1>2. S = {}
  BY <1>1 DEF RInv, Walks, Grounded
<1> QED BY <1>2

\* When the root sequence has returned no frame is busy.
LEMMA ReturnedRootIsQuiet ==
  ASSUME RInv, RootCompleted \/ \E v \in Stops : RootStops(v)
  PROVE  \A n \in Node : ~Busy(n)
<1>1. CASE RootCompleted
  BY <1>1, RootsQuiet, ReturnedIsIdle DEF RootCompleted, RootNodes
<1>2. ASSUME NEW v \in Stops, RootStops(v) PROVE \A m \in RootNodes : ~Busy(m)
  <2>1. \A m \in RootNodes : m \in Members(Root, 1)
    BY SlotAssumption DEF RootNodes, Members
  <2>2. SlotStopped(Root, 1, v)
    BY <1>2, <2>1 DEF RootStops, SlotStopped
  <2> QED BY <2>1, <2>2, StoppedSlotIsQuiet
<1> QED BY <1>1, <1>2, RootsQuiet

\* The frames stand while the process takes a step of its own.
LEMMA FramesStand ==
  ASSUME RInv, UNCHANGED <<tree, index, disk, frames, seen, rejected>>, Staged'
  PROVE  Walks'
<1>0. /\ Laid(tree, index) /\ Laid(disk.tree, disk.index) /\ Grounded /\ Placed /\ Noted
      /\ Attended /\ Ordered /\ Gathered /\ Pooled /\ Reached /\ StatusMatchesTree /\ NeverRefused
      /\ UNCHANGED <<tree, index, disk, pc, res, note, main, pool, seen, rejected>>
  BY DEF RInv, Walks, frames
<1>1. /\ \A m, v : Returned(m, v)' <=> Returned(m, v)
      /\ \A m : Busy(m)' <=> Busy(m)
  BY <1>0 DEF Returned, Busy, Calm
<1>2. \A p, s : SlotCompleted(p, s)' <=> SlotCompleted(p, s)
  BY <1>1 DEF SlotCompleted, Members
<1>3. \A p : PoolSize(p)' = PoolSize(p) /\ (Concurrent(p)' <=> Concurrent(p))
  BY <1>0 DEF PoolSize, Concurrent
<1>4. \A p, s : SlotOpen(p, s)' <=> SlotOpen(p, s)
  BY <1>0, <1>2, <1>3 DEF SlotOpen
<1>5. Laid(tree, index)' /\ Laid(disk.tree, disk.index)' /\ Reached'
  BY <1>0 DEF Laid, Behind, Reached
<1>6. Grounded' /\ Placed' /\ Noted' /\ StatusMatchesTree' /\ NeverRefused'
  BY <1>0 DEF Grounded, Placed, PlacedAt, Noted, NotedAt, StatusMatchesTree, NeverRefused
<1>7. Attended'
  <2>1. \A m, p \in Node : AttendedAt(m, p) => AttendedAt(m, p)'
    BY <1>0, <1>1, <1>2, <1>3, <1>4 DEF AttendedAt, Opened
  <2> QED BY <1>0, <2>1, TreeAssumption DEF Attended
<1>8. Ordered' /\ Gathered'
  BY <1>0, <1>1 DEF Ordered, Gathered, GatheredAt, Gathers
<1>9. Pooled'
  <2>1. \A f \in Node : PoolAt(f) => PoolAt(f)'
    BY <1>0, <1>2, <1>3 DEF PoolAt
  <2> QED BY <1>0, <2>1 DEF Pooled
<1> QED BY <1>5, <1>6, <1>7, <1>8, <1>9 DEF Walks

\* A process that ends leaves nothing but the checkpoint.
LEMMA ForgetsWalks ==
  ASSUME Forgets, Laid(disk'.tree, disk'.index), StatusMatchesTree', NeverRefused',
         attempt' # 0
  PROVE  Walks'
<1>1. /\ tree' = disk'.tree /\ index' = disk'.index /\ proc' = "none"
      /\ \A n \in Node : pc'[n] = "idle" /\ note'[n] = "none" /\ pool'[n] = NoPool
  BY DEF Forgets
<1>2. Laid(tree, index)' /\ Laid(disk.tree, disk.index)'
  BY <1>1 DEF Laid, Behind
<1>3. Placed' /\ Noted' /\ Attended' /\ Ordered'
  BY <1>1 DEF Placed, PlacedAt, Noted, NotedAt, Attended, Ordered
<1>4. Gathered' /\ Reached' /\ Staged' /\ Grounded'
  BY <1>1 DEF Gathered, GatheredAt, Gathers, Reached, RootNodes, Staged, Grounded
<1>5. Pooled'
  BY <1>1, EmptyPool DEF Pooled
<1> QED BY <1>2, <1>3, <1>4, <1>5 DEF Walks

\* The first checkpoint of a process, written or not, keeps the invariant.
LEMMA SetupWalks ==
  ASSUME RInv, NEW tr, NEW ix, NEW i, Setup(tr, ix, i), Laid(tr, ix), proc = "none"
  PROVE  Walks'
<1>0. /\ attempt' # 0 /\ NeverRefused' /\ Laid(disk.tree, disk.index) /\ StatusMatchesTree
      /\ \A n \in Node : pc[n] = "idle" /\ note[n] = "none"
      /\ \A f \in Node : Kind[f] = "fanout" => pool[f] = NoPool
  BY DEF RInv, IInv, Kept, Quiet, Owing, Walks, Pooled, PoolAt, NeverRefused, Setup, TypeOK
<1>1. PICK w \in Writes(TRUE) :
       /\ disk' = IF Replaces(w) THEN Checkpoint(tr, "running", ix) ELSE disk
       /\ IF w = "ok"
          THEN /\ proc' = "run" /\ tree' = tr /\ status' = "running" /\ index' = ix
               /\ UNCHANGED <<poisoned, frames, seen, log>>
          ELSE Forgets
  BY DEF Setup
<1>2. \/ disk' = disk
      \/ disk'.tree = tr /\ disk'.index = ix /\ disk'.status = "running"
  BY <1>1 DEF Checkpoint
<1>3. Laid(disk'.tree, disk'.index) /\ StatusMatchesTree'
  BY <1>0, <1>2 DEF StatusMatchesTree
<1>4. CASE w = "ok"
  <2>1. /\ disk'.tree = tr /\ disk'.index = ix /\ disk'.status = "running"
        /\ proc' = "run" /\ tree' = tr /\ status' = "running" /\ index' = ix
        /\ UNCHANGED <<pc, res, note, main, pool>>
    BY <1>1, <1>4 DEF frames, Replaces, Checkpoint
  <2>2. Laid(tree, index)' /\ Laid(disk.tree, disk.index)'
    BY <2>1 DEF Laid, Behind
  <2>3. Placed' /\ Noted' /\ Attended' /\ Ordered'
    BY <1>0, <2>1 DEF Placed, PlacedAt, Noted, NotedAt, Attended, Ordered
  <2>4. Gathered' /\ Reached' /\ Staged' /\ Grounded'
    BY <1>0, <2>1 DEF Gathered, GatheredAt, Gathers, Reached, RootNodes, Staged, Grounded
  <2>5. Pooled'
    BY <1>0, <2>1, EmptyPool DEF Pooled
  <2> QED BY <1>0, <1>3, <2>2, <2>3, <2>4, <2>5 DEF Walks
<1>5. CASE w # "ok"
  BY <1>0, <1>1, <1>3, <1>5, ForgetsWalks
<1> QED BY <1>4, <1>5

\* A tree nobody worked on is laid out under no index.
LEMMA FreshIsLaid == Laid(Untouched, 0)
<1>1. \A n \in Node : Untouched[n] = Fresh
  BY DEF Untouched
<1>2. \A n \in Node : Untouched[n].kids = 1..0
  BY DEF Untouched, Fresh
<1>3. \A n \in Node : \E k \in Nat : Untouched[n].kids = 1..k
  BY <1>2
<1>4. \A n \in RootNodes : n \in Node /\ ~(Pos[n] < 0)
  BY TreeAssumption DEF RootNodes
<1> QED BY <1>1, <1>3, <1>4 DEF Laid

\* So does the return of the root sequence.
LEMMA RootReturnsWalks ==
  ASSUME RInv, RootReturns
  PROVE  Walks'
<1>0. /\ UNCHANGED <<tree, index, disk, frames, seen, rejected, pc, res, note, attempt>>
      /\ proc = "run" /\ status = "running" /\ disk.status = "running" /\ attempt # 0
  BY DEF RootReturns, budget, frames, RInv, Walks, Staged, IInv, Kept, Quiet
<1>1. /\ RootCompleted \/ \E v \in Stops : RootStops(v)
      /\ \/ proc' = "final" /\ status' = "running" /\ RootCompleted
         \/ proc' = "final" /\ status' \in Halting /\ RootStops(status')
         \/ proc' = "saving" /\ status' \in {"paused", "failed"}
  BY <1>0 DEF RootReturns, Stops, Raising
<1>2. \A n \in Node : ~Busy(n)'
  BY <1>0, <1>1, ReturnedRootIsQuiet DEF Busy, Calm
<1>3. Staged'
  <2>1. proc' = "final" => \/ status' = "running" /\ RootCompleted'
                           \/ status' \in Halting /\ RootStops(status)'
    BY <1>0, <1>1 DEF RootCompleted, RootStops, Returned, Calm
  <2>2. proc' \in {"final", "saving"}
    BY <1>1
  <2> QED BY <1>0, <1>1, <1>2, <2>1, <2>2 DEF Staged
<1> QED BY <1>0, <1>3, FramesStand

\* So does Ctrl+C between two root steps.
LEMMA RootInterruptWalks ==
  ASSUME RInv, RootInterrupt
  PROVE  Walks'
<1>0. /\ UNCHANGED <<tree, index, disk, frames, seen, rejected, pc, res, note, attempt>>
      /\ proc' = "saving" /\ status' = "paused" /\ disk.status = "running" /\ attempt # 0
  BY DEF RootInterrupt, frames, RInv, Walks, Staged, IInv, Kept, Quiet
<1>1. \A n \in Node : ~Busy(n)'
  BY <1>0, RootsQuiet DEF RootInterrupt, NoFrame, Busy, Calm
<1>2. Staged'
  BY <1>0, <1>1 DEF Staged
<1> QED BY <1>0, <1>2, FramesStand

\* So does the closing checkpoint: what it says of the run is true of the tree.
LEMMA CloseWalks ==
  ASSUME RInv, Close
  PROVE  Walks'
<1>0. /\ Staged /\ Laid(tree, index) /\ Laid(disk.tree, disk.index) /\ StatusMatchesTree
      /\ Framed /\ Placed /\ Forgets /\ attempt' # 0 /\ NeverRefused'
      /\ proc \in {"final", "saving"}
  BY DEF RInv, IInv, Kept, Quiet, Walks, Close, NeverRefused
<1>1. disk' = disk \/ disk' = Checkpoint(tree, FinalStatus, index)
  BY DEF Close
<1>2. FinalStatus = "completed" => \A n \in RootNodes : tree[n].phase = "done"
  <2>1. FinalStatus = "completed" => RootCompleted
    BY <1>0 DEF FinalStatus, Staged, Halting
  <2> QED BY <1>0, <2>1 DEF RootCompleted, RootNodes, Returned, Framed, FramedAt
<1>3. FinalStatus = "aborted" => \E n \in RootNodes : tree[n].outcome = "aborted"
  <2>1. FinalStatus = "aborted" => RootStops("aborted")
    BY <1>0 DEF FinalStatus, Staged
  <2> QED BY <1>0, <2>1 DEF RootStops, RootNodes, Returned, Placed, PlacedAt
<1>4. CASE disk' = disk
  <2>1. StatusMatchesTree' /\ Laid(disk'.tree, disk'.index)
    BY <1>0, <1>4 DEF StatusMatchesTree
  <2> QED BY <1>0, <2>1, ForgetsWalks
<1>5. CASE disk' = Checkpoint(tree, FinalStatus, index)
  <2>1. disk'.tree = tree /\ disk'.index = index /\ disk'.status = FinalStatus
    BY <1>5 DEF Checkpoint
  <2>2. StatusMatchesTree' /\ Laid(disk'.tree, disk'.index)
    BY <1>0, <1>2, <1>3, <2>1 DEF StatusMatchesTree
  <2> QED BY <1>0, <2>2, ForgetsWalks
<1> QED BY <1>1, <1>4, <1>5

\* So does every step of the run.
LEMMA NextWalks ==
  ASSUME RInv, [Next]_vars
  PROVE  Walks'
<1>0. /\ Laid(disk.tree, disk.index) /\ StatusMatchesTree /\ NeverRefused /\ Staged
      /\ proc # "none" => attempt # 0
  BY DEF RInv, IInv, Kept, Quiet, Walks
<1>1. CASE Start
  BY <1>1, FreshIsLaid, SetupWalks DEF Start
<1>2. CASE Resume
  BY <1>0, <1>2, SetupWalks DEF Resume
<1>3. CASE RootReturns \/ RootInterrupt
  BY <1>3, RootReturnsWalks, RootInterruptWalks
<1>4. CASE Close
  BY <1>4, CloseWalks
<1>5. CASE GivesUp \/ Killed
  <2>1. /\ Forgets /\ disk' = disk /\ attempt' # 0 /\ NeverRefused'
    BY <1>0, <1>5 DEF GivesUp, Killed, budget, NeverRefused
  <2>2. StatusMatchesTree' /\ Laid(disk'.tree, disk'.index)
    BY <1>0, <2>1 DEF StatusMatchesTree
  <2> QED BY <2>1, <2>2, ForgetsWalks
<1>6. CASE \E n \in Node : StepOf(n) \/ Interrupt(n)
  BY <1>6, StepWalks
<1>7. CASE UNCHANGED vars
  <2>1. UNCHANGED <<tree, index, disk, frames, seen, rejected, pc, res, note, attempt, proc,
                    status>>
    BY <1>7 DEF vars, budget, frames
  <2>2. Staged'
    BY <1>0, <2>1 DEF Staged, RootCompleted, RootStops, Returned, Busy, Calm
  <2> QED BY <2>1, <2>2, FramesStand
<1> QED BY <1>1, <1>2, <1>3, <1>4, <1>5, <1>6, <1>7 DEF Next

\* The second inductive invariant holds in every reachable state: frames are
\* busy only under owners that wait for them, in the order of the tree, and what
\* pools and containers collected stands for as long as the process lives.
THEOREM RInvHolds == Spec => []RInv
<1>1. Init => Walks
  <2> SUFFICES ASSUME Init PROVE Walks
    OBVIOUS
  <2>1. /\ tree = Untouched /\ index = 0 /\ disk.tree = Untouched /\ disk.index = 0
        /\ disk.status = "created" /\ proc = "none" /\ ~rejected
        /\ \A n \in Node : pc[n] = "idle" /\ note[n] = "none" /\ pool[n] = NoPool
    BY DEF Init, Checkpoint
  <2>2. Placed /\ Noted /\ Attended /\ Ordered /\ Gathered /\ Reached /\ Grounded
    BY <2>1 DEF Placed, PlacedAt, Noted, NotedAt, Attended, Ordered, Gathered, GatheredAt,
                Gathers, Reached, RootNodes, Grounded
  <2>3. Pooled
    BY <2>1 DEF Pooled, PoolAt, NoPool
  <2>4. Staged /\ StatusMatchesTree /\ NeverRefused
    BY <2>1 DEF Staged, StatusMatchesTree, NeverRefused
  <2> QED BY <2>1, <2>2, <2>3, <2>4, FreshIsLaid DEF Walks
<1>2. IInv /\ Walks /\ [Next]_vars => Walks'
  BY NextWalks DEF RInv
<1>3. IInv /\ Walks => RInv
  BY DEF RInv
<1> QED BY <1>1, <1>2, <1>3, IInvHolds, PTL DEF Spec

-----------------------------------------------------------------------------
(* What the second invariant says of the runs                                *)

\* transition() never refuses what the runner asks for, whatever failed before
\* and whatever checkpoint the process resumed from: its phase and shape checks
\* guard against callers, not against the runner.
THEOREM NothingIsRefused == Spec => []NeverRefused
<1>1. RInv => NeverRefused
  BY DEF RInv, Walks
<1> QED BY <1>1, RInvHolds, PTL

\* The status the closing checkpoint reports is the truth about the tree it
\* stores, on every path out of _execute_steps().
THEOREM StatusIsTrue == Spec => []StatusMatchesTree
<1>1. RInv => StatusMatchesTree
  BY DEF RInv, Walks
<1> QED BY <1>1, RInvHolds, PTL

\* current_step_index, as stored, splits the root sequence into what is done and
\* what is untouched, over every failure and every resume.
THEOREM IndexSplitsTheRun == Spec => []ResumePoint
<1>1. RInv => ResumePoint
  BY DEF RInv, Walks, Laid, ResumePoint
<1> QED BY <1>1, RInvHolds, PTL

\* A container that returned completed has put its own result and those of all
\* its selected children into the context, executed or replayed.
THEOREM ContextIsRestored == Spec => []ContextRestored
<1>1. RInv => ContextRestored
  <2> SUFFICES ASSUME RInv, NEW n \in Node, Returned(n, "completed")
               PROVE  /\ n \in seen
                      /\ Kind[n] \in {"block", "loop", "fanout"} =>
                           ChildrenOf(n, tree[n]) \subseteq seen
    BY DEF ContextRestored
  <2>1. \A m \in Node : Returned(m, "completed") => m \in seen
    BY DEF RInv, Walks, Placed, PlacedAt, Returned
  <2>2. Kind[n] # "call" => \A m \in ChildrenOf(n, tree[n]) : Returned(m, "completed")
    BY DEF RInv, Walks, Gathered, GatheredAt, Gathers, Returned
  <2> QED BY <2>1, <2>2 DEF ChildrenOf
<1> QED BY <1>1, RInvHolds, PTL

\* What an item that stopped has not been: collected.
LEMMA StoppedIsNotCollected ==
  ASSUME RInv, NEW f \in Node, Kind[f] = "fanout", NEW t \in tree[f].kids, ItemStops(f, t)
  PROVE  t \in Nat /\ t >= pool[f].next
<1>0. PoolAt(f) /\ tree[f] \in NodeRecord /\ pool[f] \in PoolRecord
  BY DEF RInv, Walks, Pooled, IInv, TypeOK
<1>1. t \in Nat \ {0} /\ pool[f].next \in Nat
  BY <1>0, SlotsTyped DEF NodeRecord, PoolRecord
<1>2. ~SlotCompleted(f, t)
  <2>1. PICK v \in Stops, m \in Members(f, t) : Returned(m, v)
    BY DEF ItemStops, SlotStopped
  <2>2. v # "completed" /\ m \in Node
    BY <2>1 DEF Stops, Halting, Raising, Members
  <2> QED BY <2>1, <2>2, ReturnedIsIdle DEF SlotCompleted
<1>3. \A s \in 1..(pool[f].next - 1) : SlotCompleted(f, s)
  BY <1>0 DEF PoolAt
<1> QED BY <1>1, <1>2, <1>3

\* The window of a concurrent fan-out holds at every moment: never more than
\* PoolSize items run, none starts a window or more behind one that stopped, and
\* no item outlives the fan-out that waits for it.
THEOREM WindowsHold == Spec => []PoolDiscipline
<1>1. RInv => PoolDiscipline
  <2> SUFFICES ASSUME RInv, NEW f \in Node, Kind[f] = "fanout"
      PROVE  /\ Cardinality(pool[f].started \ pool[f].finished) <= PoolSize(f)
             /\ \A s \in pool[f].started, t \in tree[f].kids :
                  ItemStops(f, t) => s < t + PoolSize(f)
             /\ pc[f] \in {"fold", "raise", "back"} =>
                  \A m \in Node : Parent[m] = f => ~Busy(m)
    BY DEF PoolDiscipline
  <2>0. PoolAt(f) /\ pool[f] \in PoolRecord /\ PoolSize(f) \in Nat
    BY PoolSizeNat DEF RInv, Walks, Pooled, IInv, TypeOK
  <2>1. Cardinality(pool[f].started \ pool[f].finished) <= PoolSize(f)
    <3> DEFINE a == pool[f].next
               b == a + PoolSize(f) - 1
               R == pool[f].started \ pool[f].finished
    <3>1. a \in Nat /\ a >= 1 /\ b \in Int
      BY <2>0 DEF PoolAt, PoolRecord
    <3>2. \A s \in R : s \in Nat /\ s >= 1 /\ s < a + PoolSize(f)
      BY <2>0 DEF PoolAt, PoolRecord
    <3>3. \A s \in R : s \notin 1..(a - 1)
      BY <2>0 DEF PoolAt
    <3>4. R \subseteq a..b
      <4>1. ASSUME NEW s \in R PROVE s \in a..b
        <5> HIDE DEF R, a
        <5>1. s \in Nat /\ s >= 1 /\ s < a + PoolSize(f) /\ s \notin 1..(a - 1)
          BY <3>2, <3>3, <4>1
        <5> QED BY <2>0, <3>1, <5>1
      <4> QED BY <4>1
    <3> HIDE DEF a, R
    <3>5. IsFiniteSet(a..b) /\ Cardinality(a..b) = PoolSize(f)
      <4>1. a \in Int
        BY <3>1
      <4>2. IsFiniteSet(a..b) /\ Cardinality(a..b) = IF a > b THEN 0 ELSE b - a + 1
        BY <3>1, <4>1, FS_Interval
      <4> QED BY <2>0, <3>1, <4>1, <4>2
    <3>6. Cardinality(R) <= PoolSize(f)
      BY <3>4, <3>5, FS_Subset
    <3> QED BY <3>6 DEF R
  <2>2. ASSUME NEW s \in pool[f].started, NEW t \in tree[f].kids, ItemStops(f, t)
        PROVE  s < t + PoolSize(f)
    <3>1. t \in Nat /\ t >= pool[f].next
      BY <2>2, StoppedIsNotCollected
    <3>2. s \in Nat /\ pool[f].next \in Nat /\ s < pool[f].next + PoolSize(f)
      BY <2>0 DEF PoolAt, PoolRecord
    <3> QED BY <2>0, <3>1, <3>2
  <2>3. pc[f] \in {"fold", "raise", "back"} => \A m \in Node : Parent[m] = f => ~Busy(m)
    BY BusyChild
  <2> QED BY <2>1, <2>2, <2>3
<1> QED BY <1>1, RInvHolds, PTL

\* An event is appended only when state.json already holds what it announces,
\* whichever thread wrote last.
THEOREM EventsFollowCheckpoints == Spec => LogFollowsCheckpoint
<1> DEFINE Follows ==
      \A n \in Node :
        /\ <<"started", n>> \in log' \ log => disk.tree[n].active
        /\ <<"completed", n>> \in log' \ log => disk.tree[n].result # "none"
<1>1. ASSUME RInv, [Next]_vars PROVE Follows
  <2>1. CASE log' \subseteq log
    BY <2>1
  <2>2. ASSUME NEW m \in Node, Notify(m) PROVE Follows
    <3>1. log' \subseteq log \union {<<note[m], m>>}
      BY <2>2 DEF Notify
    <3>2. NotedAt(m)
      BY <1>1 DEF RInv, Walks, Noted
    <3> QED BY <3>1, <3>2 DEF NotedAt
  <2>3. log' \subseteq log \/ \E m \in Node : Notify(m)
    <3>1. CASE \/ Start \/ Resume \/ RootReturns \/ RootInterrupt \/ Close \/ GivesUp \/ Killed
               \/ UNCHANGED vars
      BY <3>1 DEF Start, Resume, Setup, Forgets, RootReturns, RootInterrupt, Close, GivesUp,
                  Killed, vars
    <3>2. ASSUME NEW m \in Node, StepOf(m) \/ Interrupt(m), ~Notify(m)
          PROVE  log' = log
      <4>1. ASSUME NEW op, NEW c, NEW p, NEW where, NEW v, NEW e,
                   Transition(m, op, c, p, where, v, e)
            PROVE  log' = log
        BY <4>1 DEF Transition
      <4>2. CASE \/ Begin(m) \/ Expand(m) \/ Iterate(m) \/ Bind(m) \/ Rebind(m) \/ Outputs(m)
                 \/ Finish(m) \/ Settle(m)
        BY <4>1, <4>2 DEF Begin, Expand, Iterate, Bind, Rebind, Outputs, Finish, Settle
      <4>3. CASE ~(\/ Begin(m) \/ Expand(m) \/ Iterate(m) \/ Bind(m) \/ Rebind(m) \/ Outputs(m)
                   \/ Finish(m) \/ Settle(m))
        BY <3>2, <4>3
           DEF StepOf, Interrupt, Replay, ReplayAborted, Execute, Reenter, BindFails, EnterBound,
               EvaluateOutputs, ChildrenCompleted, ChildrenStopped, Leave, Collect, Drained,
               StartItem, ReturnItem, PoolVars
      <4> QED BY <4>2, <4>3
    <3> QED BY <1>1, <3>1, <3>2 DEF Next
  <2> QED BY <2>1, <2>2, <2>3
<1>2. RInv /\ [Next]_vars => [Follows]_vars
  BY <1>1
<1> QED BY <1>2, RInvHolds, PTL DEF Spec, LogFollowsCheckpoint

-----------------------------------------------------------------------------
(* The state file implements the life cycle of a run                         *)

\* How state.json may change: the status moves along its diagram, and the tree
\* changes only while the run is running.
LEMMA StoredMoves ==
  ASSUME RInv, [Next]_vars
  PROVE  \/ disk' = disk
         \/ /\ disk.status \in {"created", "paused", "failed"} /\ disk'.status = "running"
            /\ disk'.tree = disk.tree
         \/ /\ disk.status = "running"
            /\ disk'.status \in {"running", "paused", "failed", "aborted", "completed"}
<1>0. Staged /\ IInv
  BY DEF RInv, Walks
<1>1. CASE Start
  <2>1. disk.status = "created" /\ disk.tree = Untouched
    BY <1>0, <1>1 DEF Start, Staged, IInv, Kept, Quiet
  <2>2. disk' = disk \/ disk' = Checkpoint(Untouched, "running", 0)
    BY <1>1 DEF Start, Setup
  <2> QED BY <2>1, <2>2 DEF Checkpoint
<1>2. CASE Resume
  <2>1. disk.status \in {"paused", "failed"}
    BY <1>2 DEF Resume
  <2>2. disk' = disk \/ disk' = Checkpoint(disk.tree, "running", disk.index)
    BY <1>2 DEF Resume, Setup
  <2> QED BY <2>1, <2>2 DEF Checkpoint
<1>3. CASE RootReturns \/ RootInterrupt \/ GivesUp \/ Killed \/ UNCHANGED vars
  BY <1>3 DEF RootReturns, RootInterrupt, GivesUp, Killed, vars
<1>4. CASE Close
  <2>1. disk.status = "running" /\ FinalStatus \in {"paused", "failed", "aborted", "completed"}
    BY <1>0, <1>4 DEF Close, Staged, FinalStatus, Halting
  <2>2. disk' = disk \/ disk' = Checkpoint(tree, FinalStatus, index)
    BY <1>4 DEF Close
  <2> QED BY <2>1, <2>2 DEF Checkpoint
<1>5. ASSUME NEW n \in Node, StepOf(n) \/ Interrupt(n)
      PROVE  disk.status = "running" /\ disk'.status = "running"
  <2>1. status = "running" /\ disk.status = "running" /\ Alone(n)
    BY <1>0, <1>5, StepsRunning, FrameIsAlone
  <2> QED BY <2>1 DEF Alone, Writing, Checkpoint
<1> QED BY <1>1, <1>2, <1>3, <1>4, <1>5 DEF Next

\* What is stored as completed stays so, and grows in the order of the tree.
LEMMA StoredGrows ==
  ASSUME IInv, [Next]_vars
  PROVE  Lifecycle!Grows
<1>1. Kept' /\ Progress
  BY NextKeeps
<1>2. \A n \in Node : disk.tree[n].phase = "done" => disk'.tree[n].phase = "done"
  BY <1>1 DEF Progress, Advances
<1>3. \A n \in Node : disk'.tree[n].phase = "done" =>
        \A m \in Earlier(n) : m \in Node /\ disk'.tree[m].phase = "done"
  BY <1>1 DEF Kept, Sound, SoundAt, Behind, Earlier
<1> QED BY <1>2, <1>3 DEF Lifecycle!Grows

\* Threads, failed writes, Ctrl+C, kills and resumes implement the promised life
\* cycle of RunStatus: read from the state file alone, completed steps stay
\* completed and in order, and completed means that every root step is.
THEOREM RunImplementsLifecycle == Spec => ImplementsLifecycle
<1> DEFINE Done == {n \in Node : disk.tree[n].phase = "done"}
<1>1. Init => Lifecycle!Init
  BY DEF Init, Checkpoint, Untouched, Fresh, Lifecycle!Init
<1>2. ASSUME RInv, RInv', [Next]_vars
      PROVE  Lifecycle!Next \/ UNCHANGED <<disk.status, Done>>
  <2>0. Lifecycle!Grows /\ StatusMatchesTree'
    BY <1>2, StoredGrows DEF RInv, Walks
  <2>1. CASE disk' = disk
    BY <2>1
  <2>2. CASE /\ disk.status \in {"created", "paused", "failed"} /\ disk'.status = "running"
             /\ disk'.tree = disk.tree
    BY <2>2 DEF Lifecycle!Next, Lifecycle!Begin, Lifecycle!Resume
  <2>3. CASE /\ disk.status = "running"
             /\ disk'.status \in {"running", "paused", "failed", "aborted", "completed"}
    <3>1. CASE disk'.status = "running"
      BY <2>0, <2>3, <3>1 DEF Lifecycle!Next, Lifecycle!Advance
    <3>2. CASE disk'.status # "running"
      <4>1. disk'.status = "completed" => RootNodes \subseteq Done'
        BY <2>0 DEF StatusMatchesTree, RootNodes
      <4> QED BY <2>0, <2>3, <3>2, <4>1 DEF Lifecycle!Next, Lifecycle!Stop, Lifecycle!Stopped
    <3> QED BY <3>1, <3>2
  <2> QED BY <1>2, <2>1, <2>2, <2>3, StoredMoves
<1>3. RInv /\ RInv' /\ [Next]_vars => [Lifecycle!Next]_<<disk.status, Done>>
  BY <1>2
<1> QED BY <1>1, <1>3, RInvHolds, PTL DEF Spec, ImplementsLifecycle, Lifecycle!Spec
=============================================================================
