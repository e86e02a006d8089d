---------------------- MODULE WorkflowExecution_proofs ----------------------
(* Theorems about WorkflowExecution for every tree of occurrences, every     *)
(* number of workers and every bound.                                        *)
EXTENDS WorkflowExecution, FiniteSetTheorems, TLAPS

-----------------------------------------------------------------------------
(* Type correctness *)

\* A selection of children is finite and can be counted.
LEMMA KidsFinite ==
  ASSUME NEW ks \in SUBSET SlotIds
  PROVE  IsFiniteSet(ks) /\ Cardinality(ks) \in Nat
<1>1. Slot \in Surjection(Node, SlotIds)
  BY TreeAssumption DEF SlotIds, Surjection
<1>2. IsFiniteSet(SlotIds)
  BY <1>1, FS_Surjection, TreeAssumption
<1> QED BY <1>2, FS_Subset, FS_CardinalityType

\* The size of a pool is a number.
LEMMA PoolSizeNat ==
  ASSUME NEW f \in Node, tree \in [Node -> NodeRecord]
  PROVE  /\ PoolSize(f) \in Nat
         /\ Cardinality(tree[f].kids) \in Nat
<1>1. tree[f].kids \in SUBSET SlotIds
  BY DEF NodeRecord
<1> QED BY <1>1, KidsFinite, BoundAssumption DEF PoolSize

\* Slots are numbers from one.
LEMMA SlotsTyped ==
  ASSUME NEW n \in Node
  PROVE  Slots(n) \subseteq SlotIds /\ SlotIds \subseteq Nat \ {0}
BY TreeAssumption DEF Slots, SlotIds

\* What a result selects are slots.
LEMMA SelectionsTyped ==
  ASSUME NEW n \in Node, NEW ks \in Selections(n)
  PROVE  ks \in SUBSET SlotIds
<1>1. CASE Kind[n] = "block"
  BY <1>1, SlotsTyped DEF Selections
<1>2. CASE Kind[n] = "loop"
  BY <1>2, SlotsTyped, SlotAssumption DEF Selections
<1>3. CASE Kind[n] = "fanout"
  BY <1>3, SlotsTyped, SlotAssumption DEF Selections
<1>4. CASE Kind[n] \notin {"block", "loop", "fanout"}
  BY <1>4 DEF Selections
<1> QED BY <1>1, <1>2, <1>3, <1>4

\* However a write ends, disk and counters keep their types.
LEMMA SaveTyped ==
  ASSUME NEW w, NEW b \in BOOLEAN, w \in Writes(b),
         TypeOK, NEW tr \in [Node -> NodeRecord], NEW st \in Statuses,
         NEW ix \in Nat, Save(w, tr, st, ix)
  PROVE  /\ disk' \in CheckpointRecord /\ poisoned' \in BOOLEAN
         /\ faults' \in 0..MaxFaults /\ ints' \in 0..MaxInterrupts
BY BoundAssumption
   DEF Writes, TypeOK, Save, Replaces, Checkpoint, CheckpointRecord

\* A transition with a well-formed candidate keeps the types.
LEMMA TransitionTyped ==
  ASSUME TypeOK, NEW n \in Node, NEW op, NEW c \in NodeRecord,
         NEW p \in BOOLEAN, NEW wh \in Place, NEW v \in Value, NEW e \in Event,
         index' \in Nat, main' \in [Node -> BOOLEAN],
         pool' \in [Node -> PoolRecord],
         Transition(n, op, c, p, wh, v, e)
  PROVE  TypeOK'
<1>0. UNCHANGED <<status, proc, rebind, attempt, log>>
  BY DEF Transition
<1>1. CASE poisoned \/ tree[n].phase \notin From(op) \/ ~CheckNode(n, c, tree)
  BY <1>0, <1>1 DEF Transition, TypeOK, Goes, Value, Place
<1>2. CASE ~(poisoned \/ tree[n].phase \notin From(op) \/ ~CheckNode(n, c, tree))
  <2>1. /\ tree' = [tree EXCEPT ![n] = c]
        /\ IF p THEN Shows(n) ELSE UNCHANGED seen
        /\ UNCHANGED rejected
    BY <1>2 DEF Transition
  <2>2. PICK w \in Writes(main'[n]) :
               /\ Save(w, tree', status, index')
               /\ IF w = "ok"
                  THEN Goes(n, wh, v) /\ Owes(n, e)
                  ELSE Goes(n, "raise", WriteError(w)) /\ UNCHANGED note
    BY <1>2 DEF Transition
  <2>3. tree' \in [Node -> NodeRecord] /\ seen' \subseteq Node
    BY <2>1 DEF TypeOK, Shows
  <2>4. /\ disk' \in CheckpointRecord /\ poisoned' \in BOOLEAN
        /\ faults' \in 0..MaxFaults /\ ints' \in 0..MaxInterrupts
    BY <2>2, <2>3, SaveTyped DEF TypeOK
  <2>5. pc' \in [Node -> Place] /\ res' \in [Node -> Value]
        /\ note' \in [Node -> Event]
    BY <2>2 DEF TypeOK, Goes, Owes, WriteError, Value, Place
  <2> QED BY <1>0, <2>1, <2>3, <2>4, <2>5 DEF TypeOK
<1> QED BY <1>1, <1>2

\* A process that ends leaves typed memory behind.
LEMMA ForgetsTyped ==
  ASSUME disk' \in CheckpointRecord, rejected' \in BOOLEAN,
         attempt' \in 0..MaxAttempts, faults' \in 0..MaxFaults,
         ints' \in 0..MaxInterrupts, Forgets
  PROVE  TypeOK'
BY DEF TypeOK, Forgets, CheckpointRecord, Place, Value, Event, PoolRecord, NoPool

\* The first checkpoint of a process keeps the types.
LEMMA SetupTyped ==
  ASSUME TypeOK, NEW tr \in [Node -> NodeRecord], NEW ix \in Nat,
         NEW i \in BOOLEAN, attempt < MaxAttempts, Setup(tr, ix, i)
  PROVE  TypeOK'
<1>1. attempt' \in 0..MaxAttempts /\ rejected' \in BOOLEAN
  BY BoundAssumption DEF TypeOK, Setup
<1>2. PICK w \in Writes(TRUE) :
       /\ disk' = IF Replaces(w) THEN Checkpoint(tr, "running", ix) ELSE disk
       /\ faults' = IF w \in {"lost", "half"} THEN faults + 1 ELSE faults
       /\ ints' = IF w \in {"stop", "late"} THEN ints + 1 ELSE ints
       /\ IF w = "ok"
          THEN /\ proc' = "run" /\ tree' = tr /\ status' = "running"
               /\ index' = ix /\ rebind' = i
               /\ UNCHANGED <<poisoned, frames, seen, log>>
          ELSE Forgets
  BY DEF Setup
<1>3. /\ disk' \in CheckpointRecord
      /\ faults' \in 0..MaxFaults /\ ints' \in 0..MaxInterrupts
  BY <1>2, BoundAssumption
     DEF Writes, TypeOK, Replaces, Checkpoint, CheckpointRecord, Statuses
<1>4. CASE w = "ok"
  BY <1>1, <1>2, <1>3, <1>4 DEF TypeOK, frames, Statuses
<1>5. CASE w # "ok"
  BY <1>1, <1>2, <1>3, <1>5, ForgetsTyped
<1> QED BY <1>4, <1>5

\* Every step of a frame keeps the types.
LEMMA StepTyped ==
  ASSUME TypeOK, NEW n \in Node, StepOf(n)
  PROVE  TypeOK'
<1> USE DEF TypeOK
<1>0. tree[n] \in NodeRecord /\ pool[n] \in PoolRecord
  OBVIOUS
<1>1. CASE Replay(n)
  BY <1>1, TreeAssumption
     DEF Replay, Enters, Shows, Goes, budget, Place, Value
<1>2. CASE ReplayAborted(n)
  BY <1>2, TreeAssumption
     DEF ReplayAborted, Enters, Shows, Goes, budget, Place, Value, Halting
<1>3. CASE Begin(n)
  <2>1. Begun(n) \in NodeRecord
    BY <1>0 DEF Begun, NodeRecord
  <2>2. index' \in Nat /\ main' \in [Node -> BOOLEAN]
    BY <1>3, TreeAssumption DEF Begin, Enters
  <2>3. pool' \in [Node -> PoolRecord]
    BY <1>3 DEF Begin
  <2>4. "begun" \in Place /\ "none" \in Value /\ "started" \in Event
          /\ "none" \in Event
    BY DEF Place, Value, Event
  <2> QED BY <1>3, <2>1, <2>2, <2>3, <2>4, TransitionTyped DEF Begin
<1>4. CASE Notify(n)
  <2>1. log' \subseteq Event \X Node
    BY <1>4 DEF Notify
  <2> QED BY <1>4, <2>1, BoundAssumption
          DEF Notify, Goes, Owes, Place, Value, Event
<1>5. CASE Execute(n)
  BY <1>5, BoundAssumption DEF Execute, Answers, Goes, Place, Value, Halting
<1>6. CASE Reenter(n)
  <2>1. 1..PoolSize(n) \subseteq Nat
    BY PoolSizeNat
  <2>2. pool' \in [Node -> PoolRecord]
    BY <1>6, <2>1 DEF Reenter, PoolRecord, NoPool
  <2> QED BY <1>6, <2>2 DEF Reenter, Shows, Goes, budget, Place, Value
<1>7. CASE Expand(n)
  <2>1. PICK ks \in Selections(n) :
          Transition(n, "expand",
            [tree[n] EXCEPT !.result = "completed", !.kids = ks,
                            !.phase = "children"],
            TRUE, "begun", "none", "completed")
    BY <1>7 DEF Expand
  <2>2. [tree[n] EXCEPT !.result = "completed", !.kids = ks,
                        !.phase = "children"] \in NodeRecord
    BY <1>0, SelectionsTyped DEF NodeRecord
  <2>3. "begun" \in Place /\ "none" \in Value /\ "completed" \in Event
    BY DEF Place, Value, Event
  <2> QED BY <1>7, <2>1, <2>2, <2>3, TransitionTyped DEF Expand
<1>8. CASE Iterate(n)
  <2>1. PICK s \in Slots(n) :
          Transition(n, "iterate", [tree[n] EXCEPT !.kids = @ \union {s}],
            FALSE, "kids", "none", "none")
    BY <1>8 DEF Iterate
  <2>2. [tree[n] EXCEPT !.kids = @ \union {s}] \in NodeRecord
    BY <1>0, SlotsTyped DEF NodeRecord
  <2>3. "kids" \in Place /\ "none" \in Value /\ "none" \in Event
    BY DEF Place, Value, Event
  <2> QED BY <1>8, <2>1, <2>2, <2>3, TransitionTyped DEF Iterate
<1>9. CASE Bind(n)
  <2>1. [tree[n] EXCEPT !.bound = TRUE, !.kids = {1}, !.phase = "children"]
          \in NodeRecord
    BY <1>0, <1>9, SlotsTyped, SlotAssumption DEF NodeRecord, Bind
  <2>2. "kids" \in Place /\ "none" \in Value /\ "none" \in Event
    BY DEF Place, Value, Event
  <2> QED BY <1>9, <2>1, <2>2, TransitionTyped DEF Bind
<1>10. CASE BindFails(n)
  BY <1>10 DEF BindFails, Goes, budget, Place, Value, Halting
<1>11. CASE Rebind(n)
  <2>1. "kids" \in Place /\ "none" \in Value /\ "none" \in Event
    BY DEF Place, Value, Event
  <2> QED BY <1>0, <1>11, <2>1, TransitionTyped DEF Rebind
<1>12. CASE EnterBound(n)
  BY <1>12, BoundAssumption DEF EnterBound, Goes, Place, Value
<1>13. CASE Outputs(n)
  <2>1. [tree[n] EXCEPT !.phase = "outputs"] \in NodeRecord
    BY <1>0 DEF NodeRecord
  <2>2. "outs" \in Place /\ "none" \in Value /\ "none" \in Event
    BY DEF Place, Value, Event
  <2> QED BY <1>13, <2>1, <2>2, TransitionTyped DEF Outputs
<1>14. CASE EvaluateOutputs(n)
  BY <1>14 DEF EvaluateOutputs, Goes, budget, Place, Value, Halting
<1>15. CASE Finish(n)
  <2>1. res[n] \in {"completed", "failed", "paused", "aborted", "missing"}
    BY <1>15 DEF Finish, Halting
  <2>2. Finished(n, res[n]) \in NodeRecord /\ OutcomeOf(n, res[n]) \in Value
    BY <1>0, <2>1 DEF Finished, OutcomeOf, NodeRecord, Value, Halting
  <2>3. "back" \in Place /\ "failed" \in Event /\ "completed" \in Event
    BY DEF Place, Value, Event
  <2> QED BY <1>15, <2>2, <2>3, TransitionTyped DEF Finish
<1>16. CASE Settle(n)
  <2>1. res[n] \in {"completed", "failed", "paused", "aborted"}
    BY <1>16 DEF Settle, Halting
  <2>2. Settled(n, res[n]) \in NodeRecord /\ res[n] \in Value
    BY <1>0, <2>1 DEF Settled, NodeRecord, Halting
  <2>3. "back" \in Place /\ "none" \in Event
    BY DEF Place, Event
  <2> QED BY <1>16, <2>2, <2>3, TransitionTyped DEF Settle
<1>17. CASE ChildrenCompleted(n)
  BY <1>17 DEF ChildrenCompleted, Goes, budget, Place, Value
<1>18. CASE ChildrenStopped(n)
  BY <1>18 DEF ChildrenStopped, Goes, budget, Place, Value, Stops, Raising
<1>19. CASE Leave(n)
  <2>1. [tree EXCEPT ![n].active = FALSE] \in [Node -> NodeRecord]
    BY <1>0 DEF NodeRecord
  <2> QED BY <1>19, <2>1 DEF Leave, Goes, budget, Place, Value
<1>20. CASE Collect(n)
  <2>1. pool' \in [Node -> PoolRecord]
    BY <1>0, <1>20, PoolSizeNat DEF Collect, PoolRecord
  <2> QED BY <1>20, <2>1
          DEF Collect, PoolVars, Goes, budget, Place, Value, Stops, Raising,
              Halting
<1>21. CASE Drained(n)
  BY <1>21 DEF Drained, PoolVars, Goes, budget, Place, Value
<1>22. CASE \E s \in Slots(n) : StartItem(n, s) \/ ReturnItem(n, s)
  <2>1. PICK s \in Slots(n) : StartItem(n, s) \/ ReturnItem(n, s)
    BY <1>22
  <2>2. s \in Nat
    BY SlotsTyped
  <2>3. CASE StartItem(n, s)
    BY <1>0, <2>2, <2>3 DEF StartItem, PoolRecord, PoolVars, budget
  <2>4. CASE ReturnItem(n, s)
    <3> DEFINE h == pool[n].halted \/ ItemStops(n, s)
    <3>1. h \in BOOLEAN
      OBVIOUS
    <3>2. pool' = [pool EXCEPT ![n].finished = @ \union {s}, ![n].halted = h]
      BY <2>4 DEF ReturnItem
    <3> HIDE DEF h
    <3>3. pool' \in [Node -> PoolRecord]
      BY <1>0, <2>2, <3>1, <3>2 DEF PoolRecord
    <3> QED BY <2>4, <3>3 DEF ReturnItem, PoolVars, budget
  <2> QED BY <2>1, <2>3, <2>4
<1> QED BY <1>1, <1>2, <1>3, <1>4, <1>5, <1>6, <1>7, <1>8, <1>9, <1>10, <1>11,
           <1>12, <1>13, <1>14, <1>15, <1>16, <1>17, <1>18, <1>19, <1>20,
           <1>21, <1>22
        DEF StepOf

\* Every step keeps the types.
LEMMA NextTyped ==
  ASSUME TypeOK, [Next]_vars
  PROVE  TypeOK'
<1> USE DEF TypeOK
<1>1. CASE Start
  <2>1. Untouched \in [Node -> NodeRecord]
    BY DEF Untouched, Fresh, NodeRecord
  <2> QED BY <1>1, <2>1, SetupTyped DEF Start
<1>2. CASE Resume
  <2>1. disk.tree \in [Node -> NodeRecord] /\ disk.index \in Nat
    BY DEF CheckpointRecord
  <2> QED BY <1>2, <2>1, SetupTyped DEF Resume
<1>3. CASE RootReturns
  BY <1>3 DEF RootReturns, budget, frames, Statuses, Halting
<1>4. CASE RootInterrupt
  BY <1>4, BoundAssumption DEF RootInterrupt, frames, Statuses, Halting
<1>5. CASE Close
  <2>1. disk' \in CheckpointRecord /\ rejected' \in BOOLEAN
          /\ attempt' \in 0..MaxAttempts
    BY <1>5 DEF Close, Checkpoint, CheckpointRecord, FinalStatus, Statuses
  <2>2. faults' \in 0..MaxFaults /\ ints' \in 0..MaxInterrupts
    BY <1>5, BoundAssumption DEF Close, Writes
  <2> QED BY <1>5, <2>1, <2>2, ForgetsTyped DEF Close
<1>6. CASE GivesUp
  BY <1>6, ForgetsTyped DEF GivesUp, budget
<1>7. CASE Killed
  BY <1>7, BoundAssumption, ForgetsTyped DEF Killed
<1>8. CASE \E n \in Node : StepOf(n) \/ Interrupt(n)
  <2>1. PICK n \in Node : StepOf(n) \/ Interrupt(n)
    BY <1>8
  <2>2. CASE StepOf(n)
    BY <2>2, StepTyped
  <2>3. CASE Interrupt(n)
    BY <2>3, BoundAssumption DEF Interrupt, Goes, Owes, Place, Value, Event
  <2> QED BY <2>1, <2>2, <2>3
<1>9. CASE UNCHANGED vars
  BY <1>9 DEF vars, budget, frames
<1> QED BY <1>1, <1>2, <1>3, <1>4, <1>5, <1>6, <1>7, <1>8, <1>9 DEF Next

\* Every variable keeps its type: checkpoints, frames and pools are always
\* well-formed values.
THEOREM TypeCorrect == Spec => []TypeOK
<1>1. Init => TypeOK
  <2> SUFFICES ASSUME Init PROVE TypeOK
    OBVIOUS
  <2>1. Untouched \in [Node -> NodeRecord] /\ NoPool \in PoolRecord
    BY DEF Untouched, Fresh, NodeRecord, PoolRecord, NoPool
  <2>2. Checkpoint(Untouched, "created", 0) \in CheckpointRecord
    BY <2>1 DEF Checkpoint, CheckpointRecord, Statuses
  <2>3. /\ tree \in [Node -> NodeRecord] /\ disk \in CheckpointRecord
        /\ status \in Statuses /\ index \in Nat
    BY <2>1, <2>2 DEF Init, Statuses
  <2>4. /\ poisoned \in BOOLEAN /\ rejected \in BOOLEAN /\ rebind \in BOOLEAN
        /\ proc \in {"none", "run", "final", "saving"}
    BY DEF Init
  <2>5. /\ attempt \in 0..MaxAttempts
        /\ faults \in 0..MaxFaults /\ ints \in 0..MaxInterrupts
    <3>1. attempt = 0 /\ faults = 0 /\ ints = 0
      BY DEF Init
    <3> QED BY <3>1, BoundAssumption
  <2>6. /\ pc \in [Node -> Place] /\ res \in [Node -> Value]
        /\ note \in [Node -> Event] /\ main \in [Node -> BOOLEAN]
        /\ pool \in [Node -> PoolRecord]
    BY <2>1 DEF Init, Place, Value, Event
  <2>7. seen \subseteq Node /\ log \subseteq Event \X Node
    BY DEF Init
  <2> QED BY <2>3, <2>4, <2>5, <2>6, <2>7 DEF TypeOK
<1>2. TypeOK /\ [Next]_vars => TypeOK'
  BY NextTyped
<1> QED BY <1>1, <1>2, PTL DEF Spec

-----------------------------------------------------------------------------
(* The inductive invariant                                                   *)
(* Frames are tied to the tree, the checkpoint never gets ahead of memory,   *)
(* and both trees are sound at all times, so that whichever of the two a     *)
(* failure leaves behind can be resumed.                                     *)

Behind(n, tr) == \A m \in Earlier(n) : tr[m].phase = "done"

SoundAt(n, tr) ==
  /\ CheckNode(n, tr[n], tr)
  /\ Kind[n] # "call" /\ tr[n].phase \in {"ready", "blocked"} => tr[n].kids = {}
  /\ tr[n].phase # "ready" => Behind(n, tr)
  /\ tr[n].outcome = "aborted" => ~tr[n].active

Sound(tr) == \A n \in Node : SoundAt(n, tr)

FramedAt(n, where, value) ==
  /\ where # "idle" => Behind(n, tree)
  /\ where = "ran" /\ Kind[n] # "call" => tree[n].phase \in {"ready", "blocked"}
  /\ where = "outs" => Kind[n] = "call"
  /\ where = "raise" => value \in Raising
  /\ where = "back" /\ value = "completed" => tree[n].phase = "done"
  /\ tree[n].outcome = "aborted" => where \in {"idle", "back", "raise"}

Framed == \A n \in Node : FramedAt(n, pc[n], res[n])

\* How the record of an occurrence may move on: nothing selected or bound is
\* dropped, nothing completed is undone, and an abort is the end.
Advances(n, old, new) ==
  /\ old.kids \subseteq new.kids /\ (old.bound => new.bound)
  /\ Kind[n] # "call" /\ old.result = "completed" => new.result = "completed"
  /\ old.phase = "done" => new.phase = "done"
  /\ old.outcome = "aborted" => new = old

Ahead == \A n \in Node : Advances(n, disk.tree[n], tree[n])

\* The same of a step and the checkpoint: what is stored only moves on.
Progress == \A n \in Node : Advances(n, disk.tree[n], disk'.tree[n])

Owing == \A n \in Node : note[n] # "none" => pc[n] # "idle"

Quiet ==
  /\ proc = "none" => ~poisoned /\ \A n \in Node : pc[n] = "idle"
  /\ attempt = 0 => proc = "none" /\ disk.tree = Untouched

Kept == Sound(tree) /\ Sound(disk.tree) /\ Framed /\ Ahead /\ Owing /\ Quiet

IInv == TypeOK /\ Kept

-----------------------------------------------------------------------------
(* Trees *)

\* A tree nobody worked on is sound.
LEMMA FreshIsSound == Sound(Untouched)
BY DEF Sound, SoundAt, Untouched, Fresh, CheckNode

\* Replacing the record of one occurrence that is not done by a candidate that
\* passes its own check leaves a sound tree: checking one node is enough.
LEMMA ReplaceIsSound ==
  ASSUME NEW tr \in [Node -> NodeRecord], Sound(tr), NEW n \in Node,
         NEW c \in NodeRecord, tr[n].phase # "done", CheckNode(n, c, tr),
         Kind[n] # "call" /\ c.phase \in {"ready", "blocked"} => c.kids = {},
         c.phase # "ready" => Behind(n, tr),
         c.outcome = "aborted" => ~c.active
  PROVE  Sound([tr EXCEPT ![n] = c])
<1> DEFINE new == [tr EXCEPT ![n] = c]
<1>1. new[n] = c /\ \A m \in Node \ {n} : new[m] = tr[m]
  OBVIOUS
<1>2. \A k \in Node : tr[k].phase = "done" => new[k].phase = "done"
  BY <1>1
<1> HIDE DEF new
<1>3. ASSUME NEW m \in Node, m # n PROVE SoundAt(m, new)
  <2>1. SoundAt(m, tr) /\ new[m] = tr[m]
    BY <1>1, <1>3 DEF Sound
  <2>2. CheckNode(m, new[m], new)
    BY <1>2, <2>1 DEF SoundAt, CheckNode, ChildrenOf
  <2>3. Behind(m, tr) => Behind(m, new)
    BY <1>2 DEF Behind, Earlier
  <2> QED BY <2>1, <2>2, <2>3 DEF SoundAt
<1>4. SoundAt(n, new)
  <2>1. CheckNode(n, c, new)
    BY <1>2 DEF CheckNode, ChildrenOf
  <2>2. Behind(n, tr) => Behind(n, new)
    BY <1>2 DEF Behind, Earlier
  <2> QED BY <1>1, <2>1, <2>2 DEF SoundAt
<1> QED BY <1>3, <1>4 DEF Sound, new

\* Standing still is an advance.
LEMMA AdvancesReflexive ==
  ASSUME NEW n, NEW nd PROVE Advances(n, nd, nd)
BY DEF Advances

\* Two advances in a row are one.
LEMMA AdvancesTransitive ==
  ASSUME NEW n, NEW x, NEW y, NEW z, Advances(n, x, y), Advances(n, y, z)
  PROVE  Advances(n, x, z)
BY DEF Advances

-----------------------------------------------------------------------------
(* Steps of a frame *)

\* A frame moves and the trees stand.
LEMMA MoveKeeps ==
  ASSUME IInv, NEW n \in Node, NEW where, NEW value, Goes(n, where, value),
         FramedAt(n, where, value), proc # "none", where # "idle",
         \A m \in Node \ {n} : note'[m] = note[m],
         UNCHANGED <<tree, disk, proc, attempt>>
  PROVE  Kept' /\ Progress
<1>1. \A m \in Node : pc'[m] = (IF m = n THEN where ELSE pc[m])
                   /\ res'[m] = (IF m = n THEN value ELSE res[m])
  BY DEF Goes, IInv, TypeOK
<1>2. Framed'
  BY <1>1 DEF IInv, Kept, Framed, FramedAt, Behind
<1>3. Owing'
  BY <1>1 DEF IInv, Kept, Owing
<1>4. Progress
  BY AdvancesReflexive DEF Progress
<1> QED BY <1>2, <1>3, <1>4
        DEF IInv, Kept, Sound, SoundAt, Behind, CheckNode, Ahead, Advances, Quiet

\* A transition that asks for an advance keeps both trees sound, whatever
\* becomes of its checkpoint.
LEMMA TransitionKeeps ==
  ASSUME IInv, NEW n \in Node, NEW op, NEW c \in NodeRecord, NEW p, NEW where,
         NEW v, NEW e, Transition(n, op, c, p, where, v, e), proc # "none",
         op \in {"begin", "expand", "bind", "rebind", "iterate", "outputs",
                 "finish", "settle"},
         Behind(n, tree), tree[n].outcome # "aborted",
         tree[n].phase \in From(op) =>
           /\ Advances(n, tree[n], c)
           /\ Kind[n] # "call" /\ c.phase \in {"ready", "blocked"} => c.kids = {},
         c.outcome = "aborted" => ~c.active /\ where = "back",
         where \in {"begun", "kids", "outs", "back"},
         where = "outs" => Kind[n] = "call",
         where = "back" /\ v = "completed" => c.phase = "done"
  PROVE  Kept' /\ Progress
<1>0. TypeOK /\ Kept /\ UNCHANGED <<proc, attempt>>
  BY DEF IInv, Transition
<1>1. CASE poisoned \/ tree[n].phase \notin From(op) \/ ~CheckNode(n, c, tree)
  <2>1. Goes(n, "raise", "raised") /\ UNCHANGED <<tree, disk, note>>
    BY <1>1 DEF Transition
  <2>2. FramedAt(n, "raise", "raised")
    BY DEF FramedAt, Raising
  <2> QED BY <1>0, <2>1, <2>2, MoveKeeps
<1>2. CASE ~(poisoned \/ tree[n].phase \notin From(op) \/ ~CheckNode(n, c, tree))
  <2>1. tree' = [tree EXCEPT ![n] = c] /\ tree[n].phase # "done" /\ CheckNode(n, c, tree)
    BY <1>2 DEF Transition, From
  <2>2. PICK w \in Writes(main'[n]) :
               /\ Save(w, tree', status, index')
               /\ IF w = "ok"
                  THEN Goes(n, where, v) /\ Owes(n, e)
                  ELSE Goes(n, "raise", WriteError(w)) /\ UNCHANGED note
    BY <1>2 DEF Transition
  <2>3. tree'[n] = c /\ \A m \in Node \ {n} : tree'[m] = tree[m]
    BY <1>0, <2>1 DEF TypeOK
  <2>4. Sound(tree')
    <3>1. tree \in [Node -> NodeRecord] /\ Sound(tree)
      BY <1>0 DEF TypeOK, Kept
    <3> QED BY <1>2, <2>1, <3>1, ReplaceIsSound
  <2>5. \A m \in Node : Advances(m, tree[m], tree'[m])
    BY <1>2, <2>3, AdvancesReflexive
  <2>6. \A m \in Node : Advances(m, disk.tree[m], tree'[m])
    BY <1>0, <2>5, AdvancesTransitive DEF Kept, Ahead
  <2>7. disk'.tree = tree' \/ disk'.tree = disk.tree
    BY <2>2 DEF Save, Checkpoint
  <2>8. Sound(disk'.tree) /\ \A m \in Node : Advances(m, disk'.tree[m], tree'[m])
    BY <1>0, <2>4, <2>6, <2>7, AdvancesReflexive DEF Kept
  <2>9. Framed'
    <3>1. \A m \in Node : tree[m].phase = "done" => tree'[m].phase = "done"
      BY <2>5 DEF Advances
    <3>2. \A m \in Node : Behind(m, tree) => Behind(m, tree')
      BY <3>1 DEF Behind, Earlier
    <3>3. \A m \in Node \ {n} : pc'[m] = pc[m] /\ res'[m] = res[m]
      BY <1>0, <2>2 DEF Goes, TypeOK
    <3>4. ASSUME NEW m \in Node, m # n PROVE FramedAt(m, pc[m], res[m])'
      <4>1. FramedAt(m, pc[m], res[m]) /\ pc'[m] = pc[m] /\ res'[m] = res[m]
            /\ tree'[m] = tree[m]
        BY <1>0, <2>3, <3>3, <3>4 DEF Kept, Framed
      <4> QED BY <3>2, <4>1 DEF FramedAt, Behind
    <3>5. FramedAt(n, pc[n], res[n])'
      <4>1. Behind(n, tree)'
        BY <3>2 DEF Behind
      <4>2. CASE w = "ok"
        <5>1. pc'[n] = where /\ res'[n] = v
          BY <1>0, <2>2, <4>2 DEF Goes, TypeOK
        <5> QED BY <2>3, <4>1, <5>1 DEF FramedAt
      <4>3. CASE w # "ok"
        <5>1. pc'[n] = "raise" /\ res'[n] \in Raising
          BY <1>0, <2>2, <4>3 DEF Goes, TypeOK, WriteError, Raising
        <5> QED BY <4>1, <5>1 DEF FramedAt, Raising
      <4> QED BY <4>2, <4>3
    <3> QED BY <3>4, <3>5 DEF Framed
  <2>10. Quiet' /\ Owing'
    BY <1>0, <2>2 DEF Kept, Quiet, Owing, Goes, Owes, TypeOK
  <2>11. Progress
    BY <2>6, <2>7, AdvancesReflexive DEF Progress
  <2> QED BY <2>4, <2>8, <2>9, <2>10, <2>11
          DEF Kept, Ahead, Sound, SoundAt, Behind, CheckNode
<1> QED BY <1>1, <1>2

\* A frame that is entered finds everything before it done.
LEMMA EntersBehind ==
  ASSUME IInv, NEW n \in Node, Enters(n)
  PROVE  Behind(n, tree) /\ proc = "run" /\ pc[n] = "idle"
BY DEF IInv, Kept, Framed, FramedAt, Enters, Turn, Returned, Behind, Earlier

\* Leaving forgets the activity in memory and nothing else.
LEMMA LeaveKeeps ==
  ASSUME IInv, NEW n \in Node, Leave(n), proc # "none"
  PROVE  Kept' /\ Progress
<1>0. TypeOK /\ Kept /\ pc[n] = "raise"
  BY DEF IInv, Leave
<1>1. /\ \A m \in Node : pc'[m] = (IF m = n THEN "back" ELSE pc[m]) /\ res'[m] = res[m]
      /\ UNCHANGED <<disk, poisoned, proc, attempt, note>>
  BY <1>0 DEF Leave, Goes, TypeOK, budget
<1>2. CASE poisoned
  <2>1. Goes(n, "back", res[n]) /\ UNCHANGED tree
    BY <1>2 DEF Leave
  <2>2. FramedAt(n, "back", res[n])
    BY <1>0 DEF Kept, Framed, FramedAt, Raising
  <2> QED BY <1>1, <2>1, <2>2, MoveKeeps
<1>3. CASE ~poisoned
  <2>1. tree' = [tree EXCEPT ![n].active = FALSE]
    BY <1>3 DEF Leave
  <2>2. ASSUME NEW m \in Node
        PROVE  /\ tree'[m].phase = tree[m].phase /\ tree'[m].result = tree[m].result
               /\ tree'[m].outcome = tree[m].outcome /\ tree'[m].kids = tree[m].kids
               /\ tree'[m].bound = tree[m].bound
               /\ tree'[m].active => tree[m].active
               /\ tree[m].active = FALSE => tree'[m] = tree[m]
    BY <1>0, <2>1 DEF TypeOK, NodeRecord
  <2>3. \A m \in Node : Behind(m, tree) => Behind(m, tree')
    BY <2>2 DEF Behind, Earlier
  <2>4. Sound(tree')
    <3>1. ASSUME NEW m \in Node PROVE SoundAt(m, tree')
      <4>1. SoundAt(m, tree)
        BY <1>0 DEF Kept, Sound
      <4>2. CheckNode(m, tree'[m], tree')
        <5>1. ChildrenOf(m, tree'[m]) = ChildrenOf(m, tree[m])
          BY <2>2 DEF ChildrenOf
        <5>2. HandledChildFailure(m, tree'[m]) <=> HandledChildFailure(m, tree[m])
          BY <2>2 DEF HandledChildFailure
        <5>3. (\A x \in ChildrenOf(m, tree[m]) : tree[x].phase = "done")
              => \A x \in ChildrenOf(m, tree'[m]) : tree'[x].phase = "done"
          BY <2>2, <5>1 DEF ChildrenOf
        <5> QED BY <2>2, <4>1, <5>2, <5>3 DEF SoundAt, CheckNode
      <4> QED BY <2>2, <2>3, <4>1, <4>2 DEF SoundAt
    <3> QED BY <3>1 DEF Sound
  <2>5. Framed'
    <3>1. ASSUME NEW m \in Node PROVE FramedAt(m, pc[m], res[m])'
      <4>1. FramedAt(m, pc[m], res[m]) /\ FramedAt(n, pc[n], res[n])
        BY <1>0 DEF Kept, Framed
      <4> QED BY <1>0, <1>1, <2>2, <2>3, <4>1 DEF FramedAt, Behind, Raising
    <3> QED BY <3>1 DEF Framed
  <2>6. Ahead'
    <3>1. ASSUME NEW m \in Node PROVE Advances(m, tree[m], tree'[m])
      <4>1. tree[m].active \in BOOLEAN /\ (tree[m].outcome = "aborted" => ~tree[m].active)
        BY <1>0 DEF TypeOK, NodeRecord, Kept, Sound, SoundAt
      <4> QED BY <2>2, <4>1 DEF Advances
    <3> QED BY <1>0, <1>1, <3>1, AdvancesTransitive DEF Kept, Ahead
  <2>7. Progress
    BY <1>1, AdvancesReflexive DEF Progress
  <2> QED BY <1>0, <1>1, <2>4, <2>5, <2>6, <2>7
          DEF Kept, Sound, SoundAt, Behind, CheckNode, Owing, Quiet
<1> QED BY <1>2, <1>3

\* Every step of a frame keeps the invariant and the stored progress.
LEMMA StepKeeps ==
  ASSUME IInv, NEW n \in Node, StepOf(n)
  PROVE  Kept' /\ Progress
<1>0. /\ TypeOK /\ Kept /\ tree[n] \in NodeRecord
      /\ SoundAt(n, tree) /\ FramedAt(n, pc[n], res[n])
  BY DEF IInv, Kept, Sound, Framed, TypeOK
<1>p. pc[n] # "idle" \/ note[n] # "none" => proc # "none" /\ pc[n] # "idle" /\ Behind(n, tree)
  BY <1>0 DEF Kept, Quiet, Owing, FramedAt
<1>1. CASE Replay(n)
  <2>1. Goes(n, IF Kind[n] # "call" /\ tree[n].kids # {} THEN "kids" ELSE "back", "completed")
        /\ UNCHANGED <<tree, disk, proc, attempt, note>> /\ tree[n].phase = "done"
        /\ Enters(n)
    BY <1>1 DEF Replay, budget
  <2>2. tree[n].outcome # "aborted"
    BY <1>0, <2>1 DEF SoundAt, CheckNode
  <2> QED BY <2>1, <2>2, EntersBehind, MoveKeeps DEF FramedAt
<1>2. CASE ReplayAborted(n)
  BY <1>2, EntersBehind, MoveKeeps DEF ReplayAborted, budget, FramedAt
<1>3. CASE Begin(n)
  <2>1. Begun(n) \in NodeRecord
    BY <1>0 DEF Begun, NodeRecord
  <2>2. Advances(n, tree[n], Begun(n)) /\ Begun(n).outcome # "aborted"
    BY <1>0, <1>3 DEF Begun, Begin, Advances, NodeRecord
  <2>3. Kind[n] # "call" /\ Begun(n).phase \in {"ready", "blocked"} => Begun(n).kids = {}
    BY <1>0 DEF Begun, SoundAt, NodeRecord
  <2>4. PICK e : Transition(n, "begin", Begun(n), FALSE, "begun", "none", e)
    BY <1>3 DEF Begin
  <2>5. Behind(n, tree) /\ proc # "none" /\ tree[n].outcome # "aborted"
    BY <1>3, EntersBehind DEF Begin
  <2> QED BY <2>1, <2>2, <2>3, <2>4, <2>5, TransitionKeeps
<1>4. CASE Notify(n)
  <2>1. /\ \A m \in Node \ {n} : note'[m] = note[m]
        /\ UNCHANGED <<tree, disk, proc, attempt>> /\ note[n] # "none"
    BY <1>0, <1>4 DEF Notify, Owes, TypeOK
  <2>2. CASE UNCHANGED <<pc, res>>
    <3>1. Goes(n, pc[n], res[n])
      BY <1>0, <2>2 DEF Goes, TypeOK
    <3> QED BY <1>0, <1>p, <2>1, <3>1, MoveKeeps
  <2>3. CASE Goes(n, "raise", "raised")
    BY <1>p, <1>0, <2>1, <2>3, MoveKeeps DEF FramedAt, Raising
  <2> QED BY <1>4, <2>2, <2>3 DEF Notify
<1>5. CASE Execute(n)
  <2>1. PICK r : Goes(n, IF r = "raised" THEN "raise" ELSE "ran", r)
    BY <1>5 DEF Execute
  <2>2. /\ UNCHANGED <<tree, disk, proc, attempt, note>> /\ pc[n] = "begun"
        /\ tree[n].phase \in {"ready", "blocked"}
    BY <1>5 DEF Execute
  <2> QED BY <1>0, <1>p, <2>1, <2>2, MoveKeeps DEF FramedAt, Raising
<1>6. CASE Reenter(n)
  BY <1>0, <1>p, <1>6, MoveKeeps DEF Reenter, budget, FramedAt
<1>7. CASE Expand(n)
  <2>1. PICK ks \in Selections(n) :
          Transition(n, "expand",
            [tree[n] EXCEPT !.result = "completed", !.kids = ks,
                            !.phase = "children"],
            TRUE, "begun", "none", "completed")
    BY <1>7 DEF Expand
  <2> DEFINE c == [tree[n] EXCEPT !.result = "completed", !.kids = ks, !.phase = "children"]
  <2>2. Kind[n] # "call"
    BY DEF Selections
  <2>3. /\ c \in NodeRecord /\ c.phase = "children" /\ c.outcome = tree[n].outcome
        /\ c.kids = ks /\ c.bound = tree[n].bound /\ c.result = "completed"
    BY <1>0, SelectionsTyped DEF NodeRecord
  <2>4. tree[n].phase \in {"ready", "blocked"} /\ tree[n].kids = {}
        /\ tree[n].outcome # "aborted"
    BY <1>0, <1>7, <2>2 DEF Expand, FramedAt, SoundAt
  <2> HIDE DEF c
  <2>5. Advances(n, tree[n], c)
    BY <2>3, <2>4 DEF Advances
  <2>6. Transition(n, "expand", c, TRUE, "begun", "none", "completed") /\ pc[n] = "ran"
    BY <1>7, <2>1 DEF c, Expand
  <2> QED BY <1>p, <2>3, <2>4, <2>5, <2>6, TransitionKeeps
<1>8. CASE Iterate(n)
  <2>1. PICK s \in Slots(n) :
          Transition(n, "iterate", [tree[n] EXCEPT !.kids = @ \union {s}],
            FALSE, "kids", "none", "none")
    BY <1>8 DEF Iterate
  <2> DEFINE c == [tree[n] EXCEPT !.kids = @ \union {s}]
  <2>2. /\ c \in NodeRecord /\ c.phase = tree[n].phase /\ c.outcome = tree[n].outcome
        /\ tree[n].kids \subseteq c.kids /\ c.bound = tree[n].bound
        /\ c.result = tree[n].result
    BY <1>0, SlotsTyped DEF NodeRecord
  <2> HIDE DEF c
  <2>3. tree[n].outcome # "aborted" /\ pc[n] = "kids"
    BY <1>0, <1>8 DEF Iterate, FramedAt
  <2>4. Advances(n, tree[n], c)
    BY <2>2, <2>3 DEF Advances
  <2>5. Transition(n, "iterate", c, FALSE, "kids", "none", "none")
    BY <2>1 DEF c
  <2>6. tree[n].phase \in From("iterate") => c.phase = "children"
    BY <2>2 DEF From
  <2> QED BY <1>p, <2>2, <2>3, <2>4, <2>5, <2>6, TransitionKeeps
<1>9. CASE Bind(n)
  <2> DEFINE c == [tree[n] EXCEPT !.bound = TRUE, !.kids = {1}, !.phase = "children"]
  <2>1. c \in NodeRecord
    BY <1>0, <1>9, SlotsTyped, SlotAssumption DEF NodeRecord, Bind
  <2>2. Kind[n] = "call" /\ ~tree[n].bound /\ pc[n] = "begun" /\ tree[n].outcome # "aborted"
    BY <1>0, <1>9 DEF Bind, FramedAt
  <2>3. tree[n].kids = {}
    BY <1>0, <2>2 DEF SoundAt, CheckNode
  <2>4. c.bound = TRUE /\ c.phase = "children" /\ c.outcome = tree[n].outcome
    BY <1>0 DEF NodeRecord
  <2>5. Transition(n, "bind", c, FALSE, "kids", "none", "none")
    BY <1>9 DEF Bind
  <2> HIDE DEF c
  <2>6. tree[n].phase \in From("bind") => Advances(n, tree[n], c)
    BY <2>2, <2>3, <2>4 DEF Advances, From
  <2> QED BY <1>p, <2>1, <2>2, <2>4, <2>5, <2>6, TransitionKeeps
<1>10. CASE BindFails(n)
  BY <1>0, <1>p, <1>10, MoveKeeps DEF BindFails, budget, FramedAt
<1>11. CASE Rebind(n)
  <2>1. Kind[n] = "call" /\ pc[n] = "begun" /\ tree[n].outcome # "aborted"
    BY <1>0, <1>11 DEF Rebind, FramedAt
  <2>2. Transition(n, "rebind", tree[n], FALSE, "kids", "none", "none")
    BY <1>11 DEF Rebind
  <2> QED BY <1>0, <1>p, <2>1, <2>2, AdvancesReflexive, TransitionKeeps
<1>12. CASE EnterBound(n)
  <2>1. /\ UNCHANGED <<tree, disk, proc, attempt, note>> /\ pc[n] = "begun"
        /\ Goes(n, "kids", "none") \/ Goes(n, "raise", "raised")
    BY <1>12 DEF EnterBound
  <2> QED BY <1>0, <1>p, <2>1, MoveKeeps DEF FramedAt, Raising
<1>13. CASE Outputs(n)
  <2> DEFINE c == [tree[n] EXCEPT !.phase = "outputs"]
  <2>1. /\ c \in NodeRecord /\ c.phase = "outputs" /\ c.outcome = tree[n].outcome
        /\ c.kids = tree[n].kids /\ c.bound = tree[n].bound /\ c.result = tree[n].result
    BY <1>0 DEF NodeRecord
  <2>2. Kind[n] = "call" /\ pc[n] = "kids" /\ tree[n].outcome # "aborted"
    BY <1>0, <1>13 DEF Outputs, FramedAt
  <2>3. Transition(n, "outputs", c, FALSE, "outs", "none", "none")
    BY <1>13 DEF Outputs
  <2> HIDE DEF c
  <2>4. tree[n].phase \in From("outputs") => Advances(n, tree[n], c)
    BY <2>1, <2>2 DEF Advances, From
  <2> QED BY <1>p, <2>1, <2>2, <2>3, <2>4, TransitionKeeps
<1>14. CASE EvaluateOutputs(n)
  <2>1. /\ UNCHANGED <<tree, disk, proc, attempt, note>> /\ pc[n] = "outs"
        /\ Goes(n, "ran", "completed") \/ Goes(n, "ran", "failed")
    BY <1>14 DEF EvaluateOutputs, budget
  <2>2. Kind[n] = "call" /\ tree[n].outcome # "aborted"
    BY <1>0, <2>1 DEF FramedAt
  <2> QED BY <1>p, <2>1, <2>2, MoveKeeps DEF FramedAt
<1>15. CASE Finish(n)
  <2> DEFINE c == Finished(n, res[n])
             o == OutcomeOf(n, res[n])
  <2>1. /\ c \in NodeRecord /\ c.outcome = o /\ c.active = FALSE
        /\ c.kids = tree[n].kids /\ c.bound = tree[n].bound
        /\ c.phase = IF o = "completed" THEN "done" ELSE "blocked"
    <3>1. res[n] \in {"completed", "failed", "paused", "aborted", "missing"}
      BY <1>15 DEF Finish, Halting
    <3> QED BY <1>0, <3>1 DEF Finished, OutcomeOf, NodeRecord, Halting
  <2>2. pc[n] = "ran" /\ tree[n].outcome # "aborted"
    BY <1>0, <1>15 DEF Finish, FramedAt
  <2>3. PICK p, e : Transition(n, "finish", c, p, "back", o, e)
    BY <1>15 DEF Finish
  <2> HIDE DEF c, o
  <2>4. Kind[n] # "call" => tree[n].kids = {} /\ tree[n].result # "completed"
    BY <1>0, <2>2 DEF FramedAt, SoundAt, CheckNode
  <2>5. tree[n].phase \in From("finish") => Advances(n, tree[n], c)
    BY <2>1, <2>2, <2>4 DEF Advances, From
  <2> QED BY <1>p, <2>1, <2>2, <2>3, <2>4, <2>5, TransitionKeeps
<1>16. CASE Settle(n)
  <2> DEFINE c == Settled(n, res[n])
  <2>1. /\ c \in NodeRecord /\ c.active = FALSE /\ c.result = tree[n].result
        /\ c.kids = tree[n].kids /\ c.bound = tree[n].bound
        /\ c.phase = IF res[n] = "completed" THEN "done" ELSE "children"
    <3>1. res[n] \in {"completed", "failed", "paused", "aborted"}
      BY <1>16 DEF Settle, Halting
    <3> QED BY <1>0, <3>1 DEF Settled, NodeRecord, Halting
  <2>2. pc[n] = "fold" /\ tree[n].outcome # "aborted"
    BY <1>0, <1>16 DEF Settle, FramedAt
  <2>3. PICK p : Transition(n, "settle", c, p, "back", res[n], "none")
    BY <1>16 DEF Settle
  <2> HIDE DEF c
  <2>4. tree[n].phase \in From("settle") => Advances(n, tree[n], c)
    BY <2>1, <2>2 DEF Advances, From
  <2> QED BY <1>p, <2>1, <2>2, <2>3, <2>4, TransitionKeeps
<1>17. CASE ChildrenCompleted(n)
  <2>1. pc[n] = "kids" /\ tree[n].outcome # "aborted"
    BY <1>0, <1>17 DEF ChildrenCompleted, InLine, FramedAt
  <2> QED BY <1>p, <1>17, <2>1, MoveKeeps DEF ChildrenCompleted, budget, FramedAt
<1>18. CASE ChildrenStopped(n)
  <2>1. PICK v \in Stops : Goes(n, IF v \in Raising THEN "raise"
                                   ELSE IF Kind[n] = "call" THEN "ran" ELSE "fold", v)
    BY <1>18 DEF ChildrenStopped
  <2>2. /\ UNCHANGED <<tree, disk, proc, attempt, note>> /\ pc[n] = "kids"
        /\ tree[n].outcome # "aborted"
    BY <1>0, <1>18 DEF ChildrenStopped, InLine, budget, FramedAt
  <2> QED BY <1>p, <2>1, <2>2, MoveKeeps DEF FramedAt
<1>19. CASE Leave(n)
  BY <1>p, <1>19, LeaveKeeps DEF Leave
<1>20. CASE Collect(n) \/ \E s \in Slots(n) : StartItem(n, s) \/ ReturnItem(n, s)
  <2>1. /\ UNCHANGED <<tree, disk, proc, attempt, note>> /\ pc[n] \in {"kids", "drain"}
        /\ UNCHANGED <<pc, res>> \/ \E v : Goes(n, "drain", v)
    BY <1>20 DEF Collect, StartItem, ReturnItem, PoolVars, budget
  <2>2. CASE UNCHANGED <<pc, res>>
    <3>1. Goes(n, pc[n], res[n])
      BY <1>0, <2>2 DEF Goes, TypeOK
    <3> QED BY <1>0, <1>p, <2>1, <3>1, MoveKeeps
  <2>3. ASSUME NEW v, Goes(n, "drain", v) PROVE Kept' /\ Progress
    BY <1>0, <1>p, <2>1, <2>3, MoveKeeps DEF FramedAt
  <2> QED BY <2>1, <2>2, <2>3
<1>21. CASE Drained(n)
  BY <1>0, <1>p, <1>21, MoveKeeps DEF Drained, PoolVars, budget, FramedAt
<1> QED BY <1>1, <1>2, <1>3, <1>4, <1>5, <1>6, <1>7, <1>8, <1>9, <1>10, <1>11,
           <1>12, <1>13, <1>14, <1>15, <1>16, <1>17, <1>18, <1>19, <1>20, <1>21
        DEF StepOf

-----------------------------------------------------------------------------
(* Steps of a process *)

\* A process that ends leaves a run that the next one can go on with.
LEMMA ForgetsKeeps ==
  ASSUME Forgets, Sound(disk'.tree), attempt' # 0
  PROVE  Kept'
<1>1. /\ tree' = disk'.tree /\ proc' = "none" /\ ~poisoned'
      /\ \A n \in Node : pc'[n] = "idle" /\ res'[n] = "none" /\ note'[n] = "none"
  BY DEF Forgets
<1>2. Framed' /\ Owing'
  BY <1>1 DEF Framed, FramedAt, Owing
<1>3. Ahead'
  BY <1>1, AdvancesReflexive DEF Ahead, Advances
<1>4. Quiet'
  BY <1>1 DEF Quiet
<1> QED BY <1>1, <1>2, <1>3, <1>4 DEF Kept, Sound, SoundAt, Behind, CheckNode

\* So does the first checkpoint of a process, written or not.
LEMMA SetupKeeps ==
  ASSUME IInv, NEW tr, NEW ix, NEW i, Setup(tr, ix, i), Sound(tr), proc = "none",
         \A n \in Node : Advances(n, disk.tree[n], tr[n])
  PROVE  Kept' /\ Progress
<1>0. TypeOK /\ Kept /\ attempt' # 0
  BY DEF IInv, Setup, TypeOK
<1>1. PICK w \in Writes(TRUE) :
       /\ disk' = IF Replaces(w) THEN Checkpoint(tr, "running", ix) ELSE disk
       /\ IF w = "ok"
          THEN /\ proc' = "run" /\ tree' = tr
               /\ UNCHANGED <<poisoned, frames, seen, log>>
          ELSE Forgets
  BY DEF Setup
<1>2. disk'.tree = tr \/ disk' = disk
  BY <1>1 DEF Checkpoint
<1>3. Sound(disk'.tree) /\ Progress
  BY <1>0, <1>2, AdvancesReflexive DEF Kept, Progress
<1>4. CASE w = "ok"
  <2>1. tree' = tr /\ proc' = "run" /\ UNCHANGED <<pc, res, note>> /\ disk'.tree = tr
    BY <1>1, <1>4 DEF frames, Replaces, Checkpoint
  <2>2. \A n \in Node : pc[n] = "idle" /\ note[n] = "none"
    BY <1>0 DEF Kept, Quiet, Owing
  <2>3. Framed' /\ Owing'
    BY <2>1, <2>2 DEF Framed, FramedAt, Owing
  <2>4. Ahead'
    BY <2>1, AdvancesReflexive DEF Ahead, Advances
  <2>5. Quiet'
    BY <1>0, <2>1 DEF Quiet
  <2> QED BY <1>3, <2>1, <2>3, <2>4, <2>5 DEF Kept, Sound, SoundAt, Behind, CheckNode
<1>5. CASE w # "ok"
  BY <1>0, <1>1, <1>3, <1>5, ForgetsKeeps
<1> QED BY <1>4, <1>5

\* So does a Ctrl+C.
LEMMA InterruptKeeps ==
  ASSUME IInv, NEW n \in Node, Interrupt(n)
  PROVE  Kept' /\ Progress
<1>1. PICK where \in {"drain", "raise"} : Goes(n, where, "interrupt")
                                         /\ (where = "drain" => pc[n] \in {"kids", "drain"})
  BY DEF Interrupt
<1>2. /\ UNCHANGED <<tree, disk, proc, attempt>> /\ proc # "none"
      /\ \A m \in Node \ {n} : note'[m] = note[m]
  BY DEF Interrupt, Owes, IInv, TypeOK
<1>3. pc[n] # "idle"
  BY DEF Interrupt, Innermost, Busy, Calm, IInv, Kept, Owing
<1>4. FramedAt(n, where, "interrupt")
  BY <1>1, <1>3 DEF IInv, Kept, Framed, FramedAt, Raising
<1> QED BY <1>1, <1>2, <1>4, MoveKeeps

\* So does every step of the run.
LEMMA NextKeeps ==
  ASSUME IInv, [Next]_vars
  PROVE  Kept' /\ Progress
<1>0. TypeOK /\ Kept
  BY DEF IInv
<1>a. proc # "none" => attempt # 0
  BY <1>0 DEF Kept, Quiet
<1>1. CASE Start
  <2>1. disk.tree = Untouched
    BY <1>0, <1>1 DEF Start, Kept, Quiet
  <2> QED BY <1>1, <2>1, FreshIsSound, AdvancesReflexive, SetupKeeps DEF Start
<1>2. CASE Resume
  BY <1>0, <1>2, AdvancesReflexive, SetupKeeps DEF Resume, Kept
<1>3. CASE RootReturns \/ RootInterrupt
  BY <1>0, <1>3, AdvancesReflexive
     DEF Progress, RootReturns, RootInterrupt, budget, frames, Kept, Sound, SoundAt, Behind,
         CheckNode, Framed, FramedAt, Ahead, Advances, Owing, Quiet
<1>4. CASE Close
  <2>1. disk'.tree = tree \/ disk' = disk
    BY <1>4 DEF Close, Checkpoint
  <2>2. Sound(disk'.tree) /\ attempt' # 0 /\ Progress
    BY <1>0, <1>a, <1>4, <2>1, AdvancesReflexive DEF Close, Kept, Ahead, Progress
  <2> QED BY <1>4, <2>2, ForgetsKeeps DEF Close
<1>5. CASE GivesUp \/ Killed
  BY <1>0, <1>a, <1>5, ForgetsKeeps, AdvancesReflexive
     DEF GivesUp, Killed, budget, Kept, Progress
<1>6. CASE \E n \in Node : StepOf(n) \/ Interrupt(n)
  BY <1>6, StepKeeps, InterruptKeeps
<1>7. CASE UNCHANGED vars
  BY <1>0, <1>7, AdvancesReflexive
     DEF Progress, vars, budget, frames, Kept, Sound, SoundAt, Behind, CheckNode, Framed,
         FramedAt, Ahead, Advances, Owing, Quiet
<1> QED BY <1>1, <1>2, <1>3, <1>4, <1>5, <1>6, <1>7 DEF Next

\* The inductive invariant holds in every reachable state: whatever a failure
\* leaves in memory or on disk is sound, and disk is never ahead of memory.
THEOREM IInvHolds == Spec => []IInv
<1>1. Init => Kept
  <2> SUFFICES ASSUME Init PROVE Kept
    OBVIOUS
  <2>1. Sound(tree) /\ Sound(disk.tree)
    BY FreshIsSound DEF Init, Checkpoint
  <2>2. Framed /\ Owing /\ Quiet
    BY DEF Init, Framed, FramedAt, Owing, Quiet, Checkpoint, Untouched, Fresh
  <2>3. Ahead
    BY AdvancesReflexive DEF Init, Ahead, Checkpoint
  <2> QED BY <2>1, <2>2, <2>3 DEF Kept
<1>2. Kept /\ TypeOK => IInv
  BY DEF IInv
<1>3. IInv /\ TypeOK' /\ [Next]_vars => IInv'
  BY NextKeeps DEF IInv
<1> QED BY <1>1, <1>2, <1>3, TypeCorrect, PTL DEF Spec

\* Whatever was written, with failures and interrupts at any point, passes
\* the validation of load(): the check of the one occurrence a transition
\* replaces is enough to keep the whole stored tree loadable.
THEOREM EveryStoredTreeLoads == Spec => []StoredTreeLoads
<1>1. IInv => StoredTreeLoads
  BY DEF IInv, Kept, Sound, SoundAt, StoredTreeLoads, ValidTree
<1> QED BY <1>1, IInvHolds, PTL

\* Persisted progress keeps the authored order over every crash and resume.
THEOREM ProgressIsInOrder == Spec => []InOrder
<1>1. IInv => InOrder
  BY DEF IInv, Kept, Sound, SoundAt, Behind, InOrder
<1> QED BY <1>1, IInvHolds, PTL

\* An implementation whose result was checkpointed as completed is not executed
\* again, in whatever process and after whatever failure.
THEOREM CompletedIsNotRepeated == Spec => NoRepeat
<1>1. ASSUME IInv, [Next]_vars, NEW n \in Node, Kind[n] # "call",
             pc[n] = "begun", pc'[n] = "ran"
      PROVE  disk.tree[n].result # "completed"
  <2>1. tree[n].phase \in {"ready", "blocked"}
    <3>1. TypeOK
      BY <1>1 DEF IInv
    <3>2. PICK m \in Node : StepOf(m)
      BY <1>1, <3>1
         DEF Next, vars, frames, budget, Start, Resume, Setup, Forgets, RootReturns,
             RootInterrupt, Close, GivesUp, Killed, Interrupt, Goes, TypeOK
    <3>3. m = n
      BY <1>1, <3>1, <3>2
         DEF StepOf, Replay, ReplayAborted, Begin, Notify, Execute, Reenter, Expand,
             Iterate, Bind, BindFails, Rebind, EnterBound, Outputs, EvaluateOutputs,
             Finish, Settle, ChildrenCompleted, ChildrenStopped, Leave, Collect,
             Drained, StartItem, ReturnItem, Transition, Goes, TypeOK
    <3>4. Execute(n)
      BY <1>1, <3>1, <3>2, <3>3
         DEF StepOf, Replay, ReplayAborted, Begin, Notify, Reenter, Expand,
             Iterate, Bind, BindFails, Rebind, EnterBound, Outputs, EvaluateOutputs,
             Finish, Settle, ChildrenCompleted, ChildrenStopped, Leave, Collect,
             Drained, StartItem, ReturnItem, Enters, Turn, InLine, Goes,
             TypeOK
    <3> QED BY <3>4 DEF Execute
  <2>2. tree[n].result # "completed"
    BY <1>1, <2>1 DEF IInv, Kept, Sound, SoundAt, CheckNode
  <2> QED BY <1>1, <2>2 DEF IInv, Kept, Ahead, Advances
<1>2. IInv /\ [Next]_vars =>
        [\A n \in Node : Kind[n] # "call" /\ pc[n] = "begun" /\ pc'[n] = "ran"
           => disk.tree[n].result # "completed"]_vars
  BY <1>1
<1> QED BY <1>2, IInvHolds, PTL DEF Spec, NoRepeat

\* What is stored only moves on.
LEMMA StoredProgress == Spec => [][Progress]_vars
<1>1. IInv /\ [Next]_vars => [Progress]_vars
  BY NextKeeps
<1> QED BY <1>1, IInvHolds, PTL DEF Spec

\* No later checkpoint drops a selected branch, an iteration, an item or a
\* bound definition, whatever failed in between.
THEOREM ExpansionIsFrozen == Spec => FrozenExpansion
<1>1. [Progress]_vars =>
        [\A n \in Node : /\ disk.tree[n].kids \subseteq disk'.tree[n].kids
                         /\ disk.tree[n].bound => disk'.tree[n].bound]_vars
  BY DEF Progress, Advances
<1> QED BY <1>1, StoredProgress, PTL DEF FrozenExpansion

\* The operator's abort is final: no process changes an occurrence that was
\* recorded aborted.
THEOREM AbortStays == Spec => AbortIsFinal
<1>1. [Progress]_vars =>
        [\A n \in Node : disk.tree[n].outcome = "aborted" =>
           disk'.tree[n] = disk.tree[n]]_vars
  BY DEF Progress, Advances
<1> QED BY <1>1, StoredProgress, PTL DEF AbortIsFinal

\* After a failed checkpoint no thread of the instance saves or logs again,
\* until the process is gone.
THEOREM PoisonedIsSilent == Spec => PoisonSilences
<1>1. ASSUME IInv, [Next]_vars, poisoned
      PROVE  disk' = disk /\ log' \subseteq log
  <2>1. proc # "none"
    BY <1>1 DEF IInv, Kept, Quiet
  <2>2. ASSUME NEW n \in Node, StepOf(n) \/ Interrupt(n)
        PROVE  disk' = disk /\ log' \subseteq log
    BY <1>1, <2>2
       DEF StepOf, Replay, ReplayAborted, Begin, Notify, Execute, Reenter, Expand,
           Iterate, Bind, BindFails, Rebind, EnterBound, Outputs, EvaluateOutputs,
           Finish, Settle, ChildrenCompleted, ChildrenStopped, Leave, Collect,
           Drained, StartItem, ReturnItem, PoolVars, Transition, Interrupt
  <2>3. CASE Close \/ GivesUp \/ Killed \/ RootReturns \/ RootInterrupt \/ UNCHANGED vars
    BY <1>1, <2>3
       DEF Close, GivesUp, Killed, Forgets, RootReturns, RootInterrupt, vars
  <2> QED BY <1>1, <2>1, <2>2, <2>3 DEF Next, Start, Resume
<1>2. IInv /\ [Next]_vars => [poisoned => disk' = disk /\ log' \subseteq log]_vars
  BY <1>1
<1> QED BY <1>2, IInvHolds, PTL DEF Spec, PoisonSilences
=============================================================================
