---------------------------- MODULE Steps_proofs ----------------------------
(* Theorems about Steps for any processes, step ids, versions and failures.  *)
EXTENDS Steps, TLAPS

-----------------------------------------------------------------------------
(* The inductive invariant *)

\* What the process p that holds the lock knows, at each place: its copy of the
\* registry is up to date but for its own write, nothing else has the id, and
\* how its step stands, unless a failure has damaged it.
HeldBy(p) ==
  /\ \A j \in Alias[Id(p)] : reg[j] = None /\ dir[j] = None
  /\ pc[p] \in {"unregister"} \cup Installing \cup Restoring => doc[p] = reg
  /\ pc[p] \in {"rmdir", "reregister"} =>
       reg = [doc[p] EXCEPT ![Id(p)] = None] /\ Dir(p) # None
  /\ pc[p] \in {"swap", "publish", "copy"} => Dir(p) = None
  /\ pc[p] \in {"swapped", "register"} => Dir(p) = job[p].ver
  /\ pc[p] = "enter" => Dir(p) = snap[p].copy
  /\ pc[p] \in Restoring => reg[Id(p)] = None
  /\ pc[p] = "reregister" => Id(p) \in scar
  /\ Id(p) \notin scar =>
       /\ pc[p] \in {"publish", "register", "unpublish"} => reg[Id(p)] = None
       /\ pc[p] = "unregister" => reg[Id(p)] = Dir(p)
Held == \A p \in Procs : pc[p] \in Inside => HeldBy(p)

\* Every step that nobody is changing and no failure has damaged is whole.
Whole ==
  \A i \in Ids \ scar :
    (\A p \in Procs : pc[p] \in Inside => Id(p) # i) => reg[i] = dir[i]

Distinct == \A i \in Ids : \A j \in Alias[i] : ~ (Present(i) /\ Present(j))

Sound == Held /\ Whole /\ Distinct
IInv == TypeOK /\ Sound

-----------------------------------------------------------------------------
(* Initially *)

\* What is installed at first is whole.
LEMMA InitIInv == Init => IInv
<1> SUFFICES ASSUME Init PROVE IInv
  OBVIOUS
<1>1. NoJob \in Job /\ NoSnap \in Snapshot
  BY IdsAssumption DEF NoJob, NoSnap, Job, Snapshot, Entries
<1>2. TypeOK
  BY <1>1, BeforeAssumption, ValuesAssumption, BoundsAssumption
     DEF Init, TypeOK, Registries, Entries, Waiting, Inside, Removing, Installing, Restoring
<1>3. Sound
  BY IdsAssumption, BeforeAssumption
     DEF Init, Sound, Held, Whole, Distinct, Present, Inside, Removing, Installing, Restoring
<1> QED BY <1>2, <1>3 DEF IInv

-----------------------------------------------------------------------------
(* Types *)

\* The common parts of the actions keep the types.
LEMMA PartsTyped ==
  ASSUME TypeOK, NEW p \in Procs
  PROVE  /\ Id(p) \in Ids /\ Dir(p) \in Entries \cup {Torn}
         /\ \A v \in Entries : Write(p, v) => reg' \in Registries
         /\ \A v \in Entries \cup {Torn} : Replace(p, v) => dir' \in [Ids -> Entries \cup {Torn}]
         /\ Partly(p) => dir' \in [Ids -> Entries \cup {Torn}]
         /\ Damage(p) => scar' \subseteq Ids
         /\ Keeps(p) => snap' \in [Procs -> Snapshot]
         /\ \A v \in Entries \cup {"own", "unclear"} :
              Shows(p, v) => seen' \in [Procs -> Entries \cup {"own", "unclear"}]
         /\ Fault => count' \in [commands : 0..MaxCommands, faults : 0..MaxFaults]
<1>1. Id(p) \in Ids /\ Dir(p) \in Entries \cup {Torn}
  BY DEF TypeOK, Id, Dir, Job
<1>2. \A v \in Entries : Write(p, v) => reg' \in Registries
  BY <1>1 DEF TypeOK, Write, Registries
<1>3. \A v \in Entries \cup {Torn} : Replace(p, v) => dir' \in [Ids -> Entries \cup {Torn}]
  BY <1>1 DEF TypeOK, Replace
<1>4. Partly(p) => dir' \in [Ids -> Entries \cup {Torn}]
  BY <1>1, <1>3 DEF Partly
<1>5. Damage(p) => scar' \subseteq Ids
  BY <1>1 DEF TypeOK, Damage
<1>6. Keeps(p) => snap' \in [Procs -> Snapshot]
  <2>1. snap[p] \in Snapshot
    BY DEF TypeOK
  <2>2. [snap[p] EXCEPT !.kept = TRUE] \in Snapshot
    BY <2>1 DEF Snapshot
  <2> QED BY <2>2 DEF TypeOK, Keeps
<1>7. \A v \in Entries \cup {"own", "unclear"} :
        Shows(p, v) => seen' \in [Procs -> Entries \cup {"own", "unclear"}]
  BY DEF TypeOK, Shows
<1>8. Fault => count' \in [commands : 0..MaxCommands, faults : 0..MaxFaults]
  BY BoundsAssumption DEF TypeOK, Fault
<1> QED BY <1>1, <1>2, <1>3, <1>4, <1>5, <1>6, <1>7, <1>8

\* Where a process may go, with the lock it then has.
Places == {"idle", "install"} \cup Waiting \cup Inside

Moved(p) ==
  /\ pc' \in [Procs -> Places] /\ lock' \in Procs \cup {Free}
  /\ \A q \in Procs : pc'[q] \in Inside <=> lock' = q
  /\ job' \in [Procs -> Job] /\ doc' \in [Procs -> Registries]
  /\ how' \in [Procs -> {"ok", "running", "failed", "dead"}]

\* Whoever goes on, takes the lock, or leaves, has the lock exactly inside.
LEMMA MovesTyped ==
  ASSUME TypeOK, NEW p \in Procs
  PROVE  /\ \A place \in Inside : lock = p /\ Goto(p, place) => Moved(p)
         /\ \A place \in Places \ Inside : lock # p /\ Goto(p, place) => Moved(p)
         /\ \A place \in Inside : lock = Free /\ Lock(p, place) => Moved(p)
         /\ \A o \in {"ok", "failed", "dead"} : Leave(p, o) => Moved(p)
         /\ GiveUp(p) => Moved(p)
<1> USE DEF TypeOK, Moved, Places, Waiting
<1>0. "idle" \notin Inside /\ "restore" \notin Inside
  BY DEF Inside, Removing, Installing, Restoring
<1>1. \A place \in Inside : lock = p /\ Goto(p, place) => Moved(p)
  BY DEF Goto
<1>2. \A place \in Places \ Inside : lock # p /\ Goto(p, place) => Moved(p)
  BY DEF Goto
<1>3. \A place \in Inside : lock = Free /\ Lock(p, place) => Moved(p)
  BY ValuesAssumption DEF Lock, Document
<1>4. \A o \in {"ok", "failed", "dead"} : Leave(p, o) => Moved(p)
  <2>1. Before \in Registries /\ NoJob \in Job
    BY IdsAssumption, BeforeAssumption DEF Registries, Entries, NoJob, Job
  <2> QED BY <1>0, <2>1, ValuesAssumption DEF Leave, Unlock
<1>5. GiveUp(p) => Moved(p)
  BY <1>0, <1>4, ValuesAssumption DEF GiveUp, Unlock
<1> QED BY <1>1, <1>2, <1>3, <1>4, <1>5

\* Every step of a command keeps the types.
LEMMA StepTyped ==
  ASSUME TypeOK, NEW p \in Procs, Step(p)
  PROVE  TypeOK'
<1>0. /\ Id(p) \in Ids /\ Dir(p) \in Entries \cup {Torn}
      /\ job[p] \in Job /\ snap[p] \in Snapshot /\ doc[p] \in Registries /\ reg \in Registries
      /\ job[p].ver \in Entries /\ snap[p].entry \in Entries
      /\ snap[p].copy \in Entries \cup {Torn}
      /\ None \in Entries /\ doc[p][Id(p)] \in Entries /\ reg[Id(p)] \in Entries
      /\ pc[p] \in Inside => lock = p
      /\ pc[p] \in Waiting \cup {"install"} => lock # p
      /\ Lockable(p) => lock = Free /\ lock # p
  BY PartsTyped, ValuesAssumption
     DEF TypeOK, Job, Snapshot, Registries, Entries, Lockable, Waiting, Inside, Removing,
         Installing, Restoring
<1>m. ASSUME Moved(p),
             reg' \in Registries, dir' \in [Ids -> Entries \cup {Torn}],
             snap' \in [Procs -> Snapshot], scar' \subseteq Ids,
             seen' \in [Procs -> Entries \cup {"own", "unclear"}],
             count' \in [commands : 0..MaxCommands, faults : 0..MaxFaults]
      PROVE  TypeOK'
  BY <1>m DEF TypeOK, Moved, Places
<1>k. /\ UNCHANGED reg => reg' \in Registries
      /\ UNCHANGED dir => dir' \in [Ids -> Entries \cup {Torn}]
      /\ UNCHANGED snap => snap' \in [Procs -> Snapshot]
      /\ UNCHANGED scar \/ scar' = scar \ {Id(p)} \/ scar' = scar \cup {Id(p)} => scar' \subseteq Ids
      /\ UNCHANGED seen => seen' \in [Procs -> Entries \cup {"own", "unclear"}]
      /\ UNCHANGED count => count' \in [commands : 0..MaxCommands, faults : 0..MaxFaults]
  BY <1>0 DEF TypeOK
<1>p. /\ {"unregister", "rmdir", "reregister", "clear", "swap", "swapped", "publish",
          "register", "unpublish", "wipe", "copy", "enter"} \subseteq Inside
      /\ {"commit", "install", "remove", "save", "restore"} \subseteq Places \ Inside
  BY DEF Places, Waiting, Inside, Removing, Installing, Restoring
<1> HIDE DEF Inside, Places
<1>1. CASE LockInstall(p)
  BY <1>1, <1>0, <1>m, <1>k, <1>p, MovesTyped DEF LockInstall
<1>2. CASE Clear(p)
  BY <1>2, <1>0, <1>m, <1>k, <1>p, MovesTyped, PartsTyped DEF Clear
<1>3. CASE Publish(p)
  BY <1>3, <1>0, <1>m, <1>k, <1>p, MovesTyped, PartsTyped DEF Publish
<1>4. CASE Register(p)
  BY <1>4, <1>0, <1>m, <1>k, <1>p, MovesTyped, PartsTyped DEF Register
<1>5. CASE Unpublish(p)
  BY <1>5, <1>0, <1>m, <1>k, <1>p, MovesTyped, PartsTyped DEF Unpublish
<1>6. CASE LockRemove(p)
  BY <1>6, <1>0, <1>m, <1>k, <1>p, MovesTyped DEF LockRemove
<1>r. Removed(p) /\ pc[p] \in Removing =>
        /\ Moved(p) /\ scar' \subseteq Ids
        /\ seen' \in [Procs -> Entries \cup {"own", "unclear"}]
  <2>1. CASE Op(p) = "refresh"
    BY <2>1, <1>0, <1>k, <1>p, PartsTyped, ValuesAssumption
       DEF Removed, TypeOK, Moved, Places, Waiting, Inside, Unlock
  <2>2. CASE Op(p) # "refresh"
    BY <2>2, <1>0, <1>k, MovesTyped, PartsTyped DEF Removed
  <2> QED BY <2>1, <2>2
<1>7. CASE Unregister(p)
  BY <1>7, <1>0, <1>m, <1>k, <1>p, <1>r, MovesTyped, PartsTyped DEF Unregister, Removing, Inside
<1>8. CASE RemoveDirectory(p)
  BY <1>8, <1>0, <1>m, <1>k, <1>p, <1>r, PartsTyped DEF RemoveDirectory, Removing
<1>9. CASE Reregister(p)
  BY <1>9, <1>0, <1>m, <1>k, <1>p, MovesTyped, PartsTyped DEF Reregister
<1>10. CASE Save(p)
  <2>1. snap' \in [Procs -> Snapshot] /\ seen' \in [Procs -> Entries \cup {"own", "unclear"}]
    <3>1. [had |-> TRUE, entry |-> reg[Id(p)], copy |-> Dir(p), kept |-> FALSE] \in Snapshot
      BY <1>0 DEF Snapshot
    <3>2. CASE reg[Id(p)] = None
      BY <3>2, <1>10, <1>k DEF Save, Document
    <3>3. CASE reg[Id(p)] # None
      BY <3>1, <3>3, <1>10 DEF Save, Document, TypeOK
    <3> QED BY <3>2, <3>3
  <2> QED BY <2>1, <1>10, <1>0, <1>m, <1>k, <1>p, MovesTyped DEF Save, FirstOfRemoval
<1>11. CASE Install(p)
  BY <1>11, <1>0, <1>m, <1>k, <1>p, MovesTyped DEF Install
<1>12. CASE LockRestore(p)
  BY <1>12, <1>0, <1>m, <1>k, <1>p, MovesTyped, PartsTyped DEF LockRestore
<1>13. CASE Wipe(p)
  BY <1>13, <1>0, <1>m, <1>k, <1>p, MovesTyped, PartsTyped DEF Wipe
<1>14. CASE Copy(p)
  BY <1>14, <1>0, <1>m, <1>k, <1>p, MovesTyped, PartsTyped DEF Copy
<1>15. CASE Enter(p)
  BY <1>15, <1>0, <1>m, <1>k, <1>p, MovesTyped, PartsTyped DEF Enter
<1> QED BY <1>1, <1>2, <1>3, <1>4, <1>5, <1>6, <1>7, <1>8, <1>9, <1>10, <1>11, <1>12,
           <1>13, <1>14, <1>15 DEF Step

\* So do failures.
LEMMA FaultTyped ==
  ASSUME TypeOK, NEW p \in Procs, GoesWrong(p)
  PROVE  TypeOK'
<1>0. /\ Id(p) \in Ids /\ pc[p] \in Inside => lock = p
  BY PartsTyped DEF TypeOK
<1>m. ASSUME Moved(p),
             reg' \in Registries, dir' \in [Ids -> Entries \cup {Torn}],
             snap' \in [Procs -> Snapshot], scar' \subseteq Ids,
             seen' \in [Procs -> Entries \cup {"own", "unclear"}],
             count' \in [commands : 0..MaxCommands, faults : 0..MaxFaults]
      PROVE  TypeOK'
  BY <1>m DEF TypeOK, Moved, Places
<1>k. /\ UNCHANGED reg => reg' \in Registries
      /\ UNCHANGED dir => dir' \in [Ids -> Entries \cup {Torn}]
      /\ UNCHANGED snap => snap' \in [Procs -> Snapshot]
      /\ UNCHANGED scar => scar' \subseteq Ids
      /\ UNCHANGED seen => seen' \in [Procs -> Entries \cup {"own", "unclear"}]
  BY DEF TypeOK
<1>p. {"unregister", "rmdir", "reregister", "register", "unpublish"} \subseteq Inside
      /\ Restoring \subseteq Inside
  BY DEF Inside, Removing, Installing, Restoring
<1>s. "unclear" \in Entries \cup {"own", "unclear"}
  OBVIOUS
<1>1. CASE FailsOutside(p)
  BY <1>1, <1>0, <1>m, <1>k, MovesTyped, PartsTyped DEF FailsOutside
<1>2. CASE InstallFails(p)
  BY <1>2, <1>0, <1>m, <1>k, <1>p, <1>s, MovesTyped, PartsTyped DEF InstallFails
<1>3. CASE RemoveFails(p)
  BY <1>3, <1>0, <1>m, <1>k, <1>p, <1>s, MovesTyped, PartsTyped DEF RemoveFails
<1>4. CASE RestoreFails(p)
  BY <1>4, <1>0, <1>m, <1>k, <1>p, <1>s, MovesTyped, PartsTyped DEF RestoreFails
<1>5. CASE Dies(p)
  BY <1>5, <1>0, <1>m, <1>k, <1>s, MovesTyped, PartsTyped DEF Dies
<1> QED BY <1>1, <1>2, <1>3, <1>4, <1>5 DEF GoesWrong

\* And the beginning of a command.
LEMMA CommandTyped ==
  ASSUME TypeOK, NEW p \in Procs, Command(p)
  PROVE  TypeOK'
<1>1. PICK op \in {"add", "remove", "refresh"}, i \in Ids, v \in Entries, force \in BOOLEAN,
           place \in Waiting : Begin(p, op, i, v, force, place)
  BY DEF Command, Add, Remove, Refresh, Entries, Waiting
<1>2. [op |-> op, id |-> i, ver |-> v, force |-> force] \in Job /\ NoSnap \in Snapshot
  BY DEF Job, NoSnap, Snapshot, Entries
<1>3. "idle" \notin Inside /\ place \notin Inside
  BY DEF Waiting, Inside, Removing, Installing, Restoring
<1>4. count' \in [commands : 0..MaxCommands, faults : 0..MaxFaults]
  BY <1>1, BoundsAssumption DEF Begin, TypeOK
<1> QED BY <1>1, <1>2, <1>3, <1>4 DEF Begin, TypeOK

-----------------------------------------------------------------------------
(* Soundness *)

\* A step of the process that holds the lock touches its own id only.  It keeps
\* the lock and knows what its next place needs, or it leaves a step that is
\* whole or damaged.
LEMMA InsideKeeps ==
  ASSUME IInv, TypeOK', NEW p \in Procs, pc[p] \in Inside,
         \A q \in Procs \ {p} : pc'[q] = pc[q],
         \A i \in Ids \ {Id(p)} : reg'[i] = reg[i] /\ dir'[i] = dir[i],
         \A i \in Ids \ {Id(p)} : i \in scar' <=> i \in scar,
         \/ pc'[p] \in Inside /\ Id(p)' = Id(p) /\ HeldBy(p)'
         \/ pc'[p] \notin Inside /\ (Id(p) \in scar' \/ reg'[Id(p)] = dir'[Id(p)])
  PROVE  Sound'
<1>0. /\ Id(p) \in Ids /\ lock = p
      /\ \A q \in Procs : pc[q] \in Inside => q = p
      /\ \A q \in Procs : pc'[q] \in Inside => q = p
      /\ \A j \in Alias[Id(p)] : reg[j] = None /\ dir[j] = None
  BY DEF IInv, Sound, Held, HeldBy, TypeOK, Id, Job
<1>1. Held'
  BY <1>0 DEF Held
<1>2. Whole'
  BY <1>0 DEF IInv, Sound, Whole
<1>3. Distinct'
  <2> SUFFICES ASSUME NEW i \in Ids, NEW j \in Alias[i], Present(i)', Present(j)'
               PROVE  FALSE
    BY DEF Distinct
  <2>1. j \in Ids /\ i # j /\ i \in Alias[j]
    BY IdsAssumption
  <2>2. \A k \in Ids \ {Id(p)} : Present(k)' <=> Present(k)
    BY DEF Present
  <2>3. CASE i # Id(p) /\ j # Id(p)
    BY <2>1, <2>2, <2>3 DEF IInv, Sound, Distinct
  <2>4. CASE i = Id(p)
    BY <1>0, <2>1, <2>2, <2>4 DEF Present
  <2>5. CASE j = Id(p)
    BY <1>0, <2>1, <2>2, <2>5 DEF Present
  <2> QED BY <2>3, <2>4, <2>5
<1> QED BY <1>1, <1>2, <1>3 DEF Sound

\* A step of a process without the lock changes nothing, and may take it.
LEMMA OutsideKeeps ==
  ASSUME IInv, TypeOK', NEW p \in Procs, pc[p] \notin Inside, UNCHANGED <<dir, reg, scar>>,
         \A q \in Procs \ {p} :
            pc'[q] = pc[q] /\ job'[q] = job[q] /\ doc'[q] = doc[q] /\ snap'[q] = snap[q],
         pc'[p] \in Inside => HeldBy(p)'
  PROVE  Sound'
<1>1. ASSUME NEW q \in Procs, pc'[q] \in Inside PROVE HeldBy(q)'
  <2>1. CASE q = p
    BY <1>1, <2>1
  <2>2. CASE q # p
    BY <1>1, <2>2 DEF IInv, Sound, Held, HeldBy, Id, Dir
  <2> QED BY <2>1, <2>2
<1>2. Whole'
  <2> SUFFICES ASSUME NEW i \in Ids \ scar,
                      \A q \in Procs : pc'[q] \in Inside => Id(q)' # i
               PROVE  reg[i] = dir[i]
    BY DEF Whole
  <2>1. \A q \in Procs : pc[q] \in Inside => Id(q) # i
    BY DEF Id
  <2> QED BY <2>1 DEF IInv, Sound, Whole
<1> QED BY <1>1, <1>2 DEF IInv, Sound, Held, Distinct, Present

\* Every step of a command keeps the registry and the packages sound.
LEMMA StepSound ==
  ASSUME IInv, NEW p \in Procs, Step(p)
  PROVE  Sound'
<1>0. /\ TypeOK /\ TypeOK' /\ Id(p) \in Ids /\ job[p].ver \in Entries
      /\ pc[p] \in Inside => HeldBy(p) /\ lock = p
      /\ reg \in Registries /\ doc[p] \in Registries /\ dir \in [Ids -> Entries \cup {Torn}]
      /\ Lockable(p) => lock = Free
  BY StepTyped, PartsTyped DEF IInv, Sound, Held, TypeOK, Job, Lockable
<1>p. /\ {"unregister", "rmdir", "reregister"} = Removing
      /\ {"clear", "swap", "swapped", "publish", "register", "unpublish"} = Installing
      /\ {"wipe", "copy", "enter"} = Restoring
      /\ Inside = Removing \cup Installing \cup Restoring
      /\ "idle" \notin Inside /\ Waiting \cap Inside = {} /\ "install" \notin Inside
  BY DEF Waiting, Inside, Removing, Installing, Restoring
<1>w. \A j \in Alias[Id(p)] : j \in Ids /\ j # Id(p)
  BY <1>0, IdsAssumption
<1>o. ASSUME NEW outcome \in {"ok", "failed"}, Leave(p, outcome)
      PROVE  pc'[p] = "idle" /\ \A q \in Procs \ {p} : pc'[q] = pc[q] /\ job'[q] = job[q] /\ doc'[q] = doc[q]
  BY <1>0, <1>o DEF Leave, TypeOK
<1>q. ASSUME NEW place, Goto(p, place)
      PROVE  pc'[p] = place /\ job' = job /\ doc' = doc /\ \A q \in Procs \ {p} : pc'[q] = pc[q]
  BY <1>0, <1>q DEF Goto, TypeOK
<1>g. ASSUME GiveUp(p)
      PROVE  /\ pc'[p] \in {"idle", "restore"}
             /\ \A q \in Procs \ {p} : pc'[q] = pc[q] /\ job'[q] = job[q] /\ doc'[q] = doc[q]
  BY <1>0, <1>g, <1>o DEF GiveUp, TypeOK
<1>l. ASSUME NEW place, Lock(p, place)
      PROVE  /\ pc'[p] = place /\ job' = job /\ doc'[p] = reg
             /\ \A q \in Procs \ {p} : pc'[q] = pc[q] /\ doc'[q] = doc[q]
  BY <1>0, <1>l DEF Lock, TypeOK, Document
<1>f. lock = Free => \A i \in Ids \ scar : reg[i] = dir[i]
  BY ValuesAssumption, <1>p DEF IInv, TypeOK, Sound, Whole
<1>d. Present(Id(p)) => \A j \in Alias[Id(p)] : reg[j] = None /\ dir[j] = None
  BY <1>0, <1>w DEF IInv, Sound, Distinct, Present
<1>x. \A v : Replace(p, v) =>
        dir'[Id(p)] = v /\ \A i \in Ids \ {Id(p)} : dir'[i] = dir[i]
  BY <1>0 DEF Replace
<1>y. /\ doc[p] = reg \/ reg = [doc[p] EXCEPT ![Id(p)] = None]
      => \A v : Write(p, v) =>
           reg'[Id(p)] = v /\ \A i \in Ids \ {Id(p)} : reg'[i] = reg[i]
  BY <1>0 DEF Write, Registries
<1> HIDE DEF Inside
<1>1. CASE LockInstall(p)
  <2>1. CASE GiveUp(p)
    BY <2>1, <1>1, <1>0, <1>g, <1>p, OutsideKeeps DEF LockInstall, Waiting
  <2>2. CASE /\ Installable(Document(p), Id(p), job[p].force)
             /\ Lock(p, IF Dir(p) = None THEN "publish" ELSE "clear")
    <3>1. HeldBy(p)'
      BY <2>2, <1>1, <1>0, <1>l, <1>f, <1>p DEF LockInstall, HeldBy, Installable, NoAlias, Document, Id, Dir
    <3> QED BY <3>1, <2>2, <1>1, <1>0, <1>l, <1>p, OutsideKeeps DEF LockInstall, Waiting
  <2> QED BY <1>1, <2>1, <2>2 DEF LockInstall
<1>2. CASE Clear(p)
  <2>1. HeldBy(p)' /\ Id(p)' = Id(p)
    BY <1>2, <1>0, <1>q, <1>x, <1>w, <1>p DEF Clear, HeldBy, Id, Dir
  <2> QED BY <2>1, <1>2, <1>0, <1>q, <1>x, <1>p, InsideKeeps DEF Clear
<1>3. CASE Publish(p)
  <2>1. HeldBy(p)' /\ Id(p)' = Id(p)
    BY <1>3, <1>0, <1>q, <1>x, <1>w, <1>p DEF Publish, HeldBy, Id, Dir
  <2> QED BY <2>1, <1>3, <1>0, <1>q, <1>x, <1>p, InsideKeeps DEF Publish
<1>4. CASE Register(p)
  <2>1. reg'[Id(p)] = dir'[Id(p)] /\ \A i \in Ids \ {Id(p)} : reg'[i] = reg[i]
    BY <1>4, <1>0, <1>y, <1>p DEF Register, HeldBy, Dir
  <2> QED BY <2>1, <1>4, <1>0, <1>o, <1>p, InsideKeeps DEF Register
<1>5. CASE Unpublish(p)
  <2>1. Id(p) \in scar \/ reg[Id(p)] = None
    BY <1>5, <1>0, <1>p DEF Unpublish, HeldBy
  <2> QED BY <2>1, <1>5, <1>0, <1>g, <1>x, <1>p, InsideKeeps DEF Unpublish, Waiting
<1>6. CASE LockRemove(p)
  <2>1. CASE GiveUp(p)
    BY <2>1, <1>6, <1>0, <1>g, <1>p, OutsideKeeps DEF LockRemove, Waiting
  <2>2. CASE reg[Id(p)] # None /\ Lock(p, "unregister")
    <3>1. HeldBy(p)'
      BY <2>2, <1>6, <1>0, <1>l, <1>f, <1>d, <1>p DEF LockRemove, HeldBy, Present, Id, Dir
    <3> QED BY <3>1, <2>2, <1>6, <1>0, <1>l, <1>p, OutsideKeeps DEF LockRemove, Waiting
  <2>3. CASE reg[Id(p)] = None /\ Dir(p) # None /\ Lock(p, "rmdir")
    <3>1. reg = [reg EXCEPT ![Id(p)] = None]
      BY <2>3, <1>0 DEF Registries
    <3>2. HeldBy(p)'
      BY <3>1, <2>3, <1>6, <1>0, <1>l, <1>d, <1>p DEF LockRemove, HeldBy, Present, Id, Dir
    <3> QED BY <3>2, <2>3, <1>6, <1>0, <1>l, <1>p, OutsideKeeps DEF LockRemove, Waiting
  <2> QED BY <1>6, <2>1, <2>2, <2>3 DEF LockRemove, Document
<1>7. CASE Unregister(p)
  <2>1. /\ reg' = [doc[p] EXCEPT ![Id(p)] = None]
        /\ reg'[Id(p)] = None /\ \A i \in Ids \ {Id(p)} : reg'[i] = reg[i]
    BY <1>7, <1>0, <1>y, <1>p DEF Unregister, HeldBy, Write
  <2>2. CASE Dir(p) # None
    <3>1. HeldBy(p)' /\ Id(p)' = Id(p)
      BY <2>1, <2>2, <1>7, <1>0, <1>q, <1>w, <1>p DEF Unregister, HeldBy, Id, Dir
    <3> QED BY <2>1, <2>2, <3>1, <1>7, <1>0, <1>q, <1>p, InsideKeeps DEF Unregister
  <2>3. CASE Dir(p) = None
    <3>1. pc'[p] \notin Inside /\ \A q \in Procs \ {p} : pc'[q] = pc[q]
      BY <2>3, <1>7, <1>0, <1>o, <1>p DEF Unregister, Removed, TypeOK
    <3> QED BY <2>1, <2>3, <3>1, <1>7, <1>0, <1>p, InsideKeeps DEF Unregister, Removed, Dir
  <2> QED BY <2>2, <2>3
<1>8. CASE RemoveDirectory(p)
  <2>1. pc'[p] \notin Inside /\ \A q \in Procs \ {p} : pc'[q] = pc[q]
    BY <1>8, <1>0, <1>o, <1>p DEF RemoveDirectory, Removed, TypeOK
  <2>2. reg[Id(p)] = None
    BY <1>8, <1>0, <1>p DEF RemoveDirectory, HeldBy, Registries
  <2> QED BY <2>1, <2>2, <1>8, <1>0, <1>x, <1>p, InsideKeeps DEF RemoveDirectory, Removed
<1>9. CASE Reregister(p)
  <2>1. /\ reg'[Id(p)] = doc[p][Id(p)] /\ Id(p) \in scar
        /\ \A i \in Ids \ {Id(p)} : reg'[i] = reg[i]
    BY <1>9, <1>0, <1>y, <1>p DEF Reregister, HeldBy
  <2> QED BY <2>1, <1>9, <1>0, <1>g, <1>p, InsideKeeps DEF Reregister, Dir, Waiting
<1>10. CASE Save(p)
  <2>1. CASE reg[Id(p)] = None
    BY <2>1, <1>10, <1>0, <1>q, <1>p, OutsideKeeps DEF Save, Document, Waiting
  <2>2. CASE reg[Id(p)] # None
    <3>1. HeldBy(p)'
      BY <2>2, <1>10, <1>0, <1>l, <1>f, <1>d, <1>p
         DEF Save, FirstOfRemoval, Document, HeldBy, Present, Id, Dir
    <3>2. \A q \in Procs \ {p} : snap'[q] = snap[q]
      BY <2>2, <1>10, <1>0 DEF Save, Document, TypeOK
    <3> QED BY <3>1, <3>2, <2>2, <1>10, <1>0, <1>l, <1>p, OutsideKeeps
            DEF Save, FirstOfRemoval, Document, Waiting
  <2> QED BY <2>1, <2>2
<1>11. CASE Install(p)
  BY <1>11, <1>0, <1>q, <1>g, <1>p, OutsideKeeps DEF Install, Waiting
<1>12. CASE LockRestore(p)
  <2>1. CASE Leave(p, "failed")
    <3>1. \A q \in Procs \ {p} : snap'[q] = snap[q]
      BY <1>12, <1>0 DEF LockRestore, Keeps, TypeOK
    <3> QED BY <2>1, <3>1, <1>12, <1>0, <1>o, <1>p, OutsideKeeps DEF LockRestore, Waiting
  <2>2. CASE /\ ~ Superseded(p) /\ NoAlias(Document(p), Id(p))
             /\ Lock(p, IF Dir(p) # None THEN "wipe" ELSE "copy") /\ UNCHANGED snap
    <3>1. HeldBy(p)'
      BY <2>2, <1>12, <1>0, <1>l, <1>f, <1>p
         DEF LockRestore, HeldBy, Superseded, NoAlias, Document, Id, Dir
    <3> QED BY <3>1, <2>2, <1>12, <1>0, <1>l, <1>p, OutsideKeeps DEF LockRestore, Waiting
  <2> QED BY <1>12, <2>1, <2>2 DEF LockRestore
<1>13. CASE Wipe(p)
  <2>1. HeldBy(p)' /\ Id(p)' = Id(p)
    BY <1>13, <1>0, <1>q, <1>x, <1>w, <1>p DEF Wipe, HeldBy, Id, Dir
  <2> QED BY <2>1, <1>13, <1>0, <1>q, <1>x, <1>p, InsideKeeps DEF Wipe
<1>14. CASE Copy(p)
  <2>1. HeldBy(p)' /\ Id(p)' = Id(p)
    BY <1>14, <1>0, <1>q, <1>x, <1>w, <1>p DEF Copy, HeldBy, Id, Dir
  <2> QED BY <2>1, <1>14, <1>0, <1>q, <1>x, <1>p, InsideKeeps DEF Copy
<1>15. CASE Enter(p)
  <2>1. /\ reg'[Id(p)] = snap[p].entry /\ \A i \in Ids \ {Id(p)} : reg'[i] = reg[i]
        /\ Dir(p) = snap[p].copy
    BY <1>15, <1>0, <1>y, <1>p DEF Enter, HeldBy
  <2> QED BY <2>1, <1>15, <1>0, <1>o, <1>p, InsideKeeps DEF Enter, Dir
<1> QED BY <1>1, <1>2, <1>3, <1>4, <1>5, <1>6, <1>7, <1>8, <1>9, <1>10, <1>11, <1>12,
           <1>13, <1>14, <1>15 DEF Step

\* So do failures: whoever leaves a step that is not whole has it marked.
LEMMA FaultSound ==
  ASSUME IInv, NEW p \in Procs, GoesWrong(p)
  PROVE  Sound'
<1>0. /\ TypeOK /\ TypeOK' /\ Id(p) \in Ids
      /\ pc[p] \in Inside => HeldBy(p) /\ lock = p
      /\ pc[p] \notin Inside => lock # p
      /\ reg \in Registries /\ doc[p] \in Registries /\ dir \in [Ids -> Entries \cup {Torn}]
  BY FaultTyped, PartsTyped DEF IInv, Sound, Held, TypeOK
<1>p. /\ {"unregister", "rmdir", "reregister"} = Removing
      /\ {"clear", "swap", "swapped", "publish", "register", "unpublish"} = Installing
      /\ {"wipe", "copy", "enter"} = Restoring
      /\ Inside = Removing \cup Installing \cup Restoring
      /\ {"idle", "restore", "install"} \cap Inside = {} /\ Waiting \cap Inside = {}
  BY DEF Waiting, Inside, Removing, Installing, Restoring
<1>o. ASSUME NEW outcome \in {"failed", "dead"}, Leave(p, outcome)
      PROVE  /\ pc'[p] = "idle"
             /\ \A q \in Procs \ {p} : pc'[q] = pc[q] /\ job'[q] = job[q] /\ doc'[q] = doc[q]
  BY <1>0, <1>o DEF Leave, TypeOK
<1>q. ASSUME NEW place, Goto(p, place)
      PROVE  pc'[p] = place /\ job' = job /\ doc' = doc /\ \A q \in Procs \ {p} : pc'[q] = pc[q]
  BY <1>0, <1>q DEF Goto, TypeOK
<1>g. ASSUME GiveUp(p)
      PROVE  /\ pc'[p] \in {"idle", "restore"}
             /\ \A q \in Procs \ {p} : pc'[q] = pc[q] /\ job'[q] = job[q] /\ doc'[q] = doc[q]
  BY <1>0, <1>g, <1>o DEF GiveUp, TypeOK
<1>x. Partly(p) => /\ dir'[Id(p)] \in {dir[Id(p)], Torn}
                   /\ \A i \in Ids \ {Id(p)} : dir'[i] = dir[i]
  BY <1>0 DEF Partly, Replace, Dir
<1>z. /\ Damage(p) => \A i \in Ids \ {Id(p)} : i \in scar' <=> i \in scar
      /\ Damage(p) /\ lock = p => Id(p) \in scar' \/ dir'[Id(p)] = reg[Id(p)]
  BY <1>0 DEF Damage
<1> HIDE DEF Inside
<1>1. CASE FailsOutside(p)
  <2>1. \A q \in Procs \ {p} : snap'[q] = snap[q]
    BY <1>1, <1>0 DEF FailsOutside, Keeps, TypeOK
  <2>2. pc[p] \notin Inside
    BY <1>1, <1>p DEF FailsOutside
  <2> QED BY <2>1, <2>2, <1>1, <1>0, <1>g, <1>p, OutsideKeeps DEF FailsOutside
<1>2. CASE InstallFails(p)
  <2>1. CASE pc[p] \in {"clear", "swap", "swapped", "unpublish"}
    <3>1. pc'[p] \notin Inside /\ \A q \in Procs \ {p} : pc'[q] = pc[q]
      BY <2>1, <1>2, <1>0, <1>g, <1>o, <1>p DEF InstallFails
    <3>2. Damage(p) /\ (Partly(p) \/ UNCHANGED dir) /\ UNCHANGED reg
      BY <2>1, <1>2 DEF InstallFails
    <3> QED BY <2>1, <3>1, <3>2, <1>0, <1>x, <1>z, <1>p, InsideKeeps
  <2>2. CASE pc[p] = "publish"
    <3>1. Id(p) \in scar \/ reg[Id(p)] = dir[Id(p)]
      BY <2>2, <1>0, <1>p DEF HeldBy, Dir
    <3> QED BY <2>2, <3>1, <1>2, <1>0, <1>g, <1>p, InsideKeeps DEF InstallFails
  <2>3. CASE pc[p] = "register"
    <3>1. HeldBy(p)' /\ Id(p)' = Id(p)
      BY <2>3, <1>2, <1>0, <1>q, <1>p DEF InstallFails, HeldBy, Id, Dir
    <3> QED BY <2>3, <3>1, <1>2, <1>0, <1>q, <1>p, InsideKeeps DEF InstallFails
  <2> QED BY <1>2, <2>1, <2>2, <2>3 DEF InstallFails
<1>3. CASE RemoveFails(p)
  <2>1. CASE pc[p] = "unregister"
    <3>1. Id(p) \in scar \/ reg[Id(p)] = dir[Id(p)]
      BY <2>1, <1>0, <1>p DEF HeldBy, Dir
    <3> QED BY <2>1, <3>1, <1>3, <1>0, <1>g, <1>p, InsideKeeps DEF RemoveFails
  <2>2. CASE pc[p] = "rmdir" /\ GiveUp(p)
    <3>1. Damage(p) /\ Partly(p) /\ UNCHANGED reg
      BY <2>2, <1>3 DEF RemoveFails
    <3> QED BY <2>2, <3>1, <1>0, <1>g, <1>x, <1>z, <1>p, InsideKeeps
  <2>3. CASE pc[p] = "rmdir" /\ Goto(p, "reregister")
    <3>1. Damage(p) /\ Partly(p) /\ UNCHANGED <<reg, snap>>
      BY <2>3, <1>3 DEF RemoveFails
    <3>2. reg[Id(p)] = None /\ dir'[Id(p)] # None /\ reg = [doc[p] EXCEPT ![Id(p)] = None]
      BY <2>3, <3>1, <1>0, <1>x, <1>p, ValuesAssumption DEF HeldBy, Dir, Registries
    <3>3. Id(p) \in scar'
      BY <3>1, <3>2, <2>3, <1>0, <1>z, <1>p
    <3>4. \A j \in Alias[Id(p)] : reg[j] = None /\ dir'[j] = None
      BY <2>3, <3>1, <1>0, <1>x, <1>p, IdsAssumption DEF HeldBy
    <3>5. HeldBy(p)' /\ Id(p)' = Id(p)
      BY <2>3, <3>1, <3>2, <3>3, <3>4, <1>q, <1>p DEF HeldBy, Id, Dir
    <3> QED BY <2>3, <3>1, <3>5, <1>0, <1>q, <1>x, <1>z, <1>p, InsideKeeps
  <2>4. CASE pc[p] = "reregister"
    <3>1. Damage(p) /\ UNCHANGED <<dir, reg>> /\ GiveUp(p)
      BY <2>4, <1>3 DEF RemoveFails
    <3> QED BY <2>4, <3>1, <1>0, <1>g, <1>z, <1>p, InsideKeeps
  <2> QED BY <1>3, <2>1, <2>2, <2>3, <2>4 DEF RemoveFails
<1>4. CASE RestoreFails(p)
  <2>1. Damage(p) /\ (Partly(p) \/ UNCHANGED dir) /\ UNCHANGED reg /\ Leave(p, "failed")
    BY <1>4 DEF RestoreFails
  <2> QED BY <2>1, <1>4, <1>0, <1>o, <1>x, <1>z, <1>p, InsideKeeps DEF RestoreFails
<1>5. CASE Dies(p)
  <2>1. Damage(p) /\ (Partly(p) \/ UNCHANGED dir) /\ UNCHANGED <<reg, snap>> /\ Leave(p, "dead")
    BY <1>5 DEF Dies
  <2>2. CASE pc[p] \in Inside
    BY <2>1, <2>2, <1>0, <1>o, <1>x, <1>z, <1>p, InsideKeeps
  <2>3. CASE pc[p] \notin Inside
    <3>1. UNCHANGED <<dir, scar>>
      BY <2>1, <2>3, <1>5, <1>0, <1>p DEF Dies, Damage
    <3> QED BY <2>1, <2>3, <3>1, <1>0, <1>o, <1>p, OutsideKeeps
  <2> QED BY <2>2, <2>3
<1> QED BY <1>1, <1>2, <1>3, <1>4, <1>5 DEF GoesWrong

\* And the beginning of a command.
LEMMA CommandSound ==
  ASSUME IInv, NEW p \in Procs, Command(p)
  PROVE  Sound'
<1>1. PICK op \in {"add", "remove", "refresh"}, i \in Ids, v \in Entries, force \in BOOLEAN,
           place \in Waiting : Begin(p, op, i, v, force, place)
  BY DEF Command, Add, Remove, Refresh, Entries, Waiting
<1>2. "idle" \notin Inside /\ place \notin Inside
  BY DEF Waiting, Inside, Removing, Installing, Restoring
<1>3. TypeOK /\ TypeOK'
  BY CommandTyped DEF IInv
<1>4. /\ pc'[p] = place /\ pc[p] = "idle" /\ UNCHANGED <<dir, reg, scar>>
      /\ \A q \in Procs \ {p} :
            pc'[q] = pc[q] /\ job'[q] = job[q] /\ doc'[q] = doc[q] /\ snap'[q] = snap[q]
  BY <1>1, <1>3 DEF Begin, TypeOK
<1> QED BY <1>2, <1>3, <1>4, OutsideKeeps

-----------------------------------------------------------------------------
(* The outcome of a refresh *)

Old(p) == reg[Id(p)] = snap[p].entry /\ Dir(p) = snap[p].copy
Gone(p) == reg[Id(p)] = None /\ Dir(p) = None

\* What a refresh knows of the step it has saved, place by place, inside the lock
\* and between its three uses of it.
KnownAt(p) ==
  /\ pc[p] \notin {"save", "remove", "clear", "swap", "swapped"}
  /\ snap[p].entry \in Versions
  /\ pc[p] \in Removing => seen[p] \in {"own", "unclear"}
  /\ pc[p] \in {"register", "unpublish"} => seen[p] \notin Versions
  /\ seen[p] \in Versions => reg[Id(p)] = seen[p] /\ Dir(p) = seen[p]
  /\ pc[p] = "unregister" => Old(p)
  /\ pc[p] \in {"rmdir", "reregister"} => doc[p][Id(p)] = snap[p].entry
  /\ pc[p] = "rmdir" => Dir(p) = snap[p].copy
  /\ pc[p] = "reregister" => Dir(p) \in {snap[p].copy, Torn}
  /\ seen[p] \in {"own", None} /\ Id(p) \notin scar =>
       /\ pc[p] \in {"install", "commit"} => Gone(p)
       /\ pc[p] = "restore" => Gone(p) \/ (seen[p] = "own" /\ Old(p))
       /\ pc[p] = "idle" /\ ~ snap[p].kept => Old(p)

Known(p) ==
  Op(p) = "refresh" => ~ job[p].force /\ (snap[p].had => KnownAt(p))
AllKnown == \A p \in Procs : Known(p)

\* What a step of p does to the others: nothing but to the step p works on, and
\* those who work on it see what it was.
Tells(p) ==
  \E what \in Entries \cup {"unclear"} :
    /\ Shows(p, what)
    /\ what \in Entries => reg'[Id(p)] = what /\ dir'[Id(p)] = what
    /\ pc[p] \notin Inside => what = "unclear"
Quiet(p) ==
  UNCHANGED <<dir, reg, scar>> /\ \A q \in Procs \ {p} : seen'[q] = seen[q]
Local(p) ==
  /\ \A q \in Procs \ {p} :
       pc'[q] = pc[q] /\ job'[q] = job[q] /\ doc'[q] = doc[q] /\ snap'[q] = snap[q]
  /\ \A i \in Ids \ {Id(p)} :
       reg'[i] = reg[i] /\ dir'[i] = dir[i] /\ (i \in scar' <=> i \in scar)
  /\ pc[p] \notin Inside => UNCHANGED <<dir, reg, scar>>

\* A refresh takes notice of what another process does to its step.
LEMMA OthersKnow ==
  ASSUME IInv, NEW p \in Procs, Local(p), Quiet(p) \/ Tells(p),
         NEW r \in Procs \ {p}, Known(r)
  PROVE  Known(r)'
<1> SUFFICES ASSUME Op(r)' = "refresh" PROVE ~ job'[r].force /\ (snap'[r].had => KnownAt(r)')
  BY DEF Known
<1>0. /\ pc'[r] = pc[r] /\ job'[r] = job[r] /\ doc'[r] = doc[r] /\ snap'[r] = snap[r]
      /\ Id(r)' = Id(r) /\ Op(r) = "refresh" /\ Id(r) \in Ids /\ ~ job[r].force
  BY PartsTyped DEF Local, Id, Op, IInv, Known
<1> SUFFICES ASSUME snap[r].had PROVE KnownAt(r)'
  BY <1>0
<1>1. KnownAt(r)
  BY <1>0 DEF Known
<1>2. CASE Id(p) # Id(r) \/ Quiet(p)
  <2>1. reg'[Id(r)] = reg[Id(r)] /\ dir'[Id(r)] = dir[Id(r)] /\ (Id(r) \in scar' <=> Id(r) \in scar)
    BY <1>0, <1>2 DEF Local, Quiet
  <2>2. seen'[r] = seen[r]
    BY <1>0, <1>2 DEF Quiet, Tells, Shows
  <2> QED BY <1>0, <1>1, <2>1, <2>2 DEF KnownAt, Old, Gone, Dir
<1>3. CASE Id(p) = Id(r) /\ Tells(p)
  <2>1. PICK what \in Entries \cup {"unclear"} :
          /\ Shows(p, what)
          /\ what \in Entries => reg'[Id(p)] = what /\ dir'[Id(p)] = what
          /\ pc[p] \notin Inside => what = "unclear"
    BY <1>3 DEF Tells
  <2>2. seen'[r] = IF pc[r] = "idle" THEN "unclear" ELSE what
    BY <1>0, <1>3, <2>1 DEF Shows
  <2>3. CASE pc[r] \in Inside
    <3>1. pc[p] \notin Inside
      BY <2>3 DEF IInv, TypeOK
    <3>2. seen'[r] = "unclear" /\ UNCHANGED <<dir, reg, scar>>
      BY <2>1, <2>2, <3>1 DEF Local
    <3> QED BY <1>0, <1>1, <3>2, ValuesAssumption DEF KnownAt, Old, Gone, Dir
  <2>4. CASE pc[r] \notin Inside
    <3>1. pc[r] \notin {"unregister", "rmdir", "reregister", "register", "unpublish"}
      BY <2>4 DEF Inside, Removing, Installing
    <3>2. seen'[r] \in Versions => reg'[Id(r)] = seen'[r] /\ dir'[Id(r)] = seen'[r]
      BY <2>1, <2>2, <1>3, ValuesAssumption DEF Entries
    <3>3. seen'[r] \in {"own", None} => reg'[Id(r)] = None /\ dir'[Id(r)] = None /\ pc[r] # "idle"
      BY <2>1, <2>2, <1>3, ValuesAssumption DEF Entries
    <3> QED BY <1>0, <1>1, <3>1, <3>2, <3>3 DEF KnownAt, Gone, Dir, Removing
  <2> QED BY <2>3, <2>4
<1> QED BY <1>2, <1>3

\* What the parts of the actions do to the step p works on, to the others, and to
\* the control of p.
LEMMA PartsTell ==
  ASSUME IInv, NEW p \in Procs
  PROVE  /\ Id(p) \in Ids
         /\ \A v : Write(p, v) /\ pc[p] \in Inside =>
              reg'[Id(p)] = v /\ \A i \in Ids \ {Id(p)} : reg'[i] = reg[i]
         /\ \A v : Replace(p, v) =>
              dir'[Id(p)] = v /\ \A i \in Ids \ {Id(p)} : dir'[i] = dir[i]
         /\ Partly(p) => /\ dir'[Id(p)] \in {Dir(p), Torn}
                         /\ \A i \in Ids \ {Id(p)} : dir'[i] = dir[i]
         /\ Damage(p) => /\ \A i \in Ids \ {Id(p)} : i \in scar' <=> i \in scar
                         /\ lock = p => Id(p) \in scar' \/ dir'[Id(p)] = reg[Id(p)]
                         /\ Id(p) \in scar => Id(p) \in scar'
         /\ pc[p] \in Inside <=> lock = p
         /\ \A place : Goto(p, place) => pc'[p] = place /\ job' = job /\ doc' = doc
                                         /\ \A q \in Procs \ {p} : pc'[q] = pc[q]
         /\ \A place : Lock(p, place) =>
              /\ pc'[p] = place /\ job' = job /\ doc'[p] = reg
              /\ \A q \in Procs \ {p} : pc'[q] = pc[q] /\ doc'[q] = doc[q]
         /\ \A o : Leave(p, o) =>
              /\ pc'[p] = "idle"
              /\ IF Op(p) = "refresh" /\ o = "failed" THEN job' = job ELSE job'[p] = NoJob
              /\ \A q \in Procs \ {p} : pc'[q] = pc[q] /\ job'[q] = job[q] /\ doc'[q] = doc[q]
<1>1. Id(p) \in Ids /\ reg \in Registries /\ doc[p] \in Registries
      /\ dir \in [Ids -> Entries \cup {Torn}] /\ TypeOK
  BY PartsTyped DEF IInv, TypeOK
<1>2. \A v : Replace(p, v) =>
        dir'[Id(p)] = v /\ \A i \in Ids \ {Id(p)} : dir'[i] = dir[i]
  BY <1>1 DEF Replace
<1>3. pc[p] \in Inside => \A i \in Ids \ {Id(p)} : doc[p][i] = reg[i]
  BY <1>1 DEF IInv, Sound, Held, HeldBy, Registries, Inside, Removing, Installing, Restoring
<1>4. \A v : Write(p, v) /\ pc[p] \in Inside =>
        reg'[Id(p)] = v /\ \A i \in Ids \ {Id(p)} : reg'[i] = reg[i]
  BY <1>1, <1>3 DEF Write, Registries
<1>5. Partly(p) => /\ dir'[Id(p)] \in {Dir(p), Torn}
                   /\ \A i \in Ids \ {Id(p)} : dir'[i] = dir[i]
  BY <1>2 DEF Partly
<1>6. Damage(p) => /\ \A i \in Ids \ {Id(p)} : i \in scar' <=> i \in scar
                   /\ lock = p => Id(p) \in scar' \/ dir'[Id(p)] = reg[Id(p)]
                   /\ Id(p) \in scar => Id(p) \in scar'
  BY DEF Damage
<1>7. \A place : Goto(p, place) => pc'[p] = place /\ job' = job /\ doc' = doc
                                   /\ \A q \in Procs \ {p} : pc'[q] = pc[q]
  BY <1>1 DEF Goto, TypeOK
<1>8. \A place : Lock(p, place) =>
        /\ pc'[p] = place /\ job' = job /\ doc'[p] = reg
        /\ \A q \in Procs \ {p} : pc'[q] = pc[q] /\ doc'[q] = doc[q]
  BY <1>1 DEF Lock, TypeOK, Document
<1>9. \A o : Leave(p, o) =>
        /\ pc'[p] = "idle"
        /\ IF Op(p) = "refresh" /\ o = "failed" THEN job' = job ELSE job'[p] = NoJob
        /\ \A q \in Procs \ {p} : pc'[q] = pc[q] /\ job'[q] = job[q] /\ doc'[q] = doc[q]
  BY <1>1 DEF Leave, TypeOK
<1> QED BY <1>1, <1>2, <1>4, <1>5, <1>6, <1>7, <1>8, <1>9 DEF TypeOK

\* What giving up does to the control of p.
LEMMA GivingUp ==
  ASSUME IInv, NEW p \in Procs, GiveUp(p)
  PROVE  /\ \A q \in Procs \ {p} : pc'[q] = pc[q] /\ job'[q] = job[q] /\ doc'[q] = doc[q]
         /\ job'[p] = job[p] \/ job'[p] = NoJob
         /\ pc'[p] = IF snap[p].had /\ pc[p] \notin Restoring \cup {"restore"}
                     THEN "restore" ELSE "idle"
<1>1. CASE snap[p].had /\ pc[p] \notin Restoring \cup {"restore"}
  BY <1>1 DEF GiveUp, IInv, TypeOK
<1>2. CASE ~ (snap[p].had /\ pc[p] \notin Restoring \cup {"restore"})
  BY <1>2, PartsTell DEF GiveUp, IInv, TypeOK
<1> QED BY <1>1, <1>2

\* Every step of a command tells the others what it did.
LEMMA StepTells ==
  ASSUME IInv, NEW p \in Procs, Step(p)
  PROVE  Local(p) /\ (Quiet(p) \/ Tells(p))
<1>p. /\ {"unregister", "rmdir", "reregister"} = Removing
      /\ {"clear", "swap", "swapped", "publish", "register", "unpublish"} = Installing
      /\ {"wipe", "copy", "enter"} = Restoring
      /\ Inside = Removing \cup Installing \cup Restoring
      /\ "idle" \notin Inside /\ Waiting \cap Inside = {} /\ "install" \notin Inside
  BY DEF Waiting, Inside, Removing, Installing, Restoring
<1>0. /\ pc[p] \in Inside => HeldBy(p)
      /\ snap \in [Procs -> Snapshot] /\ seen \in [Procs -> Entries \cup {"own", "unclear"}]
      /\ job[p].ver \in Entries /\ snap[p].entry \in Entries /\ None \in Entries
      /\ "unclear" \notin Entries
  BY ValuesAssumption DEF IInv, TypeOK, Sound, Held, Job, Snapshot, Entries
<1> HIDE DEF Inside
<1>1. CASE LockInstall(p)
  BY <1>1, <1>0, <1>p, PartsTell, GivingUp DEF LockInstall, Local, Quiet, Waiting
<1>2. CASE Clear(p)
  BY <1>2, <1>0, <1>p, PartsTell DEF Clear, Local, Tells
<1>3. CASE Publish(p)
  BY <1>3, <1>0, <1>p, PartsTell DEF Publish, Local, Tells
<1>4. CASE Register(p)
  BY <1>4, <1>0, <1>p, PartsTell DEF Register, Local, Tells, HeldBy, Dir
<1>5. CASE Unpublish(p)
  BY <1>5, <1>0, <1>p, PartsTell, GivingUp DEF Unpublish, Local, Tells
<1>6. CASE LockRemove(p)
  BY <1>6, <1>0, <1>p, PartsTell, GivingUp DEF LockRemove, Local, Quiet, Waiting
<1>r. ASSUME Removed(p)
      PROVE  /\ \A q \in Procs \ {p} : pc'[q] = pc[q] /\ job'[q] = job[q] /\ doc'[q] = doc[q]
             /\ \A i \in Ids \ {Id(p)} : i \in scar' <=> i \in scar
             /\ Shows(p, "unclear") \/ Shows(p, None)
  <2>1. CASE Op(p) = "refresh"
    BY <2>1, <1>r DEF Removed, IInv, TypeOK
  <2>2. CASE Op(p) # "refresh"
    BY <2>2, <1>r, PartsTell DEF Removed
  <2> QED BY <2>1, <2>2
<1>7. CASE Unregister(p)
  <2>1. CASE Dir(p) = None
    BY <2>1, <1>7, <1>0, <1>p, <1>r, PartsTell DEF Unregister, Local, Tells, Dir
  <2>2. CASE Dir(p) # None
    BY <2>2, <1>7, <1>0, <1>p, PartsTell DEF Unregister, Local, Tells
  <2> QED BY <2>1, <2>2
<1>8. CASE RemoveDirectory(p)
  <2>1. reg[Id(p)] = None
    BY <1>8, <1>0, <1>p, PartsTell DEF RemoveDirectory, HeldBy, IInv, TypeOK, Registries
  <2> QED BY <2>1, <1>8, <1>0, <1>p, <1>r, PartsTell DEF RemoveDirectory, Local, Tells
<1>9. CASE Reregister(p)
  BY <1>9, <1>0, <1>p, PartsTell, GivingUp DEF Reregister, Local, Tells
<1>10. CASE Save(p)
  <2>1. /\ \A q \in Procs \ {p} : snap'[q] = snap[q] /\ seen'[q] = seen[q]
        /\ \A q \in Procs \ {p} : pc'[q] = pc[q] /\ job'[q] = job[q] /\ doc'[q] = doc[q]
    <3>1. CASE Document(p)[Id(p)] = None
      BY <3>1, <1>10, <1>0, PartsTell DEF Save
    <3>2. CASE Document(p)[Id(p)] # None
      BY <3>2, <1>10, <1>0, PartsTell DEF Save
    <3> QED BY <3>1, <3>2
  <2> QED BY <2>1, <1>10, <1>0, <1>p, PartsTell DEF Save, Local, Quiet, Waiting
<1>11. CASE Install(p)
  <2>1. /\ pc[p] = "install" /\ UNCHANGED <<dir, reg, snap, scar, seen>>
        /\ Goto(p, "commit") \/ GiveUp(p)
    BY <1>11 DEF Install
  <2> QED BY <2>1, <1>0, <1>p, PartsTell, GivingUp DEF Local, Quiet
<1>12. CASE LockRestore(p)
  BY <1>12, <1>0, <1>p, PartsTell DEF LockRestore, Local, Quiet, Keeps, Waiting
<1>13. CASE Wipe(p)
  BY <1>13, <1>0, <1>p, PartsTell DEF Wipe, Local, Tells
<1>14. CASE Copy(p)
  BY <1>14, <1>0, <1>p, PartsTell DEF Copy, Local, Tells
<1>15. CASE Enter(p)
  BY <1>15, <1>0, <1>p, PartsTell DEF Enter, Local, Tells, HeldBy, Dir
<1> QED BY <1>1, <1>2, <1>3, <1>4, <1>5, <1>6, <1>7, <1>8, <1>9, <1>10, <1>11, <1>12,
           <1>13, <1>14, <1>15 DEF Step

\* So does every failure.
LEMMA FaultTells ==
  ASSUME IInv, NEW p \in Procs, GoesWrong(p)
  PROVE  Local(p) /\ (Quiet(p) \/ Tells(p))
<1>p. /\ {"clear", "swap", "swapped", "publish", "register", "unpublish"} \subseteq Inside
      /\ {"unregister", "rmdir", "reregister"} \subseteq Inside /\ Restoring \subseteq Inside
      /\ (Waiting \cup {"install"}) \cap Inside = {}
      /\ {"wipe", "copy", "enter"} = Restoring
  BY DEF Waiting, Inside, Removing, Installing, Restoring
<1>0. /\ snap \in [Procs -> Snapshot] /\ seen \in [Procs -> Entries \cup {"own", "unclear"}]
      /\ "unclear" \notin Entries
  BY ValuesAssumption DEF IInv, TypeOK, Entries
<1> HIDE DEF Inside
<1>1. CASE FailsOutside(p)
  <2>1. \A q \in Procs \ {p} : snap'[q] = snap[q]
    BY <1>1, <1>0 DEF FailsOutside, Keeps
  <2> QED BY <2>1, <1>1, <1>0, <1>p, GivingUp DEF FailsOutside, Local, Quiet
<1>2. CASE InstallFails(p)
  <2>1. /\ pc[p] \in Inside /\ Shows(p, "unclear") /\ UNCHANGED <<reg, snap>>
        /\ Partly(p) \/ UNCHANGED dir
        /\ Damage(p) \/ UNCHANGED scar
        /\ Leave(p, "failed") \/ GiveUp(p) \/ Goto(p, "unpublish")
    BY <1>2, <1>p DEF InstallFails
  <2> QED BY <2>1, <1>0, PartsTell, GivingUp DEF Local, Tells
<1>3. CASE RemoveFails(p)
  <2>1. /\ pc[p] \in Inside /\ Shows(p, "unclear") /\ UNCHANGED <<reg, snap>>
        /\ Partly(p) \/ UNCHANGED dir
        /\ Damage(p) \/ UNCHANGED scar
        /\ GiveUp(p) \/ Goto(p, "reregister")
    BY <1>3, <1>p DEF RemoveFails
  <2> QED BY <2>1, <1>0, PartsTell, GivingUp DEF Local, Tells
<1>4. CASE RestoreFails(p)
  <2>1. /\ pc[p] \in Inside /\ Shows(p, "unclear") /\ UNCHANGED reg /\ Keeps(p)
        /\ Partly(p) \/ UNCHANGED dir
        /\ Damage(p) /\ Leave(p, "failed")
    BY <1>4, <1>p DEF RestoreFails
  <2> QED BY <2>1, <1>0, PartsTell DEF Local, Tells, Keeps
<1>5. CASE Dies(p)
  <2>1. /\ Shows(p, "unclear") /\ UNCHANGED <<reg, snap>> /\ Damage(p) /\ Leave(p, "dead")
        /\ Partly(p) \/ UNCHANGED dir
    BY <1>5 DEF Dies
  <2>2. pc[p] \notin Inside => UNCHANGED <<dir, scar>>
    BY <1>5, <1>p, PartsTell DEF Dies, Damage
  <2> QED BY <2>1, <2>2, <1>0, PartsTell DEF Local, Tells
<1> QED BY <1>1, <1>2, <1>3, <1>4, <1>5 DEF GoesWrong

\* What a process does itself it knows.
LEMMA OwnStepKnows ==
  ASSUME IInv, NEW p \in Procs, Known(p), Step(p)
  PROVE  Known(p)'
<1> SUFFICES ASSUME Op(p)' = "refresh"
             PROVE  ~ job'[p].force /\ (snap'[p].had => KnownAt(p)')
  BY DEF Known
<1>p. /\ {"unregister", "rmdir", "reregister"} = Removing
      /\ {"clear", "swap", "swapped", "publish", "register", "unpublish"} = Installing
      /\ {"wipe", "copy", "enter"} = Restoring
      /\ Inside = Removing \cup Installing \cup Restoring
  BY DEF Inside, Removing, Installing, Restoring
<1>0. /\ pc[p] \in Inside => HeldBy(p)
      /\ snap \in [Procs -> Snapshot] /\ reg \in Registries /\ Id(p) \in Ids
      /\ pc[p] \in Inside => lock = p
      /\ NoJob.op = "none"
  BY PartsTell DEF IInv, TypeOK, Sound, Held, NoJob
<1>v. /\ {None, Torn, "own", "unclear"} \cap Versions = {}
      /\ None # "own" /\ None # "unclear"
  BY ValuesAssumption
<1>j. job'[p] = job[p] /\ Op(p) = "refresh" /\ ~ job[p].force /\ Id(p)' = Id(p)
  <2>1. job'[p] = job[p] \/ job'[p] = NoJob
    BY PartsTell, GivingUp DEF Step, LockInstall, Clear, Publish, Register, Unpublish, LockRemove,
       Unregister, RemoveDirectory, Reregister, Removed, Save, Install, LockRestore, Wipe, Copy, Enter
  <2> QED BY <2>1, <1>0 DEF Op, Id, Known
<1>s. ASSUME NEW what, Shows(p, what) PROVE seen'[p] = seen[p]
  BY <1>s DEF Shows
<1>10. CASE Save(p)
  <2>1. CASE reg[Id(p)] = None
    BY <2>1, <1>10, <1>j DEF Save, Document, Known, KnownAt
  <2>2. CASE reg[Id(p)] # None
    <3>1. /\ pc'[p] = "unregister" /\ UNCHANGED <<dir, reg, scar>>
          /\ snap'[p].entry = reg[Id(p)] /\ snap'[p].copy = Dir(p) /\ seen'[p] = "own"
      BY <2>2, <1>10, <1>0, PartsTell DEF Save, Document, FirstOfRemoval, IInv, TypeOK
    <3>2. reg[Id(p)] \in Versions
      BY <2>2, <1>0 DEF Registries, Entries
    <3> QED BY <3>1, <3>2, <1>j, <1>v, <1>p DEF KnownAt, Old, Dir
  <2> QED BY <2>1, <2>2
<1>h. ASSUME ~ Save(p)
      PROVE  /\ snap'[p].entry = snap[p].entry /\ snap'[p].copy = snap[p].copy
             /\ snap'[p].had = snap[p].had /\ seen'[p] = seen[p]
             /\ snap'[p] = snap[p] \/ snap'[p].kept
  <2>1. UNCHANGED snap \/ Keeps(p)
    BY <1>h DEF Step, LockInstall, Clear, Publish, Register, Unpublish, LockRemove,
       Unregister, RemoveDirectory, Reregister, Install, LockRestore, Wipe, Copy, Enter
  <2>2. UNCHANGED seen \/ \E what : Shows(p, what)
    BY <1>h DEF Step, LockInstall, Clear, Publish, Register, Unpublish, LockRemove,
       Unregister, RemoveDirectory, Reregister, Removed, Install, LockRestore, Wipe, Copy, Enter
  <2> QED BY <2>1, <2>2, <1>0, <1>s DEF Keeps, Snapshot
<1> SUFFICES ASSUME ~ Save(p), snap[p].had PROVE KnownAt(p)'
  BY <1>10, <1>h, <1>j
<1>k. KnownAt(p)
  BY <1>j DEF Known
<1>g. GiveUp(p) => pc'[p] = IF pc[p] \notin Restoring \cup {"restore"} THEN "restore" ELSE "idle"
  BY GivingUp
<1> HIDE DEF Inside, Removing, Installing, Restoring
<1> USE DEF KnownAt, Dir
<1>1. CASE LockInstall(p)
  <2>1. UNCHANGED <<dir, reg, scar>> /\ pc[p] = "commit"
    BY <1>1 DEF LockInstall
  <2>2. CASE GiveUp(p)
    BY <2>1, <2>2, <1>h, <1>j, <1>k, <1>p, <1>g DEF Gone
  <2>3. CASE Installable(reg, Id(p), FALSE) /\ Lock(p, IF Dir(p) = None THEN "publish" ELSE "clear")
    <3>1. pc'[p] = "publish" /\ reg[Id(p)] = None
      BY <2>3, PartsTell DEF Installable
    <3> QED BY <2>1, <3>1, <1>h, <1>j, <1>k, <1>v, <1>p
  <2>4. job[p].force = FALSE
    BY <1>j DEF IInv, TypeOK, Job
  <2> QED BY <1>1, <2>2, <2>3, <2>4 DEF LockInstall, Document
<1>2. CASE Clear(p)
  BY <1>2, <1>k DEF Clear
<1>3. CASE Publish(p)
  <2>1. pc[p] = "publish" /\ pc'[p] = "register" /\ UNCHANGED <<reg, scar>> /\ Dir(p) = None
    BY <1>3, <1>k, <1>0, <1>p, PartsTell DEF Publish, HeldBy
  <2> QED BY <2>1, <1>h, <1>j, <1>k, <1>v, <1>p
<1>4. CASE Register(p)
  <2>1. job'[p] = NoJob
    BY <1>4, PartsTell DEF Register
  <2> QED BY <2>1, <1>0, <1>j DEF Op
<1>5. CASE Unpublish(p)
  <2>1. pc[p] = "unpublish" /\ UNCHANGED <<reg, scar>> /\ dir'[Id(p)] = None /\ pc'[p] = "restore"
    BY <1>5, <1>g, <1>p, PartsTell DEF Unpublish
  <2>2. Id(p) \notin scar => reg[Id(p)] = None
    BY <2>1, <1>0, <1>p DEF HeldBy
  <2> QED BY <2>1, <2>2, <1>h, <1>j, <1>k, <1>v, <1>p DEF Gone
<1>6. CASE LockRemove(p)
  BY <1>6, <1>k DEF LockRemove
<1>r. ASSUME Removed(p)
      PROVE  pc'[p] = "install" /\ UNCHANGED scar
  BY <1>r, <1>j DEF Removed, IInv, TypeOK
<1>7. CASE Unregister(p)
  <2>1. /\ pc[p] = "unregister" /\ UNCHANGED dir /\ doc[p] = reg
        /\ reg'[Id(p)] = None /\ Old(p) /\ UNCHANGED scar
    BY <1>7, <1>k, <1>0, <1>p, <1>r, PartsTell DEF Unregister, HeldBy
  <2>2. CASE Dir(p) = None
    <3>1. pc'[p] = "install"
      BY <2>2, <1>7, <1>r DEF Unregister
    <3> QED BY <2>1, <2>2, <3>1, <1>h, <1>j, <1>k, <1>v, <1>p DEF Gone
  <2>3. CASE Dir(p) # None
    <3>1. pc'[p] = "rmdir" /\ doc'[p] = doc[p]
      BY <2>3, <1>7, PartsTell DEF Unregister
    <3> QED BY <2>1, <3>1, <1>h, <1>j, <1>k, <1>v, <1>p DEF Old
  <2> QED BY <2>2, <2>3
<1>8. CASE RemoveDirectory(p)
  <2>1. /\ pc[p] = "rmdir" /\ UNCHANGED <<reg, scar>> /\ dir'[Id(p)] = None /\ pc'[p] = "install"
    BY <1>8, <1>r, PartsTell DEF RemoveDirectory
  <2>2. reg[Id(p)] = None
    BY <2>1, <1>0, <1>p DEF HeldBy, IInv, TypeOK, Registries
  <2> QED BY <2>1, <2>2, <1>h, <1>j, <1>k, <1>v, <1>p DEF Gone
<1>9. CASE Reregister(p)
  <2>1. /\ pc[p] = "reregister" /\ UNCHANGED dir /\ reg'[Id(p)] = snap[p].entry
        /\ pc'[p] = "restore" /\ Id(p) \in scar
        /\ scar' = IF Dir(p) = snap[p].entry THEN scar \ {Id(p)} ELSE scar
    BY <1>9, <1>k, <1>0, <1>p, <1>g, PartsTell DEF Reregister, HeldBy
  <2>2. Id(p) \notin scar' => Dir(p) = snap[p].copy
    BY <2>1, <1>k, <1>v
  <2> QED BY <2>1, <2>2, <1>h, <1>j, <1>k, <1>v, <1>p DEF Old
<1>11. CASE Install(p)
  <2>1. /\ pc[p] = "install" /\ UNCHANGED <<dir, reg, snap, scar, seen>>
        /\ Goto(p, "commit") \/ GiveUp(p)
    BY <1>11 DEF Install
  <2>2. pc'[p] \in {"commit", "restore"}
    BY <2>1, <1>g, <1>p, PartsTell
  <2> QED BY <2>1, <2>2, <1>h, <1>j, <1>k, <1>p DEF Gone
<1>12. CASE LockRestore(p)
  <2>1. pc[p] = "restore" /\ UNCHANGED <<dir, reg, scar>>
    BY <1>12 DEF LockRestore
  <2>2. CASE Superseded(p) /\ Leave(p, "failed")
    <3>1. pc'[p] = "idle" /\ reg[Id(p)] # None
      BY <2>2, PartsTell DEF Superseded, Document
    <3> QED BY <2>1, <3>1, <1>h, <1>j, <1>k, <1>v, <1>p DEF Gone, Old
  <2>3. CASE Leave(p, "failed") /\ Keeps(p)
    <3>1. pc'[p] = "idle" /\ snap'[p].kept
      BY <2>3, <1>0, PartsTell DEF Keeps, Snapshot
    <3> QED BY <2>1, <3>1, <1>h, <1>j, <1>k, <1>v, <1>p
  <2>4. CASE ~ Superseded(p) /\ Lock(p, IF Dir(p) # None THEN "wipe" ELSE "copy")
    <3>1. pc'[p] \in {"wipe", "copy"} /\ reg[Id(p)] = None
      BY <2>4, PartsTell DEF Superseded, Document
    <3> QED BY <2>1, <3>1, <1>h, <1>j, <1>k, <1>v, <1>p
  <2> QED BY <1>12, <2>2, <2>3, <2>4 DEF LockRestore
<1>z. pc[p] \in Restoring => reg[Id(p)] = None /\ seen[p] \notin Versions
  BY <1>0, <1>k, <1>p, <1>v DEF HeldBy
<1>13. CASE Wipe(p)
  <2>1. pc[p] = "wipe" /\ pc'[p] = "copy" /\ UNCHANGED <<reg, scar>>
    BY <1>13, PartsTell DEF Wipe
  <2> QED BY <2>1, <1>z, <1>h, <1>j, <1>k, <1>v, <1>p
<1>14. CASE Copy(p)
  <2>1. pc[p] = "copy" /\ pc'[p] = "enter" /\ UNCHANGED <<reg, scar>>
    BY <1>14, PartsTell DEF Copy
  <2> QED BY <2>1, <1>z, <1>h, <1>j, <1>k, <1>v, <1>p
<1>15. CASE Enter(p)
  <2>1. /\ pc[p] = "enter" /\ pc'[p] = "idle" /\ UNCHANGED dir
        /\ reg'[Id(p)] = snap[p].entry /\ Dir(p) = snap[p].copy
    BY <1>15, <1>0, <1>p, PartsTell DEF Enter, HeldBy
  <2> QED BY <2>1, <1>z, <1>h, <1>j, <1>k, <1>v, <1>p DEF Old
<1> QED BY <1>1, <1>2, <1>3, <1>4, <1>5, <1>6, <1>7, <1>8, <1>9, <1>11, <1>12,
           <1>13, <1>14, <1>15 DEF Step

\* Also of its failures.
LEMMA OwnFaultKnows ==
  ASSUME IInv, NEW p \in Procs, Known(p), GoesWrong(p)
  PROVE  Known(p)'
<1> SUFFICES ASSUME Op(p)' = "refresh"
             PROVE  ~ job'[p].force /\ (snap'[p].had => KnownAt(p)')
  BY DEF Known
<1>p. /\ {"unregister", "rmdir", "reregister"} = Removing
      /\ {"clear", "swap", "swapped", "publish", "register", "unpublish"} = Installing
      /\ {"wipe", "copy", "enter"} = Restoring
      /\ Inside = Removing \cup Installing \cup Restoring
  BY DEF Inside, Removing, Installing, Restoring
<1>0. /\ pc[p] \in Inside => HeldBy(p)
      /\ snap \in [Procs -> Snapshot] /\ reg \in Registries /\ Id(p) \in Ids
      /\ pc[p] \in Inside => lock = p
      /\ NoJob.op = "none"
  BY PartsTell DEF IInv, TypeOK, Sound, Held, NoJob
<1>v. /\ {None, Torn, "own", "unclear"} \cap Versions = {}
      /\ None # "own" /\ None # "unclear"
  BY ValuesAssumption
<1>j. job'[p] = job[p] /\ Op(p) = "refresh" /\ ~ job[p].force /\ Id(p)' = Id(p)
  <2>1. job'[p] = job[p] \/ job'[p] = NoJob
    BY PartsTell, GivingUp DEF GoesWrong, FailsOutside, InstallFails, RemoveFails, RestoreFails, Dies
  <2> QED BY <2>1, <1>0 DEF Op, Id, Known
<1>h. /\ snap'[p].entry = snap[p].entry /\ snap'[p].copy = snap[p].copy
      /\ snap'[p].had = snap[p].had /\ seen'[p] = seen[p]
      /\ snap'[p] = snap[p] \/ snap'[p].kept
      /\ UNCHANGED reg
  <2>1. UNCHANGED snap \/ Keeps(p)
    BY DEF GoesWrong, FailsOutside, InstallFails, RemoveFails, RestoreFails, Dies
  <2>2. seen'[p] = seen[p] /\ UNCHANGED reg
    BY DEF GoesWrong, FailsOutside, InstallFails, RemoveFails, RestoreFails, Dies, Shows
  <2> QED BY <2>1, <2>2, <1>0 DEF Keeps, Snapshot
<1> SUFFICES ASSUME snap[p].had PROVE KnownAt(p)'
  BY <1>h, <1>j
<1>k. KnownAt(p)
  BY <1>j DEF Known
<1>g. GiveUp(p) => pc'[p] = IF pc[p] \notin Restoring \cup {"restore"} THEN "restore" ELSE "idle"
  BY GivingUp
<1> HIDE DEF Inside, Removing, Installing, Restoring
<1> USE DEF KnownAt, Dir
<1>1. CASE FailsOutside(p)
  <2>1. pc[p] \in {"commit", "restore", "install"} /\ UNCHANGED <<dir, scar>> /\ GiveUp(p)
    BY <1>1, <1>k DEF FailsOutside, Waiting
  <2>2. CASE pc[p] = "restore"
    <3>1. pc'[p] = "idle" /\ snap'[p].kept
      BY <2>2, <1>1, <1>0, <1>g DEF FailsOutside, Keeps, Snapshot
    <3> QED BY <2>1, <3>1, <1>h, <1>j, <1>k, <1>v, <1>p
  <2>3. CASE pc[p] # "restore"
    <3>1. pc'[p] = "restore"
      BY <2>1, <2>3, <1>g, <1>p
    <3> QED BY <2>1, <2>3, <3>1, <1>h, <1>j, <1>k, <1>v, <1>p DEF Gone
  <2> QED BY <2>2, <2>3
<1>2. CASE InstallFails(p)
  <2>0. pc[p] \notin {"clear", "swap", "swapped"}
    BY <1>k
  <2>1. CASE pc[p] = "publish"
    <3>1. pc'[p] = "restore" /\ UNCHANGED <<dir, scar>> /\ Dir(p) = None
          /\ (Id(p) \notin scar => reg[Id(p)] = None)
      BY <2>1, <1>2, <1>0, <1>g, <1>p DEF InstallFails, HeldBy
    <3> QED BY <3>1, <1>h, <1>j, <1>k, <1>v, <1>p DEF Gone
  <2>2. CASE pc[p] = "register"
    <3>1. pc'[p] = "unpublish" /\ UNCHANGED <<dir, scar>>
      BY <2>2, <1>2, PartsTell DEF InstallFails
    <3> QED BY <2>2, <3>1, <1>h, <1>j, <1>k, <1>v, <1>p
  <2>3. CASE pc[p] = "unpublish"
    <3>1. pc'[p] = "restore" /\ Damage(p)
      BY <2>3, <1>2, <1>g, <1>p DEF InstallFails
    <3>2. Id(p) \notin scar' => reg[Id(p)] = None /\ dir'[Id(p)] = None
      BY <2>3, <3>1, <1>0, <1>p, PartsTell DEF HeldBy
    <3> QED BY <2>3, <3>1, <3>2, <1>h, <1>j, <1>k, <1>v, <1>p DEF Gone
  <2> QED BY <1>2, <2>0, <2>1, <2>2, <2>3 DEF InstallFails
<1>3. CASE RemoveFails(p)
  <2>1. CASE pc[p] = "unregister"
    <3>1. pc'[p] = "restore" /\ UNCHANGED <<dir, scar>>
      BY <2>1, <1>3, <1>g, <1>p DEF RemoveFails
    <3> QED BY <2>1, <3>1, <1>h, <1>j, <1>k, <1>v, <1>p DEF Old
  <2>2. CASE pc[p] = "rmdir"
    <3>1. doc[p][Id(p)] # None
      BY <2>2, <1>k, <1>v
    <3>2. pc'[p] = "reregister" /\ doc'[p] = doc[p] /\ Partly(p)
      BY <2>2, <3>1, <1>3, PartsTell DEF RemoveFails
    <3>3. dir'[Id(p)] \in {snap[p].copy, Torn}
      BY <2>2, <3>2, <1>k, PartsTell
    <3> QED BY <2>2, <3>2, <3>3, <1>h, <1>j, <1>k, <1>v, <1>p
  <2>3. CASE pc[p] = "reregister"
    <3>1. pc'[p] = "restore" /\ UNCHANGED dir /\ Damage(p)
      BY <2>3, <1>3, <1>g, <1>p DEF RemoveFails
    <3>2. Id(p) \in scar'
      BY <2>3, <3>1, <1>0, <1>p, PartsTell DEF HeldBy
    <3> QED BY <2>3, <3>1, <3>2, <1>h, <1>j, <1>k, <1>v, <1>p
  <2> QED BY <1>3, <2>1, <2>2, <2>3 DEF RemoveFails
<1>4. CASE RestoreFails(p)
  <2>1. pc[p] \in Restoring /\ pc'[p] = "idle" /\ snap'[p].kept
    BY <1>4, <1>0, PartsTell DEF RestoreFails, Keeps, Snapshot
  <2>2. reg[Id(p)] = None
    BY <2>1, <1>0, <1>p DEF HeldBy
  <2> QED BY <2>1, <2>2, <1>h, <1>j, <1>k, <1>v, <1>p
<1>5. CASE Dies(p)
  <2>1. job'[p] = NoJob
    BY <1>5, PartsTell DEF Dies
  <2> QED BY <2>1, <1>0, <1>j DEF Op
<1> QED BY <1>1, <1>2, <1>3, <1>4, <1>5 DEF GoesWrong

\* A command begins with nothing saved.
LEMMA CommandKnows ==
  ASSUME IInv, NEW p \in Procs, Command(p)
  PROVE  Local(p) /\ Quiet(p) /\ Known(p)'
<1>1. PICK op \in {"add", "remove", "refresh"}, i \in Ids, v \in Entries, force \in BOOLEAN,
           place \in Waiting :
        /\ Begin(p, op, i, v, force, place) /\ (op = "refresh" => force = FALSE)
  BY DEF Command, Add, Remove, Refresh, Entries, Waiting
<1>2. /\ pc[p] = "idle" /\ UNCHANGED <<dir, reg, scar>>
      /\ \A q \in Procs \ {p} : /\ pc'[q] = pc[q] /\ job'[q] = job[q] /\ doc'[q] = doc[q]
                                /\ snap'[q] = snap[q] /\ seen'[q] = seen[q]
      /\ ~ snap'[p].had
      /\ Op(p)' = "refresh" => ~ job'[p].force
  BY <1>1 DEF Begin, IInv, TypeOK, NoSnap, Op
<1> QED BY <1>2 DEF Local, Quiet, Known

\* At first no refresh runs.
LEMMA InitKnown == Init => AllKnown
BY DEF Init, AllKnown, Known, Op, NoJob

\* Every refresh keeps knowing its step, whoever moves.
LEMMA NextKnown == IInv /\ AllKnown /\ [Next]_vars => AllKnown'
<1> SUFFICES ASSUME IInv, AllKnown, [Next]_vars PROVE AllKnown'
  OBVIOUS
<1>1. CASE UNCHANGED vars
  BY <1>1 DEF AllKnown, Known, KnownAt, Old, Gone, vars, Id, Op, Dir
<1>2. ASSUME NEW p \in Procs, Command(p) \/ Step(p) \/ GoesWrong(p) PROVE AllKnown'
  <2>1. Known(p)'
    BY <1>2, CommandKnows, OwnStepKnows, OwnFaultKnows DEF AllKnown
  <2>2. Local(p) /\ (Quiet(p) \/ Tells(p))
    BY <1>2, CommandKnows, StepTells, FaultTells
  <2>3. ASSUME NEW r \in Procs \ {p} PROVE Known(r)'
    BY <2>2, OthersKnow DEF AllKnown
  <2> QED BY <2>1, <2>3 DEF AllKnown
<1> QED BY <1>1, <1>2 DEF Next, Rest

-----------------------------------------------------------------------------
(* Theorems *)

\* Commands, their steps and failures keep the inductive invariant.
LEMMA NextIInv == IInv /\ [Next]_vars => IInv'
<1> SUFFICES ASSUME IInv, [Next]_vars PROVE IInv'
  OBVIOUS
<1>1. CASE UNCHANGED vars
  BY <1>1 DEF IInv, TypeOK, Sound, Held, HeldBy, Whole, Distinct, Present, vars, Id, Dir
<1>2. ASSUME NEW p \in Procs, Command(p) \/ Step(p) \/ GoesWrong(p) PROVE IInv'
  BY <1>2, StepTyped, StepSound, FaultTyped, FaultSound, CommandTyped, CommandSound DEF IInv
<1> QED BY <1>1, <1>2 DEF Next, Rest

\* The inductive invariant holds of every behaviour.
THEOREM IInvHolds == Spec => []IInv
BY InitIInv, NextIInv, PTL DEF Spec

\* Every variable keeps its type, and whoever changes the steps, and nobody else,
\* holds the lock (`_step_install_transaction`).
THEOREM TypeCorrect == Spec => []TypeOK
<1>1. IInv => TypeOK
  BY DEF IInv
<1> QED BY <1>1, IInvHolds, PTL

\* Registry and packages agree whenever nobody holds the lock, and ids that differ
\* by case never coexist (`_replace_install`, `_remove_step_locked`, `refresh`).
THEOREM StepsAreSound == Spec => []StepsSound
<1>1. IInv => StepsSound
  BY ValuesAssumption DEF IInv, TypeOK, Sound, Whole, Distinct, StepsSound
<1> QED BY <1>1, IInvHolds, PTL

\* A refresh that fails leaves the old step, or what another command has installed
\* meanwhile, or names the copy it keeps (`_StepKindManager.refresh`).
THEOREM RefreshesEndWell == Spec => []RefreshOutcome
<1>1. IInv /\ AllKnown => RefreshOutcome
  BY DEF AllKnown, Known, KnownAt, Old, RefreshOutcome
<1> QED BY <1>1, InitIInv, NextIInv, InitKnown, NextKnown, PTL DEF Spec
=============================================================================
