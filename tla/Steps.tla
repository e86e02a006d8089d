-------------------------------- MODULE Steps --------------------------------
(***************************************************************************)
(* Custom workflow steps of a project: their package directories and the   *)
(* registry that names them, under `specify workflow step add` (with and   *)
(* without --force), `step remove`, and the refresh of a step that a       *)
(* bundle owns.                                                            *)
(*                                                                         *)
(* Several processes run these commands at once.  They share one lock on   *)
(* the project, taken after the download: what was checked before it is    *)
(* checked again under it, from a registry read again.  A refresh takes    *)
(* the lock three times (to save and remove the old step, to install the   *)
(* new one, to put the old one back) and other commands come between.  Any *)
(* step may fail, and a process may be interrupted or die, which frees the *)
(* lock.                                                                   *)
(***************************************************************************)
EXTENDS Naturals, FiniteSets

CONSTANTS
    Procs,        \* processes, each running one command at a time
    Ids,          \* step ids
    Alias,        \* Alias[i]: the other ids that differ from i only by case
    Versions,     \* versions of a step
    None,         \* no entry, no directory
    Torn,         \* a directory that was removed or copied in part
    Free,         \* nobody holds the lock
    Before,       \* Before[i]: the version of step i that is installed at first
    MaxCommands,  \* bound: commands run
    MaxFaults     \* bound: errors, interrupts and kills

ASSUME IdsAssumption ==
    /\ Ids # {} /\ Alias \in [Ids -> SUBSET Ids]
    /\ \A i, j \in Ids : i \notin Alias[i] /\ (j \in Alias[i] <=> i \in Alias[j])
ASSUME ValuesAssumption ==
    /\ {None, Torn, "own", "unclear"} \cap Versions = {}
    /\ None \notin {Torn, "own", "unclear"} /\ Free \notin Procs
ASSUME BeforeAssumption ==
    /\ Before \in [Ids -> Versions \cup {None}]
    /\ \A i \in Ids : \A j \in Alias[i] : None \in {Before[i], Before[j]}
ASSUME BoundsAssumption == MaxCommands \in Nat /\ MaxFaults \in Nat

VARIABLES
    dir,    \* package directories: a version, Torn or None
    reg,    \* step-registry.json
    lock,   \* .step-install.lock
    pc,     \* what each process does next
    job,    \* its command: [op, id, ver, force]
    doc,    \* the registry it has in memory
    snap,   \* of a refresh: [had, entry, copy, kept], the step it saved
    how,    \* how its last command ended
    scar,   \* history: ids whose package or entry a failure has damaged
    seen,   \* history: what others did to the step since a refresh saved it
    count   \* commands and faults so far

vars == <<dir, reg, lock, pc, job, doc, snap, how, scar, seen, count>>
-----------------------------------------------------------------------------
NoJob == [op |-> "none", id |-> CHOOSE i \in Ids : TRUE, ver |-> None, force |-> FALSE]
NoSnap == [had |-> FALSE, entry |-> None, copy |-> None, kept |-> FALSE]

Init ==
    /\ reg = Before /\ dir = reg
    /\ lock = Free
    /\ pc = [p \in Procs |-> "idle"] /\ job = [p \in Procs |-> NoJob]
    /\ doc = [p \in Procs |-> Before]
    /\ snap = [p \in Procs |-> NoSnap] /\ how = [p \in Procs |-> "ok"]
    /\ scar = {} /\ seen = [p \in Procs |-> "own"]
    /\ count = [commands |-> 0, faults |-> 0]

Id(p) == job[p].id
Op(p) == job[p].op
Dir(p) == dir[Id(p)]

\* No id in the registry r or on disk may differ from i by case only, and
\* without --force the step may not exist.
NoAlias(r, i) == \A j \in Alias[i] : r[j] = None /\ dir[j] = None
Installable(r, i, force) ==
    NoAlias(r, i) /\ (force \/ (r[i] = None /\ dir[i] = None))

Waiting == {"commit", "remove", "save", "restore"}
Removing == {"unregister", "rmdir", "reregister"}
Installing == {"clear", "swap", "swapped", "publish", "register", "unpublish"}
Restoring == {"wipe", "copy", "enter"}
Inside == Removing \cup Installing \cup Restoring

\* On with the lock the process has, or without one.
Goto(p, place) ==
    pc' = [pc EXCEPT ![p] = place] /\ UNCHANGED <<lock, how, doc, job>>

\* flock() waits.
Lockable(p) == lock = Free

\* Mutant: the registry read before the download is used on.
StaleDocument(p) == doc[p]

\* The registry is read again under the lock.
Document(p) == reg

Lock(p, place) ==
    /\ lock' = p /\ doc' = [doc EXCEPT ![p] = Document(p)]
    /\ pc' = [pc EXCEPT ![p] = place] /\ UNCHANGED <<how, job>>

Unlock(p) == lock' = IF lock = p THEN Free ELSE lock

\* The command ends; only of a failed refresh is anything asked later.
Leave(p, outcome) ==
    /\ pc' = [pc EXCEPT ![p] = "idle"] /\ how' = [how EXCEPT ![p] = outcome]
    /\ job' = IF Op(p) = "refresh" /\ outcome = "failed" THEN job
              ELSE [job EXCEPT ![p] = NoJob]
    /\ doc' = [doc EXCEPT ![p] = Before]
    /\ Unlock(p)

\* A refresh that has saved the step puts it back; everything else just fails.
GiveUp(p) ==
    IF snap[p].had /\ pc[p] \notin Restoring \cup {"restore"}
    THEN pc' = [pc EXCEPT ![p] = "restore"] /\ Unlock(p) /\ UNCHANGED <<how, doc, job>>
    ELSE Leave(p, "failed")

\* History: p has changed its step, others that work on it see it.
Shows(p, what) ==
    seen' = [q \in Procs |->
                IF q = p \/ Id(q) # Id(p) \/ Op(q) # "refresh" THEN seen[q]
                ELSE IF pc[q] = "idle" THEN "unclear" ELSE what]

Write(p, value) == reg' = [doc[p] EXCEPT ![Id(p)] = value]
Replace(p, value) == dir' = [dir EXCEPT ![Id(p)] = value]
-----------------------------------------------------------------------------
Begin(p, op, i, v, force, place) ==
    /\ pc[p] = "idle" /\ count.commands < MaxCommands
    /\ count' = [count EXCEPT !.commands = @ + 1]
    /\ job' = [job EXCEPT ![p] = [op |-> op, id |-> i, ver |-> v, force |-> force]]
    /\ doc' = [doc EXCEPT ![p] = reg]
    /\ snap' = [snap EXCEPT ![p] = NoSnap]
    /\ seen' = [seen EXCEPT ![p] = "own"]
    /\ how' = [how EXCEPT ![p] = "running"]
    /\ pc' = [pc EXCEPT ![p] = place]
    /\ UNCHANGED <<dir, reg, lock, scar>>

\* The preflight of an installation; then comes the download.
Add(p, i, v, force) ==
    Installable(reg, i, force) /\ Begin(p, "add", i, v, force, "commit")

Remove(p, i) == Begin(p, "remove", i, None, FALSE, "remove")

\* `bundle install --refresh` or `bundle update`, online.
Refresh(p, i, v) == Begin(p, "refresh", i, v, FALSE, "save")
-----------------------------------------------------------------------------
(* Installation: _replace_install under the lock. *)

\* What was checked before the download is checked again.
LockInstall(p) ==
    /\ pc[p] = "commit" /\ Lockable(p)
    /\ \/ /\ Installable(Document(p), Id(p), job[p].force)
          /\ Lock(p, IF Dir(p) = None THEN "publish" ELSE "clear")
       \/ /\ ~ Installable(Document(p), Id(p), job[p].force)
          /\ GiveUp(p)
    /\ UNCHANGED <<dir, reg, snap, scar, seen, count>>

\* --force: the old package goes first.
Clear(p) ==
    /\ pc[p] = "clear"
    /\ Replace(p, None) /\ Shows(p, "unclear") /\ Goto(p, "swap")
    /\ UNCHANGED <<reg, snap, scar, count>>

\* The staged package is moved in.
Publish(p) ==
    /\ pc[p] \in {"publish", "swap"}
    /\ Replace(p, job[p].ver) /\ Shows(p, "unclear")
    /\ Goto(p, IF pc[p] = "swap" THEN "swapped" ELSE "register")
    /\ UNCHANGED <<reg, snap, scar, count>>

Register(p) ==
    /\ pc[p] \in {"register", "swapped"}
    /\ Write(p, job[p].ver) /\ Shows(p, job[p].ver) /\ Leave(p, "ok")
    /\ scar' = scar \ {Id(p)}
    /\ UNCHANGED <<dir, snap, count>>

\* A package that could not be registered goes again.
Unpublish(p) ==
    /\ pc[p] = "unpublish"
    /\ Replace(p, None) /\ Shows(p, "unclear") /\ GiveUp(p)
    /\ UNCHANGED <<reg, snap, scar, count>>
-----------------------------------------------------------------------------
(* Removal: _remove_step_locked, of `step remove` and of a refresh. *)

LockRemove(p) ==
    /\ pc[p] = "remove" /\ Lockable(p)
    /\ LET entry == Document(p)[Id(p)]
       IN  \/ entry # None /\ Lock(p, "unregister")
           \/ entry = None /\ Dir(p) # None /\ Lock(p, "rmdir")
           \/ entry = None /\ Dir(p) = None /\ GiveUp(p)
    /\ UNCHANGED <<dir, reg, snap, scar, seen, count>>

\* The rest of a removal: a refresh goes on without the lock.
Removed(p) ==
    IF Op(p) = "refresh"
    THEN /\ pc' = [pc EXCEPT ![p] = "install"] /\ Unlock(p)
         /\ Shows(p, "unclear") /\ UNCHANGED <<how, doc, job, scar>>
    ELSE /\ Leave(p, "ok") /\ Shows(p, None) /\ scar' = scar \ {Id(p)}

Unregister(p) ==
    /\ pc[p] = "unregister"
    /\ Write(p, None)
    /\ \/ Dir(p) = None /\ Removed(p)
       \/ Dir(p) # None /\ Goto(p, "rmdir") /\ Shows(p, "unclear") /\ UNCHANGED scar
    /\ UNCHANGED <<dir, snap, count>>

RemoveDirectory(p) ==
    /\ pc[p] = "rmdir"
    /\ Replace(p, None) /\ Removed(p)
    /\ UNCHANGED <<reg, snap, count>>

\* The directory could not be removed: the entry returns.
Reregister(p) ==
    /\ pc[p] = "reregister"
    /\ Write(p, doc[p][Id(p)]) /\ Shows(p, "unclear") /\ GiveUp(p)
    /\ scar' = IF Dir(p) = doc[p][Id(p)] THEN scar \ {Id(p)} ELSE scar
    /\ UNCHANGED <<dir, snap, count>>
-----------------------------------------------------------------------------
(* Refresh: _StepKindManager.refresh. *)

\* Mutant: the removal takes the lock itself.
FirstOfRemovalNested == "remove"

\* The step is saved and its removal starts under the same lock.
FirstOfRemoval == "unregister"

Save(p) ==
    /\ pc[p] = "save" /\ Lockable(p)
    /\ LET entry == Document(p)[Id(p)]
       IN  IF entry = None
           THEN Goto(p, "install") /\ UNCHANGED <<snap, seen>>
           ELSE /\ Lock(p, FirstOfRemoval)
                /\ snap' = [snap EXCEPT ![p] = [had |-> TRUE, entry |-> entry,
                                                copy |-> Dir(p), kept |-> FALSE]]
                /\ seen' = [seen EXCEPT ![p] = "own"]
    /\ UNCHANGED <<dir, reg, scar, count>>

\* The preflight of the installation that follows.
Install(p) ==
    /\ pc[p] = "install"
    /\ IF Installable(reg, Id(p), FALSE) THEN Goto(p, "commit") ELSE GiveUp(p)
    /\ UNCHANGED <<dir, reg, snap, scar, seen, count>>

\* Mutant: what is there now is not looked at.
SupersededNever(p) == FALSE

Superseded(p) == Document(p)[Id(p)] # None

Keeps(p) == snap' = [snap EXCEPT ![p].kept = TRUE]

\* The old step returns unless its id or an alias has been installed since.
LockRestore(p) ==
    /\ pc[p] = "restore" /\ Lockable(p)
    /\ \/ /\ Superseded(p)
          /\ Leave(p, "failed") /\ UNCHANGED snap
       \/ /\ ~ Superseded(p) /\ ~ NoAlias(Document(p), Id(p))
          /\ Leave(p, "failed") /\ Keeps(p)
       \/ /\ ~ Superseded(p) /\ NoAlias(Document(p), Id(p))
          /\ Lock(p, IF Dir(p) # None THEN "wipe" ELSE "copy") /\ UNCHANGED snap
    /\ UNCHANGED <<dir, reg, scar, seen, count>>

Wipe(p) ==
    /\ pc[p] = "wipe"
    /\ Replace(p, None) /\ Shows(p, "unclear") /\ Goto(p, "copy")
    /\ UNCHANGED <<reg, snap, scar, count>>

Copy(p) ==
    /\ pc[p] = "copy"
    /\ Replace(p, snap[p].copy) /\ Shows(p, "unclear") /\ Goto(p, "enter")
    /\ UNCHANGED <<reg, snap, scar, count>>

Enter(p) ==
    /\ pc[p] = "enter"
    /\ Write(p, snap[p].entry) /\ Leave(p, "failed")
    /\ IF snap[p].copy = snap[p].entry
       THEN Shows(p, snap[p].entry) /\ scar' = scar \ {Id(p)}
       ELSE Shows(p, "unclear") /\ scar' = scar \cup {Id(p)}
    /\ UNCHANGED <<dir, snap, count>>
-----------------------------------------------------------------------------
(* Failures. *)

Fault == count.faults < MaxFaults /\ count' = [count EXCEPT !.faults = @ + 1]

\* Entry and package may differ now, and the message says so.
Damage(p) ==
    scar' = IF lock = p /\ dir'[Id(p)] # reg[Id(p)] THEN scar \cup {Id(p)} ELSE scar

\* What a removal or a copy of the directory may leave that stops half way.
Partly(p) == \E left \in {Dir(p), Torn} : Replace(p, left)

\* The lock cannot be taken, or the download, the staging or the copy of the old
\* step fails.  A restoration that fails keeps the copy.
FailsOutside(p) ==
    /\ Fault /\ pc[p] \in Waiting \cup {"install"}
    /\ GiveUp(p)
    /\ IF pc[p] = "restore" THEN Keeps(p) ELSE UNCHANGED snap
    /\ UNCHANGED <<dir, reg, scar, seen>>

InstallFails(p) ==
    /\ Fault
    /\ \/ pc[p] = "clear" /\ Partly(p) /\ Damage(p) /\ Leave(p, "failed")
       \/ pc[p] \in {"swap", "swapped"} /\ UNCHANGED dir /\ Damage(p) /\ Leave(p, "failed")
       \/ pc[p] = "publish" /\ UNCHANGED <<dir, scar>> /\ GiveUp(p)
       \/ pc[p] = "register" /\ UNCHANGED <<dir, scar>> /\ Goto(p, "unpublish")
       \/ pc[p] = "unpublish" /\ Partly(p) /\ Damage(p) /\ GiveUp(p)
    /\ Shows(p, "unclear")
    /\ UNCHANGED <<reg, snap>>

RemoveFails(p) ==
    /\ Fault
    /\ \/ pc[p] = "unregister" /\ UNCHANGED <<dir, scar>> /\ GiveUp(p)
       \/ /\ pc[p] = "rmdir" /\ Partly(p)
          /\ IF doc[p][Id(p)] = None
             THEN GiveUp(p) /\ Damage(p)
             ELSE Goto(p, "reregister") /\ Damage(p)
       \/ pc[p] = "reregister" /\ UNCHANGED dir /\ Damage(p) /\ GiveUp(p)
    /\ Shows(p, "unclear")
    /\ UNCHANGED <<reg, snap>>

RestoreFails(p) ==
    /\ Fault /\ pc[p] \in Restoring
    /\ IF pc[p] = "enter" THEN UNCHANGED dir ELSE Partly(p)
    /\ Damage(p) /\ Keeps(p) /\ Shows(p, "unclear") /\ Leave(p, "failed")
    /\ UNCHANGED reg

\* Ctrl+C or a kill: no handler acts on either, and the copy of a refresh goes.
Dies(p) ==
    /\ Fault /\ pc[p] # "idle"
    /\ IF pc[p] \in {"clear", "rmdir", "unpublish", "wipe", "copy"}
       THEN Partly(p) ELSE UNCHANGED dir
    /\ Damage(p) /\ Shows(p, "unclear") /\ Leave(p, "dead")
    /\ UNCHANGED <<reg, snap>>
-----------------------------------------------------------------------------
Command(p) ==
    \E i \in Ids :
        \/ Remove(p, i)
        \/ \E v \in Versions : Refresh(p, i, v) \/ \E force \in BOOLEAN : Add(p, i, v, force)

Step(p) ==
    \/ LockInstall(p) \/ Clear(p) \/ Publish(p) \/ Register(p) \/ Unpublish(p)
    \/ LockRemove(p) \/ Unregister(p) \/ RemoveDirectory(p) \/ Reregister(p)
    \/ Save(p) \/ Install(p) \/ LockRestore(p) \/ Wipe(p) \/ Copy(p) \/ Enter(p)

GoesWrong(p) ==
    FailsOutside(p) \/ InstallFails(p) \/ RemoveFails(p) \/ RestoreFails(p) \/ Dies(p)

Rest == (\A p \in Procs : pc[p] = "idle") /\ UNCHANGED vars

Next == Rest \/ \E p \in Procs : Command(p) \/ Step(p) \/ GoesWrong(p)

Spec == Init /\ [][Next]_vars

\* Commands are finitely many, so that whoever waits for the lock has it at last.
FairSpec == Spec /\ \A p \in Procs : WF_vars(Step(p))
-----------------------------------------------------------------------------
(* Properties. *)

Entries == Versions \cup {None}
Registries == [Ids -> Entries]
Job == [op : {"none", "add", "remove", "refresh"}, id : Ids, ver : Entries, force : BOOLEAN]
Snapshot == [had : BOOLEAN, entry : Entries, copy : Entries \cup {Torn}, kept : BOOLEAN]

\* Types; and a process is in a section that changes the steps if and only if it
\* holds the lock (`_step_install_transaction`).
TypeOK ==
    /\ dir \in [Ids -> Entries \cup {Torn}] /\ reg \in Registries
    /\ lock \in Procs \cup {Free}
    /\ pc \in [Procs -> {"idle", "install"} \cup Waiting \cup Inside]
    /\ \A p \in Procs : pc[p] \in Inside <=> lock = p
    /\ job \in [Procs -> Job] /\ doc \in [Procs -> Registries]
    /\ snap \in [Procs -> Snapshot]
    /\ how \in [Procs -> {"ok", "running", "failed", "dead"}]
    /\ scar \subseteq Ids /\ seen \in [Procs -> Entries \cup {"own", "unclear"}]
    /\ count \in [commands : 0..MaxCommands, faults : 0..MaxFaults]

Present(i) == reg[i] # None \/ dir[i] # None

\* Whenever nobody holds the lock, a step is registered if and only if its package
\* is there, and with the same version, whoever changed the registry meanwhile;
\* only a failure that was reported, or a death, leaves the two apart.  And two ids
\* that differ by case only are never there together, in spite of all failures.
StepsSound ==
    /\ lock = Free => \A i \in Ids \ scar : reg[i] = dir[i]
    /\ \A i \in Ids : \A j \in Alias[i] : ~ (Present(i) /\ Present(j))

\* A refresh that fails leaves the old step, entry and package, as it was; or, if
\* another command has installed the step meanwhile, that one.  Otherwise the
\* message names the copy it keeps.  (A removal that fails half way is reported
\* as damage, see `scar`.)
RefreshOutcome ==
    \A p \in Procs :
        (/\ pc[p] = "idle" /\ Op(p) = "refresh" /\ how[p] = "failed"
         /\ snap[p].had /\ ~ snap[p].kept /\ Id(p) \notin scar)
        => /\ seen[p] \in {"own", None} =>
                 reg[Id(p)] = snap[p].entry /\ Dir(p) = snap[p].copy
           /\ seen[p] \in Versions => reg[Id(p)] = seen[p] /\ Dir(p) = seen[p]

\* Every command ends: nobody waits for a lock that is never released, least of
\* all for one it holds itself (primitives.py:662).
CommandsEnd == \A p \in Procs : pc[p] # "idle" ~> pc[p] = "idle"
=============================================================================
