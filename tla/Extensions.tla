----------------------------- MODULE Extensions -----------------------------
(***************************************************************************)
(* One extension of a project through `specify extension add`, `add        *)
(* --force`, `remove`, `remove --keep-config`, `update`, `enable` and      *)
(* `disable` (ExtensionManager, HookExecutor, ExtensionRegistry and the    *)
(* update transaction).  A command is a sequence of steps on the disk; a   *)
(* fault may come before any of them: an error the code can catch, a       *)
(* Ctrl+C, or the end of the process.  What one command leaves is what the *)
(* next one starts from, and between commands the user edits the           *)
(* extension's configuration.                                              *)
(*                                                                         *)
(* A directory is [here, payload, mark, cfg]: the package it holds (a      *)
(* version, Torn for a part of one, NoVersion), its marker file and its    *)
(* top-level configuration files.  The content of a file is the version    *)
(* whose default it is or a value the user wrote.                          *)
(***************************************************************************)
EXTENDS Naturals, FiniteSets

CONSTANTS
    Names,        \* configuration files: *-config.yml, *-config.local.yml
    Versions,     \* releases of the extension, a set of positive numbers
    Ships,        \* Ships[v]: configuration files in the package of v
    Declares,     \* Declares[v]: files v asks to scaffold from templates
    Written,      \* contents the user may write
    Torn,         \* the payload of a directory that holds part of a package
    MaxCommands,  \* bound: commands run
    MaxEdits,     \* bound: edits of the configuration between commands
    MaxFaults     \* bound: errors, interrupts and kills in all

ASSUME VersionsAssumption == Versions \subseteq Nat \ {0}
ASSUME PackagesAssumption ==
    /\ Ships \in [Versions -> SUBSET Names]
    /\ Declares \in [Versions -> SUBSET Names]
ASSUME WrittenAssumption == Written \cap (Versions \cup {0}) = {}
ASSUME TornAssumption == Torn \notin Versions \cup {0}
ASSUME BoundsAssumption ==
    MaxCommands \in Nat /\ MaxEdits \in Nat /\ MaxFaults \in Nat

VARIABLES
    live,      \* .specify/extensions/<id>; mark is .keep-config
    staging,   \* .rescue-staging-<digest>; mark is .rescue-complete
    backup,    \* .backup/<id>: configuration copied by remove
    save,      \* .backup/update-<key>-<uuid>: the update's copy of live
    reg,       \* the entry in .registry
    hooks,     \* the extension's entries in extensions.yml
    cmds,      \* versions whose rendered commands and skills are on disk
    generic,   \* is the active integration the generic one?
    kind,      \* the command running, or the last one that ran
    pc, ver, mem, did,  \* its step, its release, the rescued files, did_remove
    exc,       \* the exception a handler will raise again
    was,       \* the project when the command started
    how,       \* how the last command ended
    owed,      \* history: configuration the program said it preserves
    count      \* commands, edits and faults so far

disk == <<live, staging, backup, save, reg, hooks, cmds>>
locals == <<kind, ver, mem, did, was>>
vars == <<disk, generic, locals, pc, exc, how, owed, count>>
-----------------------------------------------------------------------------
Absent == 0
Content == Versions \cup Written \cup {Absent}
NoCfg == [n \in Names |-> Absent]
NoVersion == 0
NoDir == [here |-> FALSE, payload |-> NoVersion, mark |-> FALSE, cfg |-> NoCfg]
EmptyDir == [NoDir EXCEPT !.here = TRUE]
NotInstalled == [ver |-> NoVersion, on |-> FALSE]
Entry(v, on) == [ver |-> v, on |-> on]
Installed == reg # NotInstalled

Configured(cfg) == {n \in Names : cfg[n] # Absent}
\* Mutant: a configuration file is overwritten in place, not replaced.
PutInPlace(d, n, c) == [d EXCEPT !.cfg[n] = IF @ = Absent THEN c ELSE Torn]

Put(d, n, c) == [d EXCEPT !.cfg[n] = c]

\* What shutil.rmtree has left of d when it stops half way.
Remains(d) ==
    {[here |-> TRUE, payload |-> p, mark |-> m,
      cfg |-> [n \in Names |-> IF n \in left THEN d.cfg[n] ELSE Absent]] :
        p \in {NoVersion} \cup (IF d.payload = NoVersion THEN {} ELSE {Torn}),
        m \in {FALSE, d.mark}, left \in SUBSET Configured(d.cfg)}

\* What shutil.copytree of the package of v has written when it stops half way.
Partial(v) ==
    {[EmptyDir EXCEPT !.payload = Torn,
                      !.cfg = [n \in Names |-> IF n \in got THEN v ELSE Absent]] :
        got \in SUBSET Ships[v]}
Package(v) ==
    [EmptyDir EXCEPT !.payload = v,
                     !.cfg = [n \in Names |-> IF n \in Ships[v] THEN v ELSE Absent]]

\* A command's files overlap those of other releases: an artifact nobody
\* owns blocks an install for the generic integration.
OwnedCmds(force) == IF force /\ Installed THEN {reg.ver} ELSE {}
Blocked(force) == generic /\ cmds \ OwnedCmds(force) # {}

StagingComplete == staging.here /\ staging.mark

\* A directory left by `remove --keep-config`, or by a release before the marker.
KeptLeftover ==
    /\ live.here
    /\ \/ live.mark
       \/ (live.payload = NoVersion /\ Configured(live.cfg) # {})

\* Mutant: a staged file always wins over the live one.
ConflictsAlone(v) ==
    \E n \in Configured(live.cfg) \ Configured(staging.cfg) :
        ~ (n \in Ships[v] /\ live.cfg[n] = v)

\* Live files that differ from their staged copy, and live files with no
\* staged copy that the package would not bring back as they are.
Conflicts(v) ==
    \/ \E n \in Configured(staging.cfg) : live.cfg[n] \notin {Absent, staging.cfg[n]}
    \/ \E n \in Configured(live.cfg) \ Configured(staging.cfg) :
          ~ (n \in Ships[v] /\ live.cfg[n] = v)
-----------------------------------------------------------------------------
Idle == pc = "idle"
NoOne == [by |-> "none", cfg |-> NoCfg]
Snapshot == [live |-> live, reg |-> reg, hooks |-> hooks, cmds |-> cmds,
             owed |-> owed]

Init ==
    /\ live = NoDir /\ staging = NoDir /\ backup = NoDir /\ save = NoDir
    /\ reg = NotInstalled /\ hooks = NotInstalled /\ cmds = {}
    /\ generic \in BOOLEAN
    /\ kind = "none" /\ pc = "idle" /\ ver = NoVersion /\ mem = NoCfg
    /\ did = FALSE /\ exc = "none" /\ how = "ok" /\ owed = NoOne
    /\ was = Snapshot
    /\ count = [commands |-> 0, edits |-> 0, faults |-> 0]

Start(k, v, first) ==
    /\ Idle /\ count.commands < MaxCommands
    /\ kind' = k /\ ver' = v /\ pc' = first /\ mem' = NoCfg /\ did' = FALSE
    /\ exc' = "none" /\ how' = "running" /\ was' = Snapshot
    /\ count' = [count EXCEPT !.commands = @ + 1]
    /\ UNCHANGED <<generic, owed>>

\* The current step is done: go on at p.
At(p) == pc = p
Goto(p) == pc' = p /\ UNCHANGED <<locals, exc, how, generic, count>>

Ends(outcome) ==
    /\ pc' = "idle" /\ how' = outcome /\ exc' = "none"
    /\ UNCHANGED <<locals, generic, count>>

\* install_from_directory up to the removal of an installed extension; a plain
\* add of an installed extension is refused and changes nothing.
Add(v, force) ==
    /\ Start(IF force THEN "force" ELSE "add", v,
             IF Installed THEN "unregister" ELSE "ignore")
    /\ Installed => force
    /\ ~ Blocked(force)
    /\ backup' = IF Installed THEN NoDir ELSE backup
    /\ UNCHANGED <<live, staging, save, reg, hooks, cmds>>

Remove(keep) ==
    /\ Start(IF keep THEN "keep" ELSE "remove", reg.ver, "unregister")
    /\ Installed
    /\ UNCHANGED disk

Update(v) ==
    /\ Start("update", v, "save")
    /\ Installed /\ v > reg.ver
    /\ UNCHANGED disk

Enable ==
    /\ Start("enable", reg.ver, "switch")
    /\ Installed /\ ~ reg.on
    /\ UNCHANGED disk

Disable ==
    /\ Start("disable", reg.ver, "switch")
    /\ Installed /\ reg.on
    /\ UNCHANGED disk
-----------------------------------------------------------------------------
(* ExtensionManager.remove, run by the remove, force and update commands. *)

\* Mutant: no directory, no hooks.
UnregisterNoHooks ==
    /\ At("unregister")
    /\ cmds' = cmds \ {reg.ver}
    /\ Goto(IF ~ live.here THEN "deregister"
            ELSE IF kind \in {"keep", "update"} THEN "strip" ELSE "backup")
    /\ UNCHANGED <<live, staging, backup, save, reg, hooks, owed>>

Unregister ==
    /\ At("unregister")
    /\ cmds' = cmds \ {reg.ver}
    /\ Goto(IF ~ live.here THEN "unhook"
            ELSE IF kind \in {"keep", "update"} THEN "strip" ELSE "backup")
    /\ UNCHANGED <<live, staging, backup, save, reg, hooks, owed>>

\* keep_config: everything but the configuration goes, then the marker is put.
Strip ==
    /\ At("strip")
    /\ \/ live.payload \in Versions /\ live' = [live EXCEPT !.payload = Torn] /\ Goto("strip")
       \/ live' = [live EXCEPT !.payload = NoVersion, !.mark = FALSE] /\ Goto("mark")
    /\ UNCHANGED <<staging, backup, save, reg, hooks, cmds, owed>>

MarkKept ==
    /\ At("mark")
    /\ live' = [live EXCEPT !.mark = TRUE]
    /\ Goto("unhook")
    /\ UNCHANGED <<staging, backup, save, reg, hooks, cmds, owed>>

BackUp ==
    /\ At("backup")
    /\ LET todo == {n \in Configured(live.cfg) : backup.cfg[n] # live.cfg[n]}
           made == [backup EXCEPT !.here = TRUE]
       IN  \/ \E n \in todo : backup' = Put(made, n, live.cfg[n]) /\ Goto("backup")
           \/ todo = {} /\ backup' = made /\ Goto("delete")
    /\ UNCHANGED <<live, staging, save, reg, hooks, cmds, owed>>

Delete ==
    /\ At("delete")
    /\ \/ live' \in Remains(live) \ {live} /\ Goto("delete")
       \/ live' = NoDir /\ Goto("unhook")
    /\ UNCHANGED <<staging, backup, save, reg, hooks, cmds, owed>>

Unhook ==
    /\ At("unhook")
    /\ hooks' = NotInstalled
    /\ Goto("deregister")
    /\ UNCHANGED <<live, staging, backup, save, reg, cmds, owed>>

Deregister ==
    /\ At("deregister")
    /\ reg' = NotInstalled
    /\ \/ /\ kind \in {"keep", "remove"}
          /\ owed' = IF kind = "keep" /\ Configured(live.cfg) # {}
                     THEN [by |-> "keep", cfg |-> live.cfg] ELSE NoOne
          /\ Ends("ok")
       \/ /\ kind \in {"force", "update"}
          /\ did' = (kind = "force") /\ pc' = "ignore"
          /\ UNCHANGED <<kind, ver, mem, was, exc, how, generic, count, owed>>
    /\ UNCHANGED <<live, staging, backup, save, hooks, cmds>>
-----------------------------------------------------------------------------
(* The failure of a step: what the enclosing handlers of an exception f do. *)

\* run_update_command rolls back on Exception and passes a Ctrl+C on.
Raise(f) ==
    IF kind = "update" /\ f # "interrupt"
    THEN /\ pc' = IF pc \in {"save", "fetch"} THEN "drop" ELSE "undoDir"
         /\ exc' = "none"
         /\ UNCHANGED <<locals, how, generic>>
    ELSE /\ pc' = "idle" /\ exc' = "none"
         /\ how' = CASE f = "error" -> "failed"
                      [] f = "interrupt" -> "broken"
                      [] f = "conflict" -> "conflict"
         /\ UNCHANGED <<locals, generic>>
-----------------------------------------------------------------------------
(* The rest of install_from_directory. *)

\* An update meets the check of foreign artifacts only here.
LoadIgnore ==
    /\ At("ignore")
    /\ IF kind = "update" /\ Blocked(FALSE)
       THEN Raise("error") /\ UNCHANGED count ELSE Goto("rescue")
    /\ UNCHANGED <<disk, owed>>

\* Which configuration must survive the removal of the directory?
Rescue ==
    /\ At("rescue")
    /\ \/ /\ StagingComplete /\ Conflicts(ver)
          /\ Raise("conflict") /\ UNCHANGED count
       \/ /\ StagingComplete /\ ~ Conflicts(ver)
          /\ mem' = staging.cfg /\ pc' = "wipe"
          /\ UNCHANGED <<kind, ver, did, was, exc, how, generic, count>>
       \/ /\ ~ StagingComplete
          /\ mem' = IF KeptLeftover THEN live.cfg ELSE NoCfg
          /\ pc' = IF Configured(mem') # {} THEN "restage" ELSE "wipe"
          /\ UNCHANGED <<kind, ver, did, was, exc, how, generic, count>>
    /\ UNCHANGED <<disk, owed>>

\* Mutant: the rescued files are kept in memory only.
RestageNothing ==
    /\ At("restage")
    /\ staging' = EmptyDir
    /\ Goto("wipe")
    /\ UNCHANGED <<live, backup, save, reg, hooks, cmds, owed>>

Restage ==
    /\ At("restage")
    /\ staging' = EmptyDir
    /\ Goto("stage")
    /\ UNCHANGED <<live, backup, save, reg, hooks, cmds, owed>>

\* The marker is written after the last file, before anything is removed.
Stage ==
    /\ At("stage")
    /\ LET todo == {n \in Configured(mem) : staging.cfg[n] = Absent}
       IN  \/ \E n \in todo : staging' = Put(staging, n, mem[n]) /\ Goto("stage")
           \/ todo = {} /\ staging' = [staging EXCEPT !.mark = TRUE] /\ Goto("wipe")
    /\ UNCHANGED <<live, backup, save, reg, hooks, cmds, owed>>

Wipe ==
    /\ At("wipe")
    /\ \/ live.here /\ live' \in Remains(live) \ {live} /\ Goto("wipe")
       \/ live' = NoDir /\ Goto("copy")
    /\ UNCHANGED <<staging, backup, save, reg, hooks, cmds, owed>>

Copy ==
    /\ At("copy")
    /\ \/ ~ live.here /\ live' \in Partial(ver) /\ Goto("copy")
       \/ live' = Package(ver) /\ Goto("restore")
    /\ UNCHANGED <<staging, backup, save, reg, hooks, cmds, owed>>

\* Each rescued file is put back by an atomic replacement; "reseat" is the same
\* loop in the handler of a failed copy.
Unrestored == {n \in Configured(mem) : live.cfg[n] # mem[n]}

Restore ==
    /\ At("restore")
    /\ \/ \E n \in Unrestored : live' = Put(live, n, mem[n]) /\ Goto("restore")
       \/ Unrestored = {} /\ UNCHANGED live /\ Goto("render")
    /\ UNCHANGED <<staging, backup, save, reg, hooks, cmds, owed>>

Reseat ==
    /\ At("reseat")
    /\ \/ \E n \in Unrestored : live' = Put(live, n, mem[n])
                             /\ Goto("reseat")
       \/ Unrestored = {} /\ UNCHANGED <<live, count>> /\ Raise(exc)
    /\ UNCHANGED <<staging, backup, save, reg, hooks, cmds, owed>>

\* Commands and skills of the active integration.
Render ==
    /\ At("render")
    /\ cmds' = cmds \cup {ver}
    /\ Goto("hook")
    /\ UNCHANGED <<live, staging, backup, save, reg, hooks, owed>>

RegisterHooks ==
    /\ At("hook")
    /\ hooks' = Entry(ver, TRUE)
    /\ Goto("unback")
    /\ UNCHANGED <<live, staging, backup, save, reg, cmds, owed>>

\* A forced reinstall restores what its own removal backed up.
Unback ==
    /\ At("unback")
    /\ LET todo == {n \in Configured(backup.cfg) : did /\ live.cfg[n] # backup.cfg[n]}
       IN  \/ \E n \in todo : live' = Put(live, n, backup.cfg[n]) /\ Goto("unback")
           \/ todo = {} /\ UNCHANGED live /\ Goto("commit")
    /\ UNCHANGED <<staging, backup, save, reg, hooks, cmds, owed>>

Commit ==
    /\ At("commit")
    /\ reg' = Entry(ver, TRUE)
    /\ owed' = NoOne
    /\ Goto("tidy")
    /\ UNCHANGED <<live, staging, backup, save, hooks, cmds>>

Tidy ==
    /\ At("tidy")
    /\ backup' = IF did THEN NoDir ELSE backup
    /\ Goto("unseal")
    /\ UNCHANGED <<live, staging, save, reg, hooks, cmds, owed>>

Installing == IF kind = "update" THEN "config" ELSE "scaffold"

\* The marker goes before the files it vouches for.
Unseal ==
    /\ At("unseal")
    /\ staging' = [staging EXCEPT !.mark = FALSE]
    /\ Goto(IF staging.here THEN "unstage" ELSE Installing)
    /\ UNCHANGED <<live, backup, save, reg, hooks, cmds, owed>>

Unstage ==
    /\ At("unstage")
    /\ \/ staging' \in Remains(staging) \ {staging} /\ Goto("unstage")
       \/ staging' = NoDir /\ Goto(Installing)
    /\ UNCHANGED <<live, backup, save, reg, hooks, cmds, owed>>

\* scaffold_config: templates the installed package declares, never over a file.
Templates ==
    IF live.payload \in Versions
    THEN {n \in Declares[live.payload] : live.cfg[n] = Absent} ELSE {}
Scaffolded == IF kind = "update" THEN Goto("meta") ELSE Ends("ok")

Scaffold ==
    /\ At("scaffold")
    /\ \/ \E n \in Templates : live' = Put(live, n, live.payload) /\ Goto("scaffold")
       \/ Templates = {} /\ UNCHANGED live /\ Scaffolded
    /\ UNCHANGED <<staging, backup, save, reg, hooks, cmds, owed>>
-----------------------------------------------------------------------------
(* The generic integration retires what a failed install registered. *)

RetireHooks ==
    /\ At("retireHooks")
    /\ hooks' = NotInstalled
    /\ Goto("retireFiles")
    /\ UNCHANGED <<live, staging, backup, save, reg, cmds, owed>>

\* rollback_generic_registration keeps rescued and backed-up configuration only.
Preserved == Configured(mem) \cup (IF did THEN Configured(backup.cfg) ELSE {})
PreservedCfg ==
    [n \in Names |-> IF n \notin Preserved THEN Absent
                     ELSE IF did /\ backup.cfg[n] # Absent THEN backup.cfg[n]
                     ELSE live.cfg[n]]

RetireFiles ==
    /\ At("retireFiles")
    /\ cmds' = cmds \ {ver}
    /\ live' = IF Preserved = {} THEN NoDir
               ELSE [EmptyDir EXCEPT !.payload = Torn, !.cfg = PreservedCfg]
    /\ Goto("retireMark")
    /\ UNCHANGED <<staging, backup, save, reg, hooks, owed>>

RetireMark ==
    /\ At("retireMark")
    /\ live' = IF live.here THEN [live EXCEPT !.payload = NoVersion, !.mark = TRUE]
               ELSE live
    /\ Raise(exc)
    /\ UNCHANGED <<staging, backup, save, reg, hooks, cmds, owed, count>>
-----------------------------------------------------------------------------
(* run_update_command around remove and install. *)

Save ==
    /\ At("save")
    /\ save' = live
    /\ Goto("fetch")
    /\ UNCHANGED <<live, staging, backup, reg, hooks, cmds, owed>>

\* The archive is downloaded and checked; from here on the installation changes.
Fetch ==
    /\ At("fetch")
    /\ Goto("unregister")
    /\ UNCHANGED <<disk, owed>>

RestoreConfig ==
    /\ At("config")
    /\ LET todo == {n \in Configured(save.cfg) : live.cfg[n] # save.cfg[n]}
       IN  \/ \E n \in todo : live' = Put(live, n, save.cfg[n]) /\ Goto("config")
           \/ todo = {} /\ UNCHANGED live /\ Goto("scaffold")
    /\ UNCHANGED <<staging, backup, save, reg, hooks, cmds, owed>>

\* Mutant: the entry of a disabled extension is restored, its hooks are not.
RestoreEntry ==
    /\ At("meta")
    /\ reg' = Entry(ver, was.reg.on)
    /\ cmds' = IF generic /\ ~ was.reg.on THEN cmds \ {ver} ELSE cmds
    /\ Goto("discard")
    /\ UNCHANGED <<live, staging, backup, save, hooks, owed>>

\* A disabled extension stays disabled: its entry first, then its hooks.
RestoreMetadata ==
    /\ At("meta")
    /\ reg' = Entry(ver, was.reg.on)
    /\ cmds' = IF generic /\ ~ was.reg.on THEN cmds \ {ver} ELSE cmds
    /\ Goto(IF was.reg.on THEN "discard" ELSE "mute")
    /\ UNCHANGED <<live, staging, backup, save, hooks, owed>>

Mute ==
    /\ At("mute")
    /\ hooks' = Entry(hooks.ver, FALSE)
    /\ Goto("discard")
    /\ UNCHANGED <<live, staging, backup, save, reg, cmds, owed>>

Discard ==
    /\ At("discard")
    /\ save' = NoDir
    /\ Ends("ok")
    /\ UNCHANGED <<live, staging, backup, reg, hooks, cmds, owed>>

\* A failure before anything was modified drops the copy and nothing else.
Drop ==
    /\ At("drop")
    /\ save' = NoDir
    /\ Ends("failed")
    /\ UNCHANGED <<live, staging, backup, reg, hooks, cmds, owed>>

UndoDirectory ==
    /\ At("undoDir")
    /\ \/ save.here /\ live' \in (Remains(live) \cup {NoDir}) \ {live} /\ Goto("undoDir")
       \/ live' = (IF save.here THEN save ELSE live) /\ Goto("undoCmds")
    /\ UNCHANGED <<staging, backup, save, reg, hooks, cmds, owed>>

\* New artifacts go, the old ones return from the copy.
UndoCommands ==
    /\ At("undoCmds")
    /\ cmds' = was.cmds
    /\ Goto("undoHooks")
    /\ UNCHANGED <<live, staging, backup, save, reg, hooks, owed>>

UndoHooks ==
    /\ At("undoHooks")
    /\ hooks' = was.hooks
    /\ Goto("undoReg")
    /\ UNCHANGED <<live, staging, backup, save, reg, cmds, owed>>

UndoRegistry ==
    /\ At("undoReg")
    /\ reg' = was.reg
    /\ Goto("undone")
    /\ UNCHANGED <<live, staging, backup, save, hooks, cmds, owed>>

Undone ==
    /\ At("undone")
    /\ save' = NoDir
    /\ Ends("rolled back")
    /\ UNCHANGED <<live, staging, backup, reg, hooks, cmds, owed>>
-----------------------------------------------------------------------------
(* enable and disable: the entry first, then the hooks. *)

Switch ==
    /\ At("switch")
    /\ reg' = [reg EXCEPT !.on = (kind = "enable")]
    /\ cmds' = IF generic /\ kind = "disable" THEN cmds \ {reg.ver} ELSE cmds
    /\ Goto(IF generic /\ kind = "enable" THEN "rerender" ELSE "flip")
    /\ UNCHANGED <<live, staging, backup, save, hooks, owed>>

\* The generic integration has its artifacts back, or the entry stays disabled.
Rerender ==
    /\ At("rerender")
    /\ IF live.payload = NoVersion
       THEN reg' = [reg EXCEPT !.on = FALSE] /\ UNCHANGED cmds /\ Ends("failed")
       ELSE cmds' = cmds \cup {reg.ver} /\ UNCHANGED reg /\ Goto("flip")
    /\ UNCHANGED <<live, staging, backup, save, hooks, owed>>

Flip ==
    /\ At("flip")
    /\ hooks' = IF hooks = NotInstalled THEN hooks ELSE Entry(hooks.ver, reg.on)
    /\ IF kind = "enable" THEN Goto("scaffold") ELSE Ends("ok")
    /\ UNCHANGED <<live, staging, backup, save, reg, cmds, owed>>
-----------------------------------------------------------------------------
(* Faults. *)

Fault ==
    /\ ~ Idle /\ count.faults < MaxFaults
    /\ count' = [count EXCEPT !.faults = @ + 1]

Killed ==
    /\ Fault
    /\ pc' = "idle" /\ how' = "broken" /\ exc' = "none"
    /\ UNCHANGED <<disk, locals, generic, owed>>

Staging == {"restage", "stage"}
Registering == {"render", "hook", "unback", "commit"}
Cleaning == {"tidy", "unseal", "unstage"}
Undoing == {"undoDir", "undoCmds", "undoHooks", "undoReg"}
Cleanup == Cleaning \cup {"scaffold", "discard", "drop", "undone", "retireHooks"}
RetiresArtifacts(f) == generic /\ f = "error" /\ pc \in Registering

Stops(p, outcome) ==
    /\ pc' = p /\ how' = outcome
    /\ UNCHANGED <<disk, locals, exc, generic, owed>>

\* The durable copy could not be completed: nothing was removed yet.
StagingFails(f) ==
    /\ Fault /\ pc \in Staging
    /\ staging' \in IF At("stage") THEN {NoDir} ELSE {NoDir, staging}
    /\ Raise(f)
    /\ UNCHANGED <<live, backup, save, reg, hooks, cmds, owed>>

CopyFails(f) ==
    /\ Fault /\ At("copy") /\ Configured(mem) # {}
    /\ live' = [live EXCEPT !.here = TRUE]
    /\ pc' = "reseat" /\ exc' = f
    /\ UNCHANGED <<staging, backup, save, reg, hooks, cmds, locals, generic, how, owed>>

RegistrationFails(f) ==
    /\ Fault /\ RetiresArtifacts(f)
    /\ pc' = IF At("render") THEN "retireFiles" ELSE "retireHooks"
    /\ exc' = f
    /\ UNCHANGED <<disk, locals, generic, how, owed>>

RerenderFails ==
    /\ Fault /\ At("rerender")
    /\ reg' = [reg EXCEPT !.on = FALSE]
    /\ pc' = "idle" /\ how' = "failed"
    /\ UNCHANGED <<live, staging, backup, save, hooks, cmds, locals, exc, generic, owed>>

\* An error while cleaning up is a warning, or one more line of the report.
CleanupFails ==
    /\ Fault
    /\ \/ At("tidy") /\ Stops("unseal", how)
       \/ pc \in {"unseal", "unstage"} /\ Stops(Installing, how)
       \/ At("scaffold") /\ kind = "update" /\ Stops("meta", how)
       \/ At("scaffold") /\ kind # "update" /\ Stops("idle", "ok")
       \/ At("discard") /\ Stops("idle", "ok")
       \/ At("drop") /\ Stops("idle", "failed")
       \/ At("undone") /\ Stops("idle", "rolled back")
       \/ At("retireHooks") /\ Stops("retireFiles", how)

\* "Rollback failed", with the copy preserved.
RollbackFails ==
    /\ Fault /\ pc \in Undoing
    /\ Stops("idle", "broken")

\* Every other failure is raised to the command as it is.
Fails(f) ==
    /\ Fault
    /\ pc \notin Staging \cup Undoing
    /\ ~ (At("copy") /\ Configured(mem) # {}) /\ ~ RetiresArtifacts(f)
    /\ f = "error" => pc \notin Cleanup \cup {"rerender"}
    /\ Raise(f)
    /\ UNCHANGED <<disk, owed>>
-----------------------------------------------------------------------------
(* The user, between commands. *)

Edit(n, c) ==
    /\ Idle /\ count.edits < MaxEdits
    /\ live.here /\ live.cfg[n] # c
    /\ live' = Put(live, n, c)
    /\ owed' = IF owed.by = "none" THEN owed ELSE [owed EXCEPT !.cfg[n] = c]
    /\ kind' = "none" /\ how' = "ok"
    /\ count' = [count EXCEPT !.edits = @ + 1]
    /\ UNCHANGED <<staging, backup, save, reg, hooks, cmds, generic, pc, ver, mem,
                   did, exc, was>>

\* The user does what the message of a refused install says: bring the live
\* files to the desired state and delete the staging directory.
Reconcile ==
    /\ Idle /\ how = "conflict"
    /\ live' = [live EXCEPT !.here = TRUE,
                            !.cfg = [n \in Names |-> IF @[n] = Absent THEN staging.cfg[n]
                                                     ELSE @[n]]]
    /\ staging' = NoDir
    /\ owed' = [by |-> "reconcile", cfg |-> live'.cfg]
    /\ kind' = "none" /\ how' = "ok"
    /\ UNCHANGED <<backup, save, reg, hooks, cmds, generic, pc, ver, mem, did, exc,
                   was, count>>
-----------------------------------------------------------------------------
Command ==
    \/ \E v \in Versions : \/ \E force \in BOOLEAN : Add(v, force)
                           \/ Update(v)
    \/ \E keep \in BOOLEAN : Remove(keep)
    \/ Enable \/ Disable

Step ==
    \/ Unregister \/ Strip \/ MarkKept \/ BackUp \/ Delete \/ Unhook \/ Deregister
    \/ LoadIgnore \/ Rescue \/ Restage \/ Stage \/ Wipe \/ Copy \/ Restore \/ Reseat
    \/ Render \/ RegisterHooks \/ Unback \/ Commit \/ Tidy \/ Unseal \/ Unstage
    \/ Scaffold
    \/ RetireHooks \/ RetireFiles \/ RetireMark
    \/ Save \/ Fetch \/ RestoreConfig \/ RestoreMetadata \/ Mute \/ Discard \/ Drop
    \/ UndoDirectory \/ UndoCommands \/ UndoHooks \/ UndoRegistry \/ Undone
    \/ Switch \/ Rerender \/ Flip

GoesWrong ==
    \/ Killed \/ RerenderFails \/ CleanupFails \/ RollbackFails
    \/ \E f \in {"error", "interrupt"} :
          StagingFails(f) \/ CopyFails(f) \/ RegistrationFails(f) \/ Fails(f)

User == Reconcile \/ \E n \in Names, c \in Written : Edit(n, c)

Rest == Idle /\ UNCHANGED vars

Next == Command \/ Step \/ GoesWrong \/ User \/ Rest

Spec == Init /\ [][Next]_vars
-----------------------------------------------------------------------------
Dir == [here : BOOLEAN, payload : Versions \cup {NoVersion, Torn}, mark : BOOLEAN,
        cfg : [Names -> Content]]
Entries == [ver : Versions \cup {NoVersion}, on : BOOLEAN]
Promise == [by : {"none", "keep", "reconcile"}, cfg : [Names -> Content]]
Kinds == {"none", "add", "force", "remove", "keep", "update", "enable", "disable"}
Steps == {"idle", "unregister", "strip", "mark", "backup", "delete", "unhook",
          "deregister", "ignore", "rescue", "wipe", "copy", "restore", "reseat",
          "retireHooks", "retireFiles", "retireMark", "save", "fetch", "config",
          "meta", "mute", "switch", "rerender", "flip"}
         \cup Staging \cup Registering \cup Cleanup \cup Undoing

TypeOK ==
    /\ {live, staging, backup, save} \subseteq Dir
    /\ {reg, hooks} \subseteq Entries
    /\ cmds \subseteq Versions /\ generic \in BOOLEAN
    /\ kind \in Kinds /\ pc \in Steps /\ ver \in Versions \cup {NoVersion}
    /\ mem \in [Names -> Content] /\ did \in BOOLEAN
    /\ exc \in {"none", "error", "interrupt"}
    /\ how \in {"running", "ok", "failed", "rolled back", "broken", "conflict"}
    /\ owed \in Promise
    /\ was \in [live : Dir, reg : Entries, hooks : Entries, cmds : SUBSET Versions,
                owed : Promise]
    /\ count \in [commands : 0 .. MaxCommands, edits : 0 .. MaxEdits,
                  faults : 0 .. MaxFaults]

Customised == {n \in Names : owed.cfg[n] \in Written}
Stored(n) ==
    \/ live.cfg[n] = owed.cfg[n]
    \/ StagingComplete /\ staging.cfg[n] = owed.cfg[n]

\* Configuration left by `remove --keep-config`, with the user's later edits of
\* it, is on disk under its own name or in a complete staging directory until
\* an install commits: at every step, through errors, Ctrl+C, kills and retries
\* (the rescue protocol of install_from_directory).
KeptConfigSurvives ==
    owed.by = "keep" => \A n \in Customised : Stored(n)

\* The message of a refused install (extensions/__init__.py:2768) has the user
\* bring the directory to the desired state and delete the staging directory,
\* then reinstall: the configuration agreed on then is not lost either.
ReconciledSurvives ==
    owed.by = "reconcile" => \A n \in Customised : Stored(n)

\* What the user had configured when the command started.
Had ==
    CASE kind = "update" -> was.live.cfg
      [] kind = "force" /\ was.reg # NotInstalled -> was.live.cfg
      [] kind \in {"add", "force"} /\ was.owed.by = "keep" -> was.owed.cfg
      [] OTHER -> NoCfg

Succeeded == Idle /\ how = "ok"

\* A successful install over kept configuration, forced reinstall or update
\* ends with the user's files, never with a default or an older copy of them.
ConfigCarriedOver ==
    Succeeded => \A n \in {m \in Names : Had[m] \in Written} : live.cfg[n] = Had[n]

OldWhole ==
    /\ reg = was.reg /\ hooks = was.hooks /\ cmds = was.cmds /\ live = was.live

NewWhole ==
    /\ reg = Entry(ver, was.reg.on) /\ hooks = Entry(ver, was.reg.on)
    /\ live.payload = ver
    /\ \A n \in Configured(was.live.cfg) : live.cfg[n] = was.live.cfg[n]
    /\ ver \in cmds \/ (generic /\ ~ was.reg.on)

\* An update of an intact extension ends with the old version in every place
\* (directory, commands, hooks, registry) or the new one in every place, and
\* what was disabled stays disabled; when it was interrupted, killed or could
\* not roll back, one of the two holds or the copy of the old directory is kept.
UpdateOutcome ==
    Idle /\ kind = "update" /\ was.live.payload = was.reg.ver =>
        \/ OldWhole
        \/ NewWhole
        \/ how = "broken" /\ save = was.live

\* Whatever earlier failures left behind, a command that reports success leaves
\* registry, directory, hooks and commands in agreement, and a removal leaves
\* nothing of the extension but the configuration it says it keeps.
SuccessIsWhole ==
    Succeeded =>
        CASE kind \in {"add", "force", "update"} ->
                /\ reg.ver = ver /\ live.payload = ver /\ ~ live.mark
                /\ hooks = Entry(ver, reg.on)
                /\ ver \in cmds \/ (generic /\ ~ reg.on)
          [] kind = "keep" ->
                /\ ~ Installed /\ hooks = NotInstalled /\ was.reg.ver \notin cmds
                /\ live.cfg = was.live.cfg /\ live.payload = NoVersion
                /\ live.mark = live.here
          [] kind = "remove" ->
                /\ ~ Installed /\ hooks = NotInstalled /\ was.reg.ver \notin cmds
                /\ live = NoDir
                /\ \A n \in Configured(was.live.cfg) : backup.cfg[n] = was.live.cfg[n]
          [] kind \in {"enable", "disable"} ->
                hooks \in {NotInstalled, Entry(hooks.ver, reg.on)}
          [] OTHER -> TRUE
=============================================================================
