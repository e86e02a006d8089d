------------------------- MODULE Extensions_proofs -------------------------
(* Theorems about Extensions for any files, releases, commands and failures. *)
EXTENDS Extensions, TLAPS

-----------------------------------------------------------------------------
(* The inductive invariant *)

Removing == {"unregister", "strip", "mark", "backup", "delete", "unhook", "deregister"}
Retiring == {"retireHooks", "retireFiles", "retireMark"}
Placing == {"wipe", "copy", "restore", "reseat"}
\* An install up to the registry entry that makes it final.
Uncommitted == {"ignore", "rescue"} \cup Staging \cup Placing \cup Registering \cup Retiring
InstallSteps == Uncommitted \cup Cleaning
UpdateSteps == {"save", "fetch", "config", "meta", "mute", "discard", "drop", "undone"}
               \cup Undoing
\* Steps at which the new package is in its directory, whole.
Placed == {"restore"} \cup Registering \cup Cleaning \cup {"config", "meta", "mute", "discard"}
Installs == {"add", "force", "update"}

\* Which commands take which steps, with which release and exception.
Routed ==
  /\ kind \in Installs => ver \in Versions
  /\ pc \in {"unregister", "unhook", "deregister"} =>
       kind \in {"remove", "keep", "force", "update"}
  /\ pc \in {"strip", "mark"} => kind \in {"keep", "update"}
  /\ pc \in {"backup", "delete"} => kind \in {"remove", "force"}
  /\ pc \in InstallSteps => kind \in Installs
  /\ pc = "scaffold" => kind \in Installs \cup {"enable"}
  /\ pc \in UpdateSteps => kind = "update"
  /\ pc \in {"switch", "flip"} => kind \in {"enable", "disable"}
  /\ pc = "rerender" => kind = "enable"
  /\ pc \in {"switch", "rerender", "flip"} => reg.ver \in Versions
  /\ pc = "reseat" => exc \in {"error", "interrupt"}
  /\ pc \in Retiring => exc = "error"
  /\ pc \in Removing \cup {"save", "fetch"} => reg = was.reg
  /\ kind = "update" \/ pc \in Removing => was.reg # NotInstalled
  /\ kind = "add" => was.reg = NotInstalled
  /\ pc \in InstallSteps => did = (kind = "force" /\ was.reg # NotInstalled)

\* A directory that is not there has nothing in it, an entry has a release, and
\* from the end of the copy to the end of the command the package is whole.
DirFormed(d) == d.here \/ d = NoDir
EntryFormed(e) == e = NotInstalled \/ e.ver \in Versions
Formed ==
  /\ DirFormed(live) /\ DirFormed(was.live)
  /\ EntryFormed(reg) /\ EntryFormed(was.reg)
  /\ pc \in {"strip", "mark", "reseat"} => live.here
  /\ pc \in Placed \/ (pc = "scaffold" /\ kind # "enable") =>
       live.payload = ver /\ ~ live.mark

\* Where configuration kept by `remove --keep-config` is: until an install
\* begins to wipe the directory, there or in a complete staging directory; from
\* then on in the staging directory and in memory.
Held(cfg) == \A n \in Customised : cfg[n] = owed.cfg[n]
Marked == live.here /\ live.mark /\ Configured(live.cfg) # {}
Kept ==
  owed.by = "keep" =>
    /\ reg = NotInstalled
    /\ pc \in {"idle"} \cup Uncommitted /\ (pc # "idle" => was.reg = NotInstalled)
    /\ pc \in {"idle", "ignore", "rescue"} =>
         (\A n \in Customised : Stored(n)) /\ (StagingComplete \/ Marked)
    /\ pc \in Staging => Marked /\ Held(live.cfg) /\ mem = live.cfg /\ ~ StagingComplete
    /\ pc = "stage" =>
         /\ staging.here
         /\ \A n \in Names : staging.cfg[n] \in {Absent, mem[n]}
    /\ pc \in Placing \cup Registering \cup Retiring =>
         StagingComplete /\ Held(staging.cfg) /\ Held(mem)
    /\ pc \in Registering => Held(live.cfg)

\* The configuration in the directory when a reinstall or a removal began is in
\* the backup, and is put back before the reinstall commits.
Holds(cfg) == \A n \in Configured(was.live.cfg) : cfg[n] = was.live.cfg[n]
BackedUp ==
  /\ pc \in {"unregister", "backup"} => live = was.live
  /\ kind \in {"remove", "force"} /\ was.reg # NotInstalled =>
       /\ pc \in {"unhook", "deregister"} => live = NoDir
       /\ pc \in {"delete", "unhook", "deregister", "tidy"} \cup Uncommitted => Holds(backup.cfg)

\* What a command carries over is in the directory when it has committed.
HoldsOwed == \A n \in Names : was.owed.cfg[n] \in Written => live.cfg[n] = was.owed.cfg[n]
Carried ==
  /\ was.owed.by = "keep" => was.reg = NotInstalled
  /\ kind = "force" /\ was.reg # NotInstalled =>
       (pc \in {"commit", "scaffold"} \cup Cleaning \/ Succeeded => Holds(live.cfg))
  /\ kind = "update" =>
       (pc \in {"scaffold", "meta", "mute", "discard"} \/ Succeeded => Holds(live.cfg))
  /\ kind \in {"add", "force"} /\ was.owed.by = "keep" =>
       /\ pc \in Uncommitted => owed = was.owed
       /\ pc \in {"scaffold"} \cup Cleaning \/ Succeeded => HoldsOwed

\* An update can go back: nothing is changed before the copy is made, and the copy
\* is there until the old version is back or the new one is in place.
Unchanged == live = was.live /\ reg = was.reg /\ hooks = was.hooks /\ cmds = was.cmds
Undoable ==
  kind = "update" =>
    /\ pc \in {"save", "fetch", "drop"} => Unchanged
    /\ pc \notin {"idle", "save", "drop"} => save = was.live
    /\ was.live.here =>
         /\ pc \in {"undoCmds", "undoHooks", "undoReg", "undone"} => live = was.live
         /\ pc \in {"undoHooks", "undoReg", "undone"} => cmds = was.cmds
         /\ pc \in {"undoReg", "undone"} => hooks = was.hooks
         /\ pc = "undone" => reg = was.reg

\* How far the installation is registered, and how far a removal has come.
Settled == Cleaning \cup {"config", "meta"}
Agreed ==
  /\ pc \in {"hook", "unback", "commit"} \cup Settled => ver \in cmds
  /\ pc \in {"unback", "commit", "mute"} \cup Settled => hooks = Entry(ver, TRUE)
  /\ pc \in Settled => reg = Entry(ver, TRUE)
  /\ pc = "scaffold" /\ kind # "enable" =>
       ver \in cmds /\ hooks = Entry(ver, TRUE) /\ reg = Entry(ver, TRUE)
  /\ pc \in {"mute", "discard"} =>
       reg = Entry(ver, was.reg.on) /\ (ver \in cmds \/ (generic /\ ~ was.reg.on))
  /\ pc = "mute" => ~ was.reg.on
  /\ pc = "discard" => hooks = reg
  /\ pc \in {"scaffold"} /\ kind = "enable" => hooks \in {NotInstalled, Entry(hooks.ver, reg.on)}
  /\ pc \in Removing \ {"unregister"} => was.reg.ver \notin cmds
  /\ pc = "deregister" => hooks = NotInstalled
  /\ kind = "keep" =>
       /\ pc \in Removing => live.cfg = was.live.cfg
       /\ pc \in {"mark", "unhook", "deregister"} => live.payload = NoVersion
       /\ pc \in {"unhook", "deregister"} => live.mark = live.here

Sound == Routed /\ Formed /\ Kept /\ BackedUp /\ Carried /\ Undoable /\ Agreed
         /\ UpdateOutcome /\ SuccessIsWhole
IInv == TypeOK /\ Sound

-----------------------------------------------------------------------------
(* Types *)

ConstantsSound ==
  /\ Versions \subseteq Nat \ {0} /\ Absent \notin Versions /\ Torn \notin Versions
  /\ Torn # NoVersion /\ Written \cap (Versions \cup {Absent}) = {}
  /\ \A v \in Versions : Ships[v] \subseteq Names /\ Declares[v] \subseteq Names

LEMMA ConstantsAreSound == ConstantsSound
BY VersionsAssumption, PackagesAssumption, WrittenAssumption, TornAssumption
   DEF ConstantsSound, Absent, NoVersion

\* The directories the steps write are directories.
LEMMA DirsTyped ==
  /\ NoCfg \in [Names -> Content] /\ NoDir \in Dir /\ EmptyDir \in Dir
  /\ \A d \in Dir : \A n \in Names : \A c \in Content : Put(d, n, c) \in Dir
  /\ \A d \in Dir : Remains(d) \subseteq Dir
  /\ \A v \in Versions : Partial(v) \subseteq Dir /\ Package(v) \in Dir
<1>1. NoCfg \in [Names -> Content] /\ NoDir \in Dir /\ EmptyDir \in Dir
  BY DEF NoCfg, NoDir, EmptyDir, Dir, Content, NoVersion
<1>2. \A d \in Dir : \A n \in Names : \A c \in Content : Put(d, n, c) \in Dir
  BY DEF Put, Dir
<1>3. \A d \in Dir : Remains(d) \subseteq Dir
  <2> SUFFICES ASSUME NEW d \in Dir, NEW r \in Remains(d) PROVE r \in Dir
    OBVIOUS
  <2>1. PICK p \in {NoVersion} \cup (IF d.payload = NoVersion THEN {} ELSE {Torn}),
             m \in {FALSE, d.mark}, left \in SUBSET Configured(d.cfg) :
          r = [here |-> TRUE, payload |-> p, mark |-> m,
               cfg |-> [n \in Names |-> IF n \in left THEN d.cfg[n] ELSE Absent]]
    BY DEF Remains
  <2>2. p \in Versions \cup {NoVersion, Torn} /\ m \in BOOLEAN
    BY <2>1 DEF Dir
  <2>3. [n \in Names |-> IF n \in left THEN d.cfg[n] ELSE Absent] \in [Names -> Content]
    BY DEF Dir, Content
  <2> QED BY <2>1, <2>2, <2>3 DEF Dir
<1>4. \A v \in Versions : Partial(v) \subseteq Dir /\ Package(v) \in Dir
  BY DEF Partial, Package, EmptyDir, NoDir, Dir, Content, NoVersion
<1> QED BY <1>1, <1>2, <1>3, <1>4

LEMMA EntriesTyped ==
  /\ NotInstalled \in Entries /\ NoOne \in Promise
  /\ \A v \in Versions \cup {NoVersion} : \A on \in BOOLEAN : Entry(v, on) \in Entries
BY DirsTyped DEF NotInstalled, Entry, Entries, NoOne, Promise

LEMMA InitTyped == Init => TypeOK
<1> SUFFICES ASSUME Init PROVE TypeOK
  OBVIOUS
<1>2. was \in [live : Dir, reg : Entries, hooks : Entries, cmds : SUBSET Versions,
             owed : Promise]
  BY EntriesTyped, DirsTyped DEF Init, Snapshot
<1>3. count \in [commands : 0 .. MaxCommands, edits : 0 .. MaxEdits, faults : 0 .. MaxFaults]
  BY BoundsAssumption DEF Init
<1>4. pc \in Steps /\ kind \in Kinds /\ ver \in Versions \cup {NoVersion}
  BY DEF Init, Steps, Kinds
<1> QED BY <1>2, <1>3, <1>4, DirsTyped, EntriesTyped DEF Init, TypeOK

\* The parts of the type invariant: what is on disk and owed, and the command.
DiskTyped ==
  /\ {live, staging, backup, save} \subseteq Dir /\ {reg, hooks} \subseteq Entries
  /\ cmds \subseteq Versions /\ owed \in Promise
CommandTyped ==
  /\ generic \in BOOLEAN
  /\ kind \in Kinds /\ pc \in Steps /\ ver \in Versions \cup {NoVersion}
  /\ mem \in [Names -> Content] /\ did \in BOOLEAN
  /\ exc \in {"none", "error", "interrupt"}
  /\ how \in {"running", "ok", "failed", "rolled back", "broken", "conflict"}
  /\ was \in [live : Dir, reg : Entries, hooks : Entries, cmds : SUBSET Versions,
              owed : Promise]
  /\ count \in [commands : 0 .. MaxCommands, edits : 0 .. MaxEdits,
                faults : 0 .. MaxFaults]

LEMMA TypeParts ==
  /\ TypeOK <=> DiskTyped /\ CommandTyped
  /\ TypeOK' <=> DiskTyped' /\ CommandTyped'
BY DEF TypeOK, DiskTyped, CommandTyped

Counts == [commands : 0 .. MaxCommands, edits : 0 .. MaxEdits, faults : 0 .. MaxFaults]

\* Counters stay within their bounds.
LEMMA CountsUp ==
  ASSUME NEW c \in Counts
  PROVE  /\ c.commands < MaxCommands => [c EXCEPT !.commands = @ + 1] \in Counts
         /\ c.edits < MaxEdits => [c EXCEPT !.edits = @ + 1] \in Counts
         /\ c.faults < MaxFaults => [c EXCEPT !.faults = @ + 1] \in Counts
BY BoundsAssumption DEF Counts

\* Where a step goes on, however it ends.
LEMMA Onward ==
  ASSUME TypeOK
  PROVE  /\ \A p \in Steps : Goto(p) => CommandTyped'
         /\ \A o \in {"ok", "failed", "rolled back"} : Ends(o) => CommandTyped'
         /\ \A f \in {"error", "interrupt", "conflict"} :
              Raise(f) /\ count' = count => CommandTyped'
         /\ \A f \in {"error", "interrupt", "conflict"} :
              Raise(f) /\ Fault => CommandTyped'
<1> USE DEF CommandTyped, TypeOK, locals
<1>1. \A p \in Steps : Goto(p) => CommandTyped'
  BY DEF Goto
<1>2. {"idle", "drop", "undoDir"} \subseteq Steps
  BY DEF Steps, Staging, Registering, Cleaning, Undoing, Cleanup
<1>3. \A o \in {"ok", "failed", "rolled back"} : Ends(o) => CommandTyped'
  BY <1>2 DEF Ends
<1>4. Fault => count' \in [commands : 0 .. MaxCommands, edits : 0 .. MaxEdits,
                           faults : 0 .. MaxFaults]
  BY CountsUp DEF Fault, Counts
<1>5. \A f \in {"error", "interrupt", "conflict"} :
        Raise(f) =>
          /\ pc' \in Steps /\ exc' = "none"
          /\ how' \in {how, "failed", "broken", "conflict"}
          /\ UNCHANGED <<locals, generic>>
  BY <1>2 DEF Raise
<1> QED BY <1>1, <1>3, <1>4, <1>5

LEMMA StepsNamed ==
  /\ {"idle", "save", "switch"} \subseteq Steps /\ InstallSteps \subseteq Steps
  /\ Removing \subseteq Steps /\ UpdateSteps \subseteq Steps
  /\ Cleanup \subseteq Steps /\ {"rerender", "flip"} \subseteq Steps
BY DEF Steps, InstallSteps, Uncommitted, Removing, UpdateSteps, Staging, Placing, Registering,
       Retiring, Cleaning, Undoing, Cleanup

LEMMA StartTyped ==
  ASSUME TypeOK, NEW k \in Kinds, NEW v \in Versions \cup {NoVersion}, NEW p \in Steps,
         Start(k, v, p)
  PROVE  CommandTyped' /\ owed' = owed
<1>1. Snapshot \in [live : Dir, reg : Entries, hooks : Entries, cmds : SUBSET Versions,
                    owed : Promise]
  BY DEF Snapshot, TypeOK
<1>2. count' \in [commands : 0 .. MaxCommands, edits : 0 .. MaxEdits,
                  faults : 0 .. MaxFaults]
  BY CountsUp DEF Start, TypeOK, Counts
<1> QED BY <1>1, <1>2, DirsTyped DEF Start, CommandTyped, TypeOK

LEMMA CommandsTyped == ASSUME TypeOK, Command PROVE TypeOK'
<1>1. {"unregister", "ignore", "save", "switch"} \subseteq Steps
  BY DEF Steps
<1>2. reg.ver \in Versions \cup {NoVersion}
  BY DEF TypeOK, Entries
<1>3. ASSUME NEW v \in Versions, NEW force \in BOOLEAN, Add(v, force) PROVE TypeOK'
  <2>1. DiskTyped /\ CommandTyped' /\ owed' = owed
    <3>1. \E k \in Kinds, p \in Steps : Start(k, v, p)
      BY <1>1, <1>3 DEF Add, Kinds
    <3> QED BY <3>1, StartTyped, TypeParts
  <2> QED BY <1>3, <2>1, TypeParts, DirsTyped DEF Add, DiskTyped
<1>4. ASSUME NEW v \in Versions, Update(v) PROVE TypeOK'
  <2>1. DiskTyped /\ CommandTyped' /\ owed' = owed
    BY <1>1, <1>4, StartTyped, TypeParts DEF Update, Kinds
  <2> QED BY <1>4, <2>1, TypeParts DEF Update, DiskTyped, disk
<1>5. ASSUME NEW keep \in BOOLEAN, Remove(keep) PROVE TypeOK'
  <2>1. DiskTyped /\ CommandTyped' /\ owed' = owed
    <3>1. \E k \in Kinds : Start(k, reg.ver, "unregister")
      BY <1>5 DEF Remove, Kinds
    <3> QED BY <1>1, <1>2, <3>1, StartTyped, TypeParts
  <2> QED BY <1>5, <2>1, TypeParts DEF Remove, DiskTyped, disk
<1>6. ASSUME Enable \/ Disable PROVE TypeOK'
  <2>1. DiskTyped /\ CommandTyped' /\ owed' = owed
    BY <1>1, <1>2, <1>6, StartTyped, TypeParts DEF Enable, Disable, Kinds
  <2> QED BY <1>6, <2>1, TypeParts DEF Enable, Disable, DiskTyped, disk
<1> QED BY <1>3, <1>4, <1>5, <1>6 DEF Command

\* The steps of a removal keep the types.
LEMMA RemovalTyped ==
  ASSUME TypeOK,
         \/ Unregister \/ Strip \/ MarkKept \/ BackUp \/ Delete \/ Unhook \/ Deregister
  PROVE  TypeOK'
<1>0. Removing \subseteq Steps /\ DiskTyped /\ "ignore" \in Steps
  BY StepsNamed, TypeParts DEF InstallSteps, Uncommitted
<1> USE DEF DiskTyped, Removing
<1>1. CASE Unregister
  BY <1>0, <1>1, Onward, TypeParts DEF Unregister
<1>2. CASE Strip
  BY <1>0, <1>2, Onward, TypeParts DEF Strip, Dir
<1>3. CASE MarkKept
  BY <1>0, <1>3, Onward, TypeParts DEF MarkKept, Dir
<1>4. CASE BackUp
  <2>1. [backup EXCEPT !.here = TRUE] \in Dir /\ \A n \in Names : live.cfg[n] \in Content
    BY <1>0 DEF Dir
  <2> QED BY <1>0, <1>4, <2>1, Onward, TypeParts, DirsTyped DEF BackUp, Configured
<1>5. CASE Delete
  BY <1>0, <1>5, Onward, TypeParts, DirsTyped DEF Delete
<1>6. CASE Unhook
  BY <1>0, <1>6, Onward, TypeParts, EntriesTyped DEF Unhook
<1>7. CASE Deregister
  <2>1. reg' \in Entries /\ UNCHANGED <<live, staging, backup, save, hooks, cmds>>
    BY <1>7, EntriesTyped DEF Deregister
  <2>2. owed' \in Promise
    BY <1>0, <1>7, EntriesTyped DEF Deregister, Promise, Dir
  <2>3. CommandTyped'
    BY <1>0, <1>7, Onward, TypeParts DEF Deregister, CommandTyped
  <2> QED BY <1>0, <2>1, <2>2, <2>3, TypeParts
<1> QED BY <1>1, <1>2, <1>3, <1>4, <1>5, <1>6, <1>7

\* The steps of an install keep the types.
LEMMA InstallTyped ==
  ASSUME TypeOK, Routed,
         \/ LoadIgnore \/ Rescue \/ Restage \/ Stage \/ Wipe \/ Copy \/ Restore \/ Reseat
         \/ Render \/ RegisterHooks \/ Unback \/ Commit \/ Tidy \/ Unseal \/ Unstage
  PROVE  TypeOK'
<1>0. /\ InstallSteps \cup {"scaffold", "config"} \subseteq Steps /\ DiskTyped
      /\ mem \in [Names -> Content] /\ kind \in Kinds
      /\ \A n \in Names : live.cfg[n] \in Content /\ staging.cfg[n] \in Content
                          /\ backup.cfg[n] \in Content
      /\ live.cfg \in [Names -> Content] /\ staging.cfg \in [Names -> Content]
  BY StepsNamed, TypeParts DEF UpdateSteps, Cleanup, DiskTyped, CommandTyped, Dir
<1>1. pc \in InstallSteps => ver \in Versions
  BY DEF Routed
<1> USE DEF DiskTyped, InstallSteps, Uncommitted, Staging, Placing, Registering, Cleaning,
            At, Configured
<1>2. CASE LoadIgnore
  BY <1>0, <1>2, Onward, TypeParts DEF LoadIgnore, disk
<1>3. CASE Rescue
  <2>1. CommandTyped'
    BY <1>0, <1>3, Onward, TypeParts, DirsTyped DEF Rescue, CommandTyped
  <2> QED BY <1>0, <1>3, <2>1, TypeParts DEF Rescue, disk
<1>4. CASE Restage
  BY <1>0, <1>4, Onward, TypeParts, DirsTyped DEF Restage
<1>5. CASE Stage
  <2>1. [staging EXCEPT !.mark = TRUE] \in Dir
    BY <1>0 DEF Dir
  <2> QED BY <1>0, <1>5, <2>1, Onward, TypeParts, DirsTyped DEF Stage
<1>6. CASE Wipe
  BY <1>0, <1>6, Onward, TypeParts, DirsTyped DEF Wipe
<1>7. CASE Copy
  BY <1>0, <1>1, <1>7, Onward, TypeParts, DirsTyped DEF Copy
<1>8. CASE Restore
  BY <1>0, <1>8, Onward, TypeParts, DirsTyped DEF Restore, Unrestored
<1>9. CASE Reseat
  <2>1. exc \in {"error", "interrupt", "conflict"}
    BY <1>9 DEF Reseat, Routed
  <2>2. CommandTyped'
    BY <1>0, <1>9, <2>1, Onward DEF Reseat
  <2> QED BY <1>0, <1>9, <2>2, TypeParts, DirsTyped DEF Reseat, Unrestored
<1>10. CASE Render
  BY <1>0, <1>1, <1>10, Onward, TypeParts DEF Render
<1>11. CASE RegisterHooks
  BY <1>0, <1>1, <1>11, Onward, TypeParts, EntriesTyped DEF RegisterHooks
<1>12. CASE Unback
  BY <1>0, <1>12, Onward, TypeParts, DirsTyped DEF Unback
<1>13. CASE Commit
  BY <1>0, <1>1, <1>13, Onward, TypeParts, EntriesTyped DEF Commit
<1>14. CASE Tidy
  BY <1>0, <1>14, Onward, TypeParts, DirsTyped DEF Tidy
<1>15. CASE Unseal
  BY <1>0, <1>15, Onward, TypeParts DEF Unseal, Dir, Installing
<1>16. CASE Unstage
  BY <1>0, <1>16, Onward, TypeParts, DirsTyped DEF Unstage, Installing
<1> QED BY <1>2, <1>3, <1>4, <1>5, <1>6, <1>7, <1>8, <1>9, <1>10, <1>11, <1>12, <1>13,
           <1>14, <1>15, <1>16

\* The steps around an install, of an update and of a switch, keep the types.
LEMMA AroundTyped ==
  ASSUME TypeOK, Routed,
         \/ Scaffold \/ RetireHooks \/ RetireFiles \/ RetireMark
         \/ Save \/ Fetch \/ RestoreConfig \/ RestoreMetadata \/ Mute \/ Discard \/ Drop
         \/ UndoDirectory \/ UndoCommands \/ UndoHooks \/ UndoRegistry \/ Undone
         \/ Switch \/ Rerender \/ Flip
  PROVE  TypeOK'
<1>a. Retiring \cup UpdateSteps \cup {"scaffold", "unregister", "rerender", "flip"}
        \subseteq Steps
  BY StepsNamed DEF InstallSteps, Uncommitted, Removing, Cleanup
<1>0. /\ DiskTyped /\ mem \in [Names -> Content]
      /\ \A n \in Names : live.cfg[n] \in Content /\ save.cfg[n] \in Content
                          /\ backup.cfg[n] \in Content
      /\ reg.ver \in Versions \cup {NoVersion} /\ hooks.ver \in Versions \cup {NoVersion}
      /\ reg.on \in BOOLEAN /\ was.reg.on \in BOOLEAN
      /\ was.reg \in Entries /\ was.hooks \in Entries /\ was.cmds \subseteq Versions
      /\ ver \in Versions \cup {NoVersion}
  BY TypeParts DEF DiskTyped, CommandTyped, Dir, Entries
<1> USE DEF DiskTyped, UpdateSteps, Undoing, Retiring, At, Configured
<1>1. CASE Scaffold
  <2>1. CommandTyped'
    BY <1>a, <1>0, <1>1, Onward DEF Scaffold, Scaffolded
  <2>2. \A n \in Templates : Put(live, n, live.payload) \in Dir
    BY <1>0, DirsTyped, ConstantsAreSound DEF Templates, ConstantsSound, Content
  <2> QED BY <1>0, <1>1, <2>1, <2>2, TypeParts DEF Scaffold
<1>2. CASE RetireHooks
  BY <1>a, <1>0, <1>2, Onward, TypeParts, EntriesTyped DEF RetireHooks
<1>3. CASE RetireFiles
  <2>1. PreservedCfg \in [Names -> Content]
    BY <1>0 DEF PreservedCfg, Content
  <2>2. [EmptyDir EXCEPT !.payload = Torn, !.cfg = PreservedCfg] \in Dir
    BY <2>1, DirsTyped DEF Dir
  <2> QED BY <1>a, <1>0, <1>3, <2>2, Onward, TypeParts, DirsTyped DEF RetireFiles
<1>4. CASE RetireMark
  <2>1. exc = "error"
    BY <1>4 DEF RetireMark, Routed
  <2>2. [live EXCEPT !.payload = NoVersion, !.mark = TRUE] \in Dir
    BY <1>0 DEF Dir
  <2> QED BY <1>a, <1>0, <1>4, <2>1, <2>2, Onward, TypeParts DEF RetireMark
<1>5. CASE Save \/ Fetch
  BY <1>a, <1>0, <1>5, Onward, TypeParts DEF Save, Fetch, disk
<1>6. CASE RestoreConfig
  BY <1>a, <1>0, <1>6, Onward, TypeParts, DirsTyped DEF RestoreConfig
<1>7. CASE RestoreMetadata
  BY <1>a, <1>0, <1>7, Onward, TypeParts, EntriesTyped DEF RestoreMetadata
<1>8. CASE Mute
  BY <1>a, <1>0, <1>8, Onward, TypeParts, EntriesTyped DEF Mute
<1>9. CASE Discard \/ Drop \/ Undone
  BY <1>a, <1>0, <1>9, Onward, TypeParts, DirsTyped DEF Discard, Drop, Undone
<1>10. CASE UndoDirectory
  BY <1>a, <1>0, <1>10, Onward, TypeParts, DirsTyped DEF UndoDirectory
<1>11. CASE UndoCommands \/ UndoHooks \/ UndoRegistry
  BY <1>a, <1>0, <1>11, Onward, TypeParts DEF UndoCommands, UndoHooks, UndoRegistry
<1>12. CASE Switch
  <2>1. reg' = Entry(reg.ver, kind = "enable")
    BY <1>a, <1>0, <1>12 DEF Switch, Entry, Entries
  <2>2. reg' \in Entries
    BY <1>0, <2>1, EntriesTyped
  <2> QED BY <1>a, <1>0, <1>12, <2>2, Onward, TypeParts DEF Switch
<1>13. CASE Rerender
  <2>1. cmds \cup {reg.ver} \subseteq Versions
    BY <1>0, <1>13 DEF Rerender, Routed
  <2>2. [reg EXCEPT !.on = FALSE] \in Entries
    BY <1>0 DEF Entries
  <2> QED BY <1>a, <1>0, <1>13, <2>1, <2>2, Onward, TypeParts DEF Rerender
<1>14. CASE Flip
  BY <1>a, <1>0, <1>14, Onward, TypeParts, EntriesTyped DEF Flip
<1> QED BY <1>1, <1>2, <1>3, <1>4, <1>5, <1>6, <1>7, <1>8, <1>9, <1>10, <1>11, <1>12, <1>13, <1>14

\* Faults, and what the user does between commands, keep the types.
LEMMA OthersTyped ==
  ASSUME TypeOK, GoesWrong \/ User
  PROVE  TypeOK'
<1>0. /\ DiskTyped /\ CommandTyped
      /\ Retiring \cup UpdateSteps \cup InstallSteps \cup {"scaffold", "idle"} \subseteq Steps
      /\ Fault => count' \in Counts
  BY StepsNamed, TypeParts, CountsUp DEF Cleanup, InstallSteps, Uncommitted, Counts, CommandTyped, Fault
<1>1. CASE Killed
  BY <1>0, <1>1, TypeParts DEF Killed, DiskTyped, CommandTyped, disk, locals, Counts
<1>2. CASE RerenderFails
  <2>1. [reg EXCEPT !.on = FALSE] \in Entries
    BY <1>0 DEF DiskTyped, Entries
  <2> QED BY <1>0, <1>2, <2>1, TypeParts DEF RerenderFails, DiskTyped, CommandTyped, locals, Counts
<1>3. CASE CleanupFails
  <2>1. "unseal" \in Steps /\ "config" \in Steps /\ "meta" \in Steps /\ "retireFiles" \in Steps
    BY <1>0 DEF InstallSteps, Cleaning, UpdateSteps, Retiring
  <2>2. \E p \in Steps, o \in {how, "ok", "failed", "rolled back"} : Fault /\ Stops(p, o)
    BY <1>0, <1>3, <2>1 DEF CleanupFails, Installing
  <2> QED BY <1>0, <2>2, TypeParts DEF Stops, DiskTyped, CommandTyped, disk, locals, Counts
<1>4. CASE RollbackFails
  BY <1>0, <1>4, TypeParts DEF RollbackFails, Stops, DiskTyped, CommandTyped, disk, locals, Counts
<1>5. ASSUME NEW f \in {"error", "interrupt"}, StagingFails(f) PROVE TypeOK'
  BY <1>0, <1>5, Onward, TypeParts, DirsTyped DEF StagingFails, DiskTyped
<1>6. ASSUME NEW f \in {"error", "interrupt"}, CopyFails(f) PROVE TypeOK'
  <2>1. [live EXCEPT !.here = TRUE] \in Dir /\ "reseat" \in Steps
    BY <1>0 DEF DiskTyped, Dir, InstallSteps, Uncommitted, Placing
  <2> QED BY <1>0, <1>6, <2>1, TypeParts DEF CopyFails, DiskTyped, CommandTyped, locals, Counts
<1>7. ASSUME NEW f \in {"error", "interrupt"}, RegistrationFails(f) PROVE TypeOK'
  <2>1. {"retireFiles", "retireHooks"} \subseteq Steps
    BY <1>0 DEF Retiring
  <2> QED BY <1>0, <1>7, <2>1, TypeParts
          DEF RegistrationFails, DiskTyped, CommandTyped, disk, locals, Counts
<1>8. ASSUME NEW f \in {"error", "interrupt"}, Fails(f) PROVE TypeOK'
  BY <1>0, <1>8, Onward, TypeParts DEF Fails, DiskTyped, disk
<1>9. ASSUME NEW n \in Names, NEW c \in Written, Edit(n, c) PROVE TypeOK'
  <2>1. c \in Content
    BY DEF Content
  <2>2. live' \in Dir
    BY <1>0, <1>9, <2>1, DirsTyped DEF Edit, DiskTyped
  <2>3. owed' \in Promise
    BY <1>0, <1>9, <2>1 DEF Edit, DiskTyped, Promise
  <2>4. count' \in Counts
    BY <1>0, <1>9, CountsUp DEF Edit, CommandTyped, Counts
  <2> QED BY <1>0, <1>9, <2>2, <2>3, <2>4, TypeParts
          DEF Edit, DiskTyped, CommandTyped, Counts, Kinds
<1>10. CASE Reconcile
  <2>1. live' \in Dir /\ live'.cfg \in [Names -> Content]
    BY <1>0, <1>10 DEF Reconcile, DiskTyped, Dir
  <2>2. owed' \in Promise
    BY <1>10, <2>1 DEF Reconcile, Promise
  <2> QED BY <1>0, <1>10, <2>1, <2>2, DirsTyped, TypeParts
          DEF Reconcile, DiskTyped, CommandTyped, Kinds
<1> QED BY <1>1, <1>2, <1>3, <1>4, <1>5, <1>6, <1>7, <1>8, <1>9, <1>10 DEF GoesWrong, User

LEMMA NextTyped == ASSUME TypeOK, Routed, Next PROVE TypeOK'
<1>1. CASE Rest
  BY <1>1 DEF Rest, TypeOK, vars, disk, locals
<1> QED BY <1>1, CommandsTyped, RemovalTyped, InstallTyped, AroundTyped, OthersTyped
        DEF Next, Step

-----------------------------------------------------------------------------
(* Which command takes which step *)

\* The exception of a handler, raised again, ends the command or rolls it back.
LEMMA Raising ==
  ASSUME NEW f \in {"error", "interrupt", "conflict"}, Raise(f)
  PROVE  /\ UNCHANGED <<kind, ver, mem, did, was, generic>> /\ exc' = "none"
         /\ \/ kind = "update" /\ pc' \in {"drop", "undoDir"} /\ how' = how
               /\ (pc' = "drop" <=> pc \in {"save", "fetch"})
            \/ pc' = "idle" /\ how' \in {"failed", "broken", "conflict"}
               /\ (kind = "update" => how' = "broken")
BY DEF Raise, locals

LEMMA CommandsRouted == ASSUME Routed, Formed, Command PROVE Routed'
<1> USE DEF Routed, Formed, EntryFormed, Start, Snapshot, Installed, Removing, InstallSteps, Installs,
        Uncommitted, UpdateSteps, Staging, Placing, Registering, Retiring, Cleaning, Undoing
<1>3. ASSUME NEW v \in Versions, NEW force \in BOOLEAN, Add(v, force) PROVE Routed'
  BY <1>3 DEF Add
<1>4. ASSUME NEW v \in Versions, Update(v) PROVE Routed'
  BY <1>4 DEF Update, disk
<1>5. ASSUME NEW keep \in BOOLEAN, Remove(keep) PROVE Routed'
  BY <1>5 DEF Remove, disk
<1>6. ASSUME Enable \/ Disable PROVE Routed'
  BY <1>6 DEF Enable, Disable, disk
<1> QED BY <1>3, <1>4, <1>5, <1>6 DEF Command

LEMMA RemovalRouted ==
  ASSUME Routed,
         \/ Unregister \/ Strip \/ MarkKept \/ BackUp \/ Delete \/ Unhook \/ Deregister
  PROVE  Routed'
<1> USE DEF Routed, Removing, InstallSteps, Installs, At, Goto, Ends, locals,
        Uncommitted, UpdateSteps, Staging, Placing, Registering, Retiring, Cleaning, Undoing
<1>1. CASE Unregister \/ Strip \/ MarkKept \/ BackUp \/ Delete \/ Unhook
  BY <1>1 DEF Unregister, Strip, MarkKept, BackUp, Delete, Unhook
<1>2. CASE Deregister
  BY <1>2 DEF Deregister
<1> QED BY <1>1, <1>2

LEMMA InstallRouted ==
  ASSUME Routed,
         \/ LoadIgnore \/ Rescue \/ Restage \/ Stage \/ Wipe \/ Copy \/ Restore \/ Reseat
         \/ Render \/ RegisterHooks \/ Unback \/ Commit \/ Tidy \/ Unseal \/ Unstage
  PROVE  Routed'
<1> USE DEF Routed, Removing, InstallSteps, Installs, At, Goto, Ends, locals, disk,
        Uncommitted, UpdateSteps, Staging, Placing, Registering, Retiring, Cleaning, Undoing
<1>1. CASE LoadIgnore \/ Rescue \/ Restage \/ Stage \/ Wipe \/ Copy \/ Restore
  BY <1>1, Raising DEF LoadIgnore, Rescue, Restage, Stage, Wipe, Copy, Restore
<1>2. CASE Reseat
  BY <1>2, Raising DEF Reseat
<1>3. CASE Render \/ RegisterHooks \/ Unback \/ Commit \/ Tidy \/ Unseal \/ Unstage
  BY <1>3 DEF Render, RegisterHooks, Unback, Commit, Tidy, Unseal, Unstage, Installing
<1> QED BY <1>1, <1>2, <1>3

LEMMA AroundRouted ==
  ASSUME TypeOK, Routed,
         \/ Scaffold \/ RetireHooks \/ RetireFiles \/ RetireMark
         \/ Save \/ Fetch \/ RestoreConfig \/ RestoreMetadata \/ Mute \/ Discard \/ Drop
         \/ UndoDirectory \/ UndoCommands \/ UndoHooks \/ UndoRegistry \/ Undone
         \/ Switch \/ Rerender \/ Flip
  PROVE  Routed'
<1> USE DEF Routed, Removing, InstallSteps, Installs, At, Goto, Ends, locals, disk,
        Uncommitted, UpdateSteps, Staging, Placing, Registering, Retiring, Cleaning, Undoing
<1>1. CASE Scaffold \/ RetireHooks \/ RetireFiles \/ RetireMark
  BY <1>1, Raising DEF Scaffold, Scaffolded, RetireHooks, RetireFiles, RetireMark
<1>2. CASE Save \/ Fetch \/ RestoreConfig \/ RestoreMetadata \/ Mute \/ Discard \/ Drop
  BY <1>2 DEF Save, Fetch, RestoreConfig, RestoreMetadata, Mute, Discard, Drop
<1>3. CASE UndoDirectory \/ UndoCommands \/ UndoHooks \/ UndoRegistry \/ Undone
  BY <1>3 DEF UndoDirectory, UndoCommands, UndoHooks, UndoRegistry, Undone
<1>4. CASE Switch \/ Rerender \/ Flip
  <2>1. reg'.ver = reg.ver
    BY <1>4 DEF Switch, Rerender, Flip, TypeOK, Entries
  <2> QED BY <1>4, <2>1 DEF Switch, Rerender, Flip
<1> QED BY <1>1, <1>2, <1>3, <1>4

LEMMA OthersRouted ==
  ASSUME TypeOK, Routed, GoesWrong \/ User \/ Rest
  PROVE  Routed'
<1> USE DEF Routed, Removing, InstallSteps, Installs, At, Goto, Ends, locals, disk,
        Uncommitted, UpdateSteps, Staging, Placing, Registering, Retiring, Cleaning, Undoing
<1>1. CASE Killed \/ RerenderFails \/ RollbackFails
  BY <1>1 DEF Killed, RerenderFails, RollbackFails, Stops, Fault
<1>2. CASE CleanupFails
  BY <1>2 DEF CleanupFails, Stops, Fault, Installing
<1>3. ASSUME NEW f \in {"error", "interrupt"}, StagingFails(f) \/ Fails(f) PROVE Routed'
  BY <1>3, Raising DEF StagingFails, Fails
<1>4. ASSUME NEW f \in {"error", "interrupt"}, CopyFails(f) \/ RegistrationFails(f) PROVE Routed'
  BY <1>4 DEF CopyFails, RegistrationFails, RetiresArtifacts
<1>5. CASE User \/ Rest
  BY <1>5 DEF User, Edit, Reconcile, Rest, vars, Idle
<1> QED BY <1>1, <1>2, <1>3, <1>4, <1>5 DEF GoesWrong

LEMMA NextRouted == ASSUME TypeOK, Routed, Formed, Next PROVE Routed'
BY CommandsRouted, RemovalRouted, InstallRouted, AroundRouted, OthersRouted DEF Next, Step

-----------------------------------------------------------------------------
(* Directories *)

\* What the steps make of a directory.
LEMMA DirFacts ==
  /\ ~ NoDir.here /\ NoDir.payload = NoVersion /\ ~ NoDir.mark /\ NoDir.cfg = NoCfg
  /\ EmptyDir.here /\ EmptyDir.payload = NoVersion /\ ~ EmptyDir.mark /\ EmptyDir.cfg = NoCfg
  /\ \A n \in Names : NoCfg[n] = Absent
  /\ Configured(NoCfg) = {}
  /\ \A d \in Dir : \A r \in Remains(d) :
       r.here /\ (r.mark => d.mark) /\ \A n \in Names : r.cfg[n] \in {Absent, d.cfg[n]}
  /\ \A v \in Versions : \A d \in Partial(v) : d.here
  /\ \A v \in Versions :
       LET d == Package(v) IN d.here /\ d.payload = v /\ ~ d.mark
  /\ \A d \in Dir : \A n \in Names : \A c \in Content :
       LET p == Put(d, n, c)
       IN  /\ p.here = d.here /\ p.payload = d.payload /\ p.mark = d.mark
           /\ p.cfg[n] = c /\ \A m \in Names \ {n} : p.cfg[m] = d.cfg[m]
<1>1. /\ ~ NoDir.here /\ NoDir.payload = NoVersion /\ ~ NoDir.mark /\ NoDir.cfg = NoCfg
      /\ EmptyDir.here /\ EmptyDir.payload = NoVersion /\ ~ EmptyDir.mark
      /\ EmptyDir.cfg = NoCfg
  BY DEF NoDir, EmptyDir
<1>2. (\A n \in Names : NoCfg[n] = Absent) /\ Configured(NoCfg) = {}
  BY DEF NoCfg, Configured
<1>3. ASSUME NEW d \in Dir, NEW r \in Remains(d)
      PROVE  r.here /\ (r.mark => d.mark) /\ \A n \in Names : r.cfg[n] \in {Absent, d.cfg[n]}
  BY DEF Remains, Dir
<1>4. \A v \in Versions : \A d \in Partial(v) : d.here
  BY DEF Partial, EmptyDir, NoDir
<1>5. \A v \in Versions : LET d == Package(v) IN d.here /\ d.payload = v /\ ~ d.mark
  BY DEF Package, EmptyDir, NoDir
<1>6. \A d \in Dir : \A n \in Names : \A c \in Content :
        LET p == Put(d, n, c)
        IN  /\ p.here = d.here /\ p.payload = d.payload /\ p.mark = d.mark
            /\ p.cfg[n] = c /\ \A m \in Names \ {n} : p.cfg[m] = d.cfg[m]
  BY DEF Put, Dir
<1> QED BY <1>1, <1>2, <1>3, <1>4, <1>5, <1>6

\* The same for what is on disk.
LEMMA DiskFacts ==
  ASSUME TypeOK
  PROVE  /\ {live, staging, backup, save, was.live} \subseteq Dir
         /\ {reg, hooks, was.reg, was.hooks} \subseteq Entries
         /\ mem \in [Names -> Content]
         /\ \A d \in {live, staging, backup, save, was.live} :
              d.cfg \in [Names -> Content] /\ \A n \in Names : d.cfg[n] \in Content
         /\ Absent \notin Written /\ Absent \notin Versions /\ NoVersion \notin Versions
BY ConstantsAreSound DEF TypeOK, Dir, ConstantsSound, NoVersion, Absent

LEMMA EntryFacts ==
  /\ \A v \in Versions \cup {NoVersion} : \A on \in BOOLEAN :
       Entry(v, on).ver = v /\ Entry(v, on).on = on
  /\ NotInstalled.ver = NoVersion /\ ~ NotInstalled.on
BY DEF Entry, NotInstalled

\* No step and no fault changes which command runs, and what it started from.
LEMMA Steady ==
  /\ Step \/ GoesWrong => UNCHANGED <<kind, ver, was, generic>>
  /\ User \/ Rest => UNCHANGED <<ver, was, generic>>
<1> USE DEF Goto, Ends, locals, disk
<1>1. ASSUME \/ Unregister \/ Strip \/ MarkKept \/ BackUp \/ Delete \/ Unhook \/ Deregister
      PROVE  UNCHANGED <<kind, ver, was, generic>>
  BY <1>1 DEF Unregister, Strip, MarkKept, BackUp, Delete, Unhook, Deregister
<1>2. ASSUME \/ LoadIgnore \/ Rescue \/ Restage \/ Stage \/ Wipe \/ Copy \/ Restore \/ Reseat
      PROVE  UNCHANGED <<kind, ver, was, generic>>
  BY <1>2 DEF LoadIgnore, Rescue, Restage, Stage, Wipe, Copy, Restore, Reseat, Raise
<1>3. ASSUME \/ Render \/ RegisterHooks \/ Unback \/ Commit \/ Tidy \/ Unseal \/ Unstage
      PROVE  UNCHANGED <<kind, ver, was, generic>>
  BY <1>3 DEF Render, RegisterHooks, Unback, Commit, Tidy, Unseal, Unstage
<1>4. ASSUME Scaffold \/ RetireHooks \/ RetireFiles \/ RetireMark
      PROVE  UNCHANGED <<kind, ver, was, generic>>
  BY <1>4 DEF Scaffold, Scaffolded, RetireHooks, RetireFiles, RetireMark, Raise
<1>5. ASSUME Save \/ Fetch \/ RestoreConfig \/ RestoreMetadata \/ Mute \/ Discard \/ Drop
      PROVE  UNCHANGED <<kind, ver, was, generic>>
  BY <1>5 DEF Save, Fetch, RestoreConfig, RestoreMetadata, Mute, Discard, Drop
<1>6. ASSUME \/ UndoDirectory \/ UndoCommands \/ UndoHooks \/ UndoRegistry \/ Undone
           \/ Switch \/ Rerender \/ Flip
      PROVE  UNCHANGED <<kind, ver, was, generic>>
  BY <1>6 DEF UndoDirectory, UndoCommands, UndoHooks, UndoRegistry, Undone, Switch, Rerender, Flip
<1>7. ASSUME GoesWrong
      PROVE  UNCHANGED <<kind, ver, was, generic>>
  BY <1>7 DEF GoesWrong, Killed, RerenderFails, CleanupFails, RollbackFails, Stops, StagingFails,
              CopyFails, RegistrationFails, Fails, Raise
<1>8. ASSUME User
      PROVE  UNCHANGED <<ver, was, generic>>
  BY <1>8 DEF User, Edit, Reconcile
<1>9. ASSUME Rest
      PROVE  UNCHANGED <<ver, was, generic>>
  BY <1>9 DEF Rest, vars
<1> QED BY <1>1, <1>2, <1>3, <1>4, <1>5, <1>6, <1>7, <1>8, <1>9 DEF Step

\* What was recorded when the command started stays well formed.
WasFormed == DirFormed(was.live) /\ EntryFormed(was.reg)
LEMMA NextWasFormed == ASSUME TypeOK, Formed, Next PROVE WasFormed'
<1>1. CASE Command
  BY <1>1 DEF Command, Add, Update, Remove, Enable, Disable, Start, Snapshot, Formed, WasFormed
<1>2. CASE ~ Command
  BY <1>2, Steady DEF Next, Formed, WasFormed
<1> QED BY <1>1, <1>2

\* The rest of the shape of the disk.
LiveFormed ==
  /\ DirFormed(live) /\ EntryFormed(reg)
  /\ pc \in {"strip", "mark", "reseat"} => live.here
  /\ pc \in Placed \/ (pc = "scaffold" /\ kind # "enable") =>
       live.payload = ver /\ ~ live.mark

LEMMA CommandsFormed == ASSUME Formed, Command PROVE LiveFormed'
BY DEF Command, Add, Update, Remove, Enable, Disable, Start, disk, Formed, LiveFormed, Placed,
       Registering, Cleaning, DirFormed, EntryFormed

LEMMA RemovalFormed ==
  ASSUME TypeOK, Routed, Formed,
         \/ Unregister \/ Strip \/ MarkKept \/ BackUp \/ Delete \/ Unhook \/ Deregister
  PROVE  LiveFormed'
<1> USE DEF Formed, LiveFormed, Placed, Registering, Cleaning, At, Goto, Ends, locals, DirFormed,
            EntryFormed
<1>1. CASE Unregister \/ BackUp \/ Unhook \/ Deregister
  BY <1>1 DEF Unregister, BackUp, Unhook, Deregister
<1>2. CASE Strip \/ MarkKept
  BY <1>2, DiskFacts DEF Strip, MarkKept, Dir
<1>3. CASE Delete
  BY <1>3, DiskFacts, DirFacts DEF Delete
<1> QED BY <1>1, <1>2, <1>3

LEMMA InstallFormed ==
  ASSUME TypeOK, Routed, Formed,
         \/ LoadIgnore \/ Rescue \/ Restage \/ Stage \/ Wipe \/ Copy \/ Restore \/ Reseat
         \/ Render \/ RegisterHooks \/ Unback \/ Commit \/ Tidy \/ Unseal \/ Unstage
  PROVE  LiveFormed'
<1>0. pc \in InstallSteps => kind \in Installs /\ ver \in Versions
  BY DEF Routed, Installs
<1>p. \A n \in Names : \A c \in Content :
        LET p == Put(live, n, c)
        IN  p.here = live.here /\ p.payload = live.payload /\ p.mark = live.mark
  BY DiskFacts, DirFacts
<1> USE DEF Formed, LiveFormed, Placed, Registering, Cleaning, At, Goto, Ends, locals, disk,
            InstallSteps, Uncommitted, Staging, Placing, Installs
<1>1. CASE LoadIgnore \/ Rescue \/ Restage \/ Stage
  BY <1>1, Raising DEF LoadIgnore, Rescue, Restage, Stage
<1>2. CASE Wipe
  BY <1>2, DiskFacts, DirFacts DEF Wipe, DirFormed
<1>3. CASE Copy
  BY <1>0, <1>3, DirFacts DEF Copy, DirFormed
<1>4. CASE Restore \/ Unback
  <2>1. live' = live \/ \E n \in Names, c \in Content : live' = Put(live, n, c)
    BY <1>4, DiskFacts DEF Restore, Unback, Unrestored, Configured
  <2>2. live.here
    BY <1>0, <1>4, DiskFacts, DirFacts DEF Restore, Unback, DirFormed
  <2> QED BY <1>4, <1>p, <2>1, <2>2 DEF Restore, Unback, DirFormed
<1>5. CASE Reseat
  BY <1>5, <1>p, DiskFacts, Raising DEF Reseat, Unrestored, Configured, DirFormed, Routed
<1>6. CASE Render \/ RegisterHooks \/ Tidy \/ Unseal \/ Unstage
  BY <1>0, <1>6 DEF Render, RegisterHooks, Tidy, Unseal, Unstage, Installing
<1>7. CASE Commit
  BY <1>0, <1>7, EntryFacts DEF Commit, EntryFormed
<1> QED BY <1>1, <1>2, <1>3, <1>4, <1>5, <1>6, <1>7

LEMMA AroundFormed ==
  ASSUME TypeOK, Routed, Formed, Undoable,
         \/ Scaffold \/ RetireHooks \/ RetireFiles \/ RetireMark
         \/ Save \/ Fetch \/ RestoreConfig \/ RestoreMetadata \/ Mute \/ Discard \/ Drop
         \/ UndoDirectory \/ UndoCommands \/ UndoHooks \/ UndoRegistry \/ Undone
         \/ Switch \/ Rerender \/ Flip
  PROVE  LiveFormed'
<1>p. \A n \in Names : \A c \in Content :
        LET p == Put(live, n, c)
        IN  p.here = live.here /\ p.payload = live.payload /\ p.mark = live.mark
  BY DiskFacts, DirFacts
<1>u. pc \in UpdateSteps \cup {"scaffold"} /\ kind \in Installs => ver \in Versions
  BY DEF Routed
<1> USE DEF Formed, LiveFormed, Placed, Registering, Cleaning, At, Goto, Ends, locals, disk,
            UpdateSteps, Undoing
<1>1. CASE Scaffold
  <2>1. live' = live \/ (live.here /\ \E n \in Names, c \in Content : live' = Put(live, n, c))
    <3>1. Templates # {} => live.here /\ live.payload \in Content /\ Templates \subseteq Names
      <4>1. Templates # {} => live.payload \in Versions /\ Templates \subseteq Names
        BY ConstantsAreSound DEF Templates, ConstantsSound
      <4> QED BY <4>1, DiskFacts, DirFacts DEF Content, DirFormed
    <3> QED BY <1>1, <3>1 DEF Scaffold
  <2> QED BY <1>1, <1>p, <2>1 DEF Scaffold, Scaffolded, DirFormed
<1>2. CASE RetireHooks \/ RetireFiles
  <2>1. [EmptyDir EXCEPT !.payload = Torn, !.cfg = PreservedCfg].here
    BY DEF EmptyDir, NoDir
  <2> QED BY <1>2, <2>1 DEF RetireHooks, RetireFiles, DirFormed
<1>3. CASE RetireMark
  BY <1>3, Raising, DiskFacts DEF RetireMark, DirFormed, Dir, Routed, Retiring
<1>4. CASE Save \/ Fetch \/ Mute \/ Discard \/ Drop
  BY <1>4 DEF Save, Fetch, Mute, Discard, Drop, EntryFormed
<1>5. CASE RestoreConfig
  <2>1. live' = live \/ \E n \in Names, c \in Content : live' = Put(live, n, c)
    BY <1>5, DiskFacts DEF RestoreConfig, Configured
  <2>2. live.here
    BY <1>5, <1>u, DiskFacts, DirFacts DEF RestoreConfig, DirFormed, Routed, Installs
  <2> QED BY <1>5, <1>p, <2>1, <2>2 DEF RestoreConfig, DirFormed
<1>6. CASE RestoreMetadata
  BY <1>6, <1>u, EntryFacts, DiskFacts DEF RestoreMetadata, EntryFormed, Routed, Installs, Entries
<1>7. CASE UndoDirectory
  <2>1. DirFormed(live')
    BY <1>7, DiskFacts, DirFacts DEF UndoDirectory, Undoable, DirFormed, Routed
  <2> QED BY <1>7, <2>1 DEF UndoDirectory
<1>8. CASE UndoCommands \/ UndoHooks \/ UndoRegistry \/ Undone
  BY <1>8 DEF UndoCommands, UndoHooks, UndoRegistry, Undone
<1>9. CASE Switch \/ Rerender \/ Flip
  <2>1. pc' \notin Placed /\ ~ (pc' = "scaffold" /\ kind' # "enable") /\ live' = live
    BY <1>9, Steady DEF Switch, Rerender, Flip
  <2>2. EntryFormed(reg')
    BY <1>9, DiskFacts DEF Switch, Rerender, Flip, Entries, EntryFormed, Routed
  <2> QED BY <1>9, <2>1, <2>2 DEF Switch, Rerender, Flip
<1> QED BY <1>1, <1>2, <1>3, <1>4, <1>5, <1>6, <1>7, <1>8, <1>9

LEMMA OthersFormed ==
  ASSUME TypeOK, Routed, Formed, GoesWrong \/ User \/ Rest
  PROVE  LiveFormed'
<1> USE DEF Formed, LiveFormed, Placed, Registering, Cleaning, At, locals, disk
<1>1. CASE Killed \/ RollbackFails
  BY <1>1 DEF Killed, RollbackFails, Stops
<1>2. CASE RerenderFails
  <2>1. EntryFormed(reg')
    BY <1>2, DiskFacts DEF RerenderFails, Entries, EntryFormed, Routed
  <2> QED BY <1>2, <2>1 DEF RerenderFails
<1>3. CASE CleanupFails
  BY <1>3 DEF CleanupFails, Stops, Installing
<1>4. ASSUME NEW f \in {"error", "interrupt"}, StagingFails(f) \/ Fails(f) PROVE LiveFormed'
  BY <1>4, Raising DEF StagingFails, Fails
<1>5. ASSUME NEW f \in {"error", "interrupt"}, CopyFails(f) \/ RegistrationFails(f)
      PROVE  LiveFormed'
  BY <1>5, DiskFacts DEF CopyFails, RegistrationFails, Dir, DirFormed
<1>6. ASSUME NEW n \in Names, NEW c \in Written, Edit(n, c) PROVE LiveFormed'
  BY <1>6, DiskFacts, DirFacts DEF Edit, Idle, Content, DirFormed
<1>7. CASE Reconcile
  BY <1>7, DiskFacts DEF Reconcile, Idle, Dir, DirFormed
<1>8. CASE Rest
  BY <1>8 DEF Rest, vars
<1> QED BY <1>1, <1>2, <1>3, <1>4, <1>5, <1>6, <1>7, <1>8 DEF GoesWrong, User

LEMMA NextFormed == ASSUME TypeOK, Routed, Formed, Undoable, Next PROVE Formed'
<1>1. LiveFormed' /\ WasFormed' => Formed'
  BY DEF LiveFormed, WasFormed, Formed
<1> QED BY <1>1, NextWasFormed, CommandsFormed, RemovalFormed, InstallFormed, AroundFormed,
           OthersFormed DEF Next, Step

-----------------------------------------------------------------------------
(* Configuration that was kept *)

LEMMA CustomisedFacts ==
  /\ Customised \subseteq Names
  /\ TypeOK => \A n \in Customised : owed.cfg[n] \in Written /\ owed.cfg[n] # Absent
BY DiskFacts DEF Customised

\* Steps that leave the promise and the staging directory alone, and the mark
\* of the directory and its files, leave the rest alone too.
LEMMA RestIsKept ==
  ASSUME Kept, UNCHANGED <<live, staging, mem, reg, owed, was>>,
         \/ pc' = pc
         \/ pc' = "idle" \/ (pc' \in {"ignore", "rescue"} /\ pc # "idle")
         \/ pc \in Placing \cup Registering \cup Retiring
            /\ pc' \in Placing \cup Retiring
         \/ pc \in Registering /\ pc' \in Registering
  PROVE  Kept'
<1> SUFFICES ASSUME owed.by = "keep" PROVE Kept'
  BY DEF Kept
<1>1. pc \in {"idle", "ignore", "rescue"} \/ pc \in Staging \/ pc \in Placing \cup Registering \cup Retiring
  BY DEF Kept, Uncommitted
<1>2. UNCHANGED <<Customised, StagingComplete, Marked>>
  BY DEF Customised, StagingComplete, Marked, Configured
<1>3. \A n \in Customised : Stored(n) /\ (StagingComplete \/ Marked)
  BY <1>1 DEF Kept, Stored, Held
<1>4. (\A n \in Customised : Stored(n)) /\ (StagingComplete \/ Marked)
  BY <1>1 DEF Kept, Stored, Held
<1> QED BY <1>2, <1>4 DEF Kept, Stored, Held, Staging, Placing, Registering, Retiring, Uncommitted

LEMMA CommandsKept == ASSUME Kept, Command PROVE Kept'
<1> SUFFICES ASSUME owed'.by = "keep" PROVE Kept'
  BY DEF Kept
<1>1. owed' = owed /\ reg = NotInstalled /\ pc = "idle"
  BY DEF Command, Add, Update, Remove, Enable, Disable, Start, Idle, Kept
<1>2. PICK v \in Versions, force \in BOOLEAN : Add(v, force)
  BY <1>1 DEF Command, Update, Remove, Enable, Disable, Installed
<1> QED BY <1>1, <1>2 DEF Kept, Add, Start, Installed, Customised, Stored, StagingComplete, Marked,
           Configured, Uncommitted, Staging, Placing, Registering, Retiring, Snapshot

\* Outside an install that is not committed nothing is owed.
LEMMA NotKeeping ==
  ASSUME Kept, Routed, \/ pc \in Removing \cup UpdateSteps \cup Cleaning
                       \/ pc \in {"scaffold", "switch", "rerender", "flip"}
  PROVE  owed.by # "keep"
BY DEF Kept, Removing, UpdateSteps, Cleaning, Undoing, Uncommitted, Staging, Placing,
       Registering, Retiring

LEMMA RemovalKept ==
  ASSUME TypeOK, Formed, Routed, Kept, Agreed,
         \/ Unregister \/ Strip \/ MarkKept \/ BackUp \/ Delete \/ Unhook \/ Deregister
  PROVE  Kept'
<1>1. owed.by # "keep"
  BY NotKeeping DEF Removing, At, Unregister, Strip, MarkKept, BackUp, Delete, Unhook, Deregister
<1>2. CASE Unregister \/ Strip \/ MarkKept \/ BackUp \/ Delete \/ Unhook
  BY <1>1, <1>2 DEF Unregister, Strip, MarkKept, BackUp, Delete, Unhook, Kept
<1>3. CASE Deregister
  <2> SUFFICES ASSUME owed'.by = "keep" PROVE Kept'
    BY DEF Kept
  <2>1. /\ kind = "keep" /\ owed' = [by |-> "keep", cfg |-> live.cfg] /\ pc' = "idle"
        /\ Configured(live.cfg) # {} /\ live' = live /\ reg' = NotInstalled
    BY <1>1, <1>3 DEF Deregister, NoOne, Ends
  <2>2. live.here /\ live.mark
    BY <1>3, <2>1, DirFacts DEF Agreed, Deregister, At, Formed, DirFormed
  <2> QED BY <2>1, <2>2 DEF Kept, Stored, Marked, Configured, Staging, Placing, Registering,
             Retiring
<1> QED BY <1>2, <1>3

LEMMA InstallKept ==
  ASSUME TypeOK, Formed, Routed, Kept,
         \/ LoadIgnore \/ Rescue \/ Restage \/ Stage \/ Wipe \/ Copy \/ Restore \/ Reseat
         \/ Render \/ RegisterHooks \/ Unback \/ Commit \/ Tidy \/ Unseal \/ Unstage
  PROVE  Kept'
<1> SUFFICES ASSUME owed'.by = "keep" PROVE Kept'
  BY DEF Kept
<1>0. ~ Commit /\ ~ Tidy /\ ~ Unseal /\ ~ Unstage /\ owed' = owed /\ owed.by = "keep"
  <2>1. Commit => owed'.by = "none"
    BY DEF Commit, NoOne
  <2>2. ~ Commit => owed' = owed
    BY DEF LoadIgnore, Rescue, Restage, Stage, Wipe, Copy, Restore, Reseat, Render, RegisterHooks,
           Unback, Tidy, Unseal, Unstage
  <2> QED BY <2>1, <2>2, NotKeeping DEF Tidy, Unseal, Unstage, Cleaning, At
<1>1. /\ kind # "update" /\ ~ did /\ reg = NotInstalled /\ pc # "idle" /\ Customised' = Customised
      /\ reg' = reg /\ was' = was /\ was.reg = NotInstalled
  <2>1. pc \in InstallSteps /\ was' = was /\ reg' = reg
    BY <1>0, Steady DEF LoadIgnore, Rescue, Restage, Stage, Wipe, Copy, Restore, Reseat, Render,
       RegisterHooks, Unback, At, InstallSteps, Uncommitted, Staging, Placing, Registering, Step, disk
  <2>2. pc # "idle"
    BY <2>1 DEF InstallSteps, Uncommitted, Staging, Placing, Registering, Retiring, Cleaning
  <2> QED BY <1>0, <2>1, <2>2 DEF Kept, Routed, Customised
<1>2. /\ Customised \subseteq Names /\ \A n \in Customised : owed.cfg[n] \in Written
      /\ \A n \in Names : live.cfg[n] \in Content /\ mem[n] \in Content
      /\ Absent \notin Written /\ Versions \cap Written = {}
  BY CustomisedFacts, DiskFacts, ConstantsAreSound DEF ConstantsSound
<1> USE <1>0, <1>1 DEF At, Goto, locals, disk, Staging, Placing, Registering, Retiring, Uncommitted
<1>3. CASE LoadIgnore
  BY <1>3, RestIsKept DEF LoadIgnore
<1>4. CASE Rescue
  <2>1. CASE StagingComplete /\ Conflicts(ver) /\ Raise("conflict") /\ UNCHANGED count
    BY <1>4, <2>1, Raising, RestIsKept DEF Rescue
  <2>2. CASE /\ StagingComplete /\ ~ Conflicts(ver) /\ mem' = staging.cfg /\ pc' = "wipe"
    <3>1. \A n \in Customised : staging.cfg[n] = owed.cfg[n]
      <4> SUFFICES ASSUME NEW n \in Customised, live.cfg[n] = owed.cfg[n]
                   PROVE  staging.cfg[n] = owed.cfg[n]
        BY <1>4 DEF Kept, Stored, Rescue
      <4>1. n \in Configured(live.cfg) /\ live.cfg[n] # ver
        BY <1>2, <1>4 DEF Rescue, Configured, Routed, Installs, InstallSteps
      <4>2. n \in Configured(staging.cfg)
        BY <2>2, <4>1 DEF Conflicts
      <4> QED BY <2>2, <4>1, <4>2 DEF Conflicts, Configured
    <3> QED BY <1>4, <2>2, <3>1 DEF Rescue, Kept, Held, StagingComplete
  <2>3. CASE ~ StagingComplete /\ mem' = (IF KeptLeftover THEN live.cfg ELSE NoCfg)
             /\ pc' = (IF Configured(mem') # {} THEN "restage" ELSE "wipe")
    <3>1. Marked /\ KeptLeftover
      BY <1>4, <2>3 DEF Rescue, Kept, Marked, KeptLeftover
    <3>2. mem' = live.cfg /\ pc' = "restage"
      BY <2>3, <3>1 DEF Marked
    <3> QED BY <1>4, <2>3, <3>1, <3>2
            DEF Rescue, Kept, Held, Stored, StagingComplete, Marked, Configured
  <2> QED BY <1>4, <2>1, <2>2, <2>3 DEF Rescue
<1>5. CASE Restage
  BY <1>5, DirFacts DEF Restage, Kept, Held, StagingComplete, Marked, Configured
<1>6. CASE Stage
  <2>0. /\ Marked /\ Held(live.cfg) /\ mem = live.cfg /\ ~ StagingComplete /\ staging.here
        /\ \A n \in Names : staging.cfg[n] \in {Absent, mem[n]}
        /\ UNCHANGED <<live, mem>>
    BY <1>6 DEF Stage, Kept
  <2>1. CASE \E n \in Configured(mem) : staging' = Put(staging, n, mem[n]) /\ pc' = "stage"
    <3>1. PICK n \in Configured(mem) : staging' = Put(staging, n, mem[n])
      BY <2>1
    <3>2. /\ staging'.here /\ staging'.mark = staging.mark
          /\ \A m \in Names : staging'.cfg[m] \in {Absent, mem[m]}
      <4>1. n \in Names /\ mem[n] \in Content /\ staging \in Dir
        BY <1>2, <3>1, DiskFacts DEF Configured
      <4>2. /\ staging'.here = staging.here /\ staging'.mark = staging.mark
            /\ staging'.cfg[n] = mem[n]
            /\ \A m \in Names \ {n} : staging'.cfg[m] = staging.cfg[m]
        BY <3>1, <4>1, DirFacts
      <4> QED BY <2>0, <4>1, <4>2
    <3> QED BY <2>0, <2>1, <3>2 DEF Kept, Held, StagingComplete, Marked, Configured
  <2>2. CASE /\ {n \in Configured(mem) : staging.cfg[n] = Absent} = {}
             /\ staging' = [staging EXCEPT !.mark = TRUE] /\ pc' = "wipe"
    <3>1. staging'.here /\ staging'.mark /\ staging'.cfg = staging.cfg
      BY <2>0, <2>2, DiskFacts DEF Dir
    <3>2. \A n \in Customised : mem[n] = owed.cfg[n] /\ staging.cfg[n] = mem[n]
      BY <1>2, <2>0, <2>2 DEF Held, Configured
    <3> QED BY <2>0, <2>2, <3>1, <3>2 DEF Kept, Held, StagingComplete
  <2> QED BY <1>6, <2>1, <2>2 DEF Stage
<1>7. CASE Wipe \/ Copy
  BY <1>7 DEF Wipe, Copy, Kept, Held, StagingComplete
<1>8. CASE Restore
  <2>1. CASE pc' = "restore"
    BY <1>8, <2>1 DEF Restore, Kept, Held, StagingComplete
  <2>2. CASE Unrestored = {} /\ live' = live /\ pc' = "render"
    <3>1. Held(live.cfg)
      BY <1>2, <1>8, <2>2 DEF Restore, Kept, Held, Unrestored, Configured
    <3> QED BY <1>8, <2>2, <3>1 DEF Restore, Kept, Held, StagingComplete
  <2> QED BY <1>8, <2>1, <2>2 DEF Restore
<1>9. CASE Reseat
  <2>1. CASE pc' = "reseat" /\ mem' = mem
    BY <1>9, <2>1 DEF Reseat, Kept, Held, StagingComplete
  <2>2. CASE live' = live /\ Raise(exc)
    <3>1. exc \in {"error", "interrupt", "conflict"}
      BY <1>9 DEF Reseat, Routed
    <3> QED BY <1>9, <2>2, <3>1, Raising, RestIsKept DEF Reseat
  <2> QED BY <1>9, <2>1, <2>2 DEF Reseat
<1>10. CASE Render \/ RegisterHooks
  BY <1>10, RestIsKept DEF Render, RegisterHooks
<1>11. CASE Unback
  <2>1. live' = live /\ pc' = "commit"
    BY <1>11 DEF Unback
  <2> QED BY <1>11, <2>1, RestIsKept DEF Unback
<1> QED BY <1>0, <1>3, <1>4, <1>5, <1>6, <1>7, <1>8, <1>9, <1>10, <1>11

LEMMA AroundKept ==
  ASSUME TypeOK, Routed, Kept,
         \/ Scaffold \/ RetireHooks \/ RetireFiles \/ RetireMark
         \/ Save \/ Fetch \/ RestoreConfig \/ RestoreMetadata \/ Mute \/ Discard \/ Drop
         \/ UndoDirectory \/ UndoCommands \/ UndoHooks \/ UndoRegistry \/ Undone
         \/ Switch \/ Rerender \/ Flip
  PROVE  Kept'
<1>0. owed' = owed
  BY DEF Scaffold, RetireHooks, RetireFiles, RetireMark, Save, Fetch, RestoreConfig, disk,
         RestoreMetadata, Mute, Discard, Drop, UndoDirectory, UndoCommands, UndoHooks,
         UndoRegistry, Undone, Switch, Rerender, Flip
<1> SUFFICES ASSUME owed.by = "keep" PROVE Kept'
  BY <1>0 DEF Kept
<1>1. RetireHooks \/ RetireFiles \/ RetireMark
  BY NotKeeping DEF At, UpdateSteps, Undoing, Scaffold, Save, Fetch, RestoreConfig, RestoreMetadata,
     Mute, Discard, Drop, UndoDirectory, UndoCommands, UndoHooks, UndoRegistry, Undone, Switch,
     Rerender, Flip
<1>2. Customised' = Customised /\ pc \in Retiring /\ mem' = mem /\ staging' = staging
      /\ was' = was /\ reg' = reg
  BY <1>0, <1>1, Raising DEF Customised, At, Retiring, RetireHooks, RetireFiles, RetireMark, Goto, locals,
     Routed
<1>3. pc' \in Retiring \/ pc' = "idle"
  BY <1>1, <1>2, Raising DEF RetireHooks, RetireFiles, RetireMark, Goto, Retiring, Routed, Kept
<1> QED BY <1>0, <1>2, <1>3
        DEF Kept, Held, Stored, StagingComplete, Staging, Placing, Registering, Retiring, Uncommitted

LEMMA OthersKept ==
  ASSUME TypeOK, Routed, Kept, GoesWrong \/ User \/ Rest
  PROVE  Kept'
<1> SUFFICES ASSUME owed'.by = "keep" PROVE Kept'
  BY DEF Kept
<1> USE DEF At, locals, disk, Staging, Placing, Registering, Retiring, Uncommitted
<1>1. CASE Killed
  BY <1>1, RestIsKept DEF Killed
<1>2. CASE RerenderFails
  BY <1>2, NotKeeping DEF RerenderFails
<1>3. CASE RollbackFails
  BY <1>3, RestIsKept DEF RollbackFails, Stops
<1>4. CASE CleanupFails
  <2>1. owed' = owed /\ (pc \in Cleaning \cup {"scaffold", "discard", "drop", "undone"} \/ At("retireHooks"))
    BY <1>4 DEF CleanupFails, Stops, Cleaning
  <2>2. At("retireHooks") /\ Stops("retireFiles", how)
    BY <1>4, <2>1, NotKeeping DEF CleanupFails, UpdateSteps, Cleaning
  <2> QED BY <2>2, RestIsKept DEF Stops
<1>5. ASSUME NEW f \in {"error", "interrupt"}, StagingFails(f) PROVE Kept'
  <2>1. /\ owed' = owed /\ live' = live /\ reg' = reg /\ mem' = mem /\ was' = was
        /\ kind # "update" /\ Marked /\ Held(live.cfg) /\ reg = NotInstalled
    BY <1>5, Raising DEF StagingFails, Kept, Routed
  <2>2. pc' = "idle"
    BY <1>5, <2>1, Raising DEF StagingFails
  <2>3. ~ StagingComplete'
    BY <1>5, DirFacts DEF StagingFails, Kept, StagingComplete
  <2> QED BY <2>1, <2>2, <2>3 DEF Kept, Held, Stored, Customised, Marked, Configured
<1>6. ASSUME NEW f \in {"error", "interrupt"}, CopyFails(f) PROVE Kept'
  BY <1>6 DEF CopyFails, Kept, Held, Stored, Customised, StagingComplete
<1>7. ASSUME NEW f \in {"error", "interrupt"}, RegistrationFails(f) PROVE Kept'
  BY <1>7, RestIsKept DEF RegistrationFails, RetiresArtifacts
<1>8. ASSUME NEW f \in {"error", "interrupt"}, Fails(f) PROVE Kept'
  <2>1. owed' = owed /\ UNCHANGED <<disk, mem, was>>
    BY <1>8, Raising DEF Fails
  <2>2. pc' = "idle"
    BY <1>8, <2>1, Raising DEF Fails, Kept, Routed, Fault, Idle
  <2> QED BY <2>1, <2>2, RestIsKept
<1>9. ASSUME NEW n \in Names, NEW c \in Written, Edit(n, c) PROVE Kept'
  <2>0. /\ owed.by = "keep" /\ owed'.by = "keep" /\ pc = "idle" /\ pc' = "idle"
        /\ owed' = [owed EXCEPT !.cfg[n] = c] /\ live' = Put(live, n, c)
        /\ UNCHANGED <<staging, reg>>
    <3>1. owed.by = "keep"
      BY <1>9 DEF Edit, TypeOK, Promise
    <3> QED BY <1>9, <3>1 DEF Edit, Idle
  <2>1. /\ owed'.cfg[n] = c /\ \A m \in Names \ {n} : owed'.cfg[m] = owed.cfg[m]
        /\ live'.cfg[n] = c /\ \A m \in Names \ {n} : live'.cfg[m] = live.cfg[m]
        /\ live'.here = live.here /\ live'.mark = live.mark
    BY <2>0, DiskFacts DEF TypeOK, Promise, Put, Dir
  <2>2. \A m \in Customised' : Stored(m)'
    BY <2>0, <2>1 DEF Kept, Stored, Customised, StagingComplete
  <2>3. (StagingComplete \/ Marked)'
    <3>1. c # Absent
      BY DiskFacts
    <3> QED BY <2>0, <2>1, <3>1 DEF Kept, StagingComplete, Marked, Configured
  <2> QED BY <2>0, <2>2, <2>3 DEF Kept
<1>10. CASE Reconcile
  BY <1>10 DEF Reconcile
<1>11. CASE Rest
  BY <1>11, RestIsKept DEF Rest, vars
<1> QED BY <1>1, <1>2, <1>3, <1>4, <1>5, <1>6, <1>7, <1>8, <1>9, <1>10, <1>11 DEF GoesWrong, User

LEMMA NextKept == ASSUME TypeOK, Routed, Formed, Kept, Agreed, Next PROVE Kept'
BY CommandsKept, RemovalKept, InstallKept, AroundKept, OthersKept DEF Next, Step

-----------------------------------------------------------------------------
(* Updates and their rollback *)

LEMMA CommandsUndoable == ASSUME Command PROVE Undoable' /\ UpdateOutcome'
BY DEF Command, Add, Update, Remove, Enable, Disable, Start, Snapshot, disk, Undoable, Unchanged,
       UpdateOutcome, Idle

\* An update that has changed something goes on, goes back, or keeps its copy.
LEMMA ThroughUndoable ==
  ASSUME Routed, Undoable, UNCHANGED <<save, was, kind>>,
         pc \in Removing \cup InstallSteps \cup {"config", "scaffold", "meta", "mute", "retireHooks"},
         \/ pc' \in Removing \cup InstallSteps \cup {"config", "scaffold", "meta", "mute", "discard"}
         \/ pc' = "undoDir"
         \/ pc' = "idle" /\ (kind = "update" => how' = "broken")
  PROVE  Undoable' /\ UpdateOutcome'
BY DEF Undoable, UpdateOutcome, Idle, Removing, InstallSteps, Uncommitted, Staging, Placing,
       Registering, Retiring, Cleaning

LEMMA RemovalUndoable ==
  ASSUME Routed, Undoable,
         \/ Unregister \/ Strip \/ MarkKept \/ BackUp \/ Delete \/ Unhook \/ Deregister
  PROVE  Undoable' /\ UpdateOutcome'
<1>1. UNCHANGED <<save, was, kind>> /\ pc \in Removing
  BY Steady DEF Step, Unregister, Strip, MarkKept, BackUp, Delete, Unhook, Deregister, At, Removing
<1>2. pc' \in Removing \cup InstallSteps \/ (pc' = "idle" /\ kind # "update")
  BY DEF Unregister, Strip, MarkKept, BackUp, Delete, Unhook, Deregister, Goto, Ends, Removing,
         InstallSteps, Uncommitted
<1> QED BY <1>1, <1>2, ThroughUndoable

LEMMA InstallUndoable ==
  ASSUME Routed, Undoable,
         \/ LoadIgnore \/ Rescue \/ Restage \/ Stage \/ Wipe \/ Copy \/ Restore \/ Reseat
         \/ Render \/ RegisterHooks \/ Unback \/ Commit \/ Tidy \/ Unseal \/ Unstage
  PROVE  Undoable' /\ UpdateOutcome'
<1>1. UNCHANGED <<save, was, kind>>
  BY Steady DEF Step, LoadIgnore, Rescue, Restage, Stage, Wipe, Copy, Restore, Reseat, Render,
     RegisterHooks, Unback, Commit, Tidy, Unseal, Unstage, disk
<1> USE DEF InstallSteps, Uncommitted, Staging, Placing, Registering, Retiring, Cleaning, At, Goto
<1>2. pc \in InstallSteps /\ pc \notin {"save", "fetch"}
  BY DEF LoadIgnore, Rescue, Restage, Stage, Wipe, Copy, Restore, Reseat, Render, RegisterHooks,
         Unback, Commit, Tidy, Unseal, Unstage
<1>3. CASE LoadIgnore \/ Rescue \/ Reseat
  <2>1. \/ pc' \in InstallSteps
        \/ \E f \in {"error", "interrupt", "conflict"} : Raise(f)
    BY <1>3 DEF LoadIgnore, Rescue, Reseat, Routed
  <2> QED BY <1>1, <1>2, <2>1, Raising, ThroughUndoable
<1>4. CASE ~ (LoadIgnore \/ Rescue \/ Reseat)
  <2>1. pc' \in InstallSteps \cup {"config", "scaffold"}
    BY <1>4 DEF Restage, Stage, Wipe, Copy, Restore, Render, RegisterHooks,
       Unback, Commit, Tidy, Unseal, Unstage, Installing
  <2> QED BY <1>1, <1>2, <2>1, ThroughUndoable
<1> QED BY <1>3, <1>4

\* When the new version is in place.
LEMMA Renewed ==
  ASSUME Formed, Agreed, Carried, pc = "discard", kind = "update"
  PROVE  NewWhole
BY DEF Formed, Placed, Agreed, Carried, Holds, NewWhole

LEMMA AroundUndoable ==
  ASSUME TypeOK, Routed, Formed, Agreed, Carried, Undoable,
         \/ Scaffold \/ RetireHooks \/ RetireFiles \/ RetireMark
         \/ Save \/ Fetch \/ RestoreConfig \/ RestoreMetadata \/ Mute \/ Discard \/ Drop
         \/ UndoDirectory \/ UndoCommands \/ UndoHooks \/ UndoRegistry \/ Undone
         \/ Switch \/ Rerender \/ Flip
  PROVE  Undoable' /\ UpdateOutcome'
<1>0. UNCHANGED <<kind, ver, was, generic>>
  BY Steady DEF Step
<1>h. kind = "update" /\ was.live.payload = was.reg.ver => was.live.here
  BY DirFacts, DiskFacts DEF Formed, DirFormed, EntryFormed, Routed
<1> USE <1>0 DEF At, Goto, Ends, disk, locals
<1>1. CASE Scaffold \/ RetireHooks \/ RetireFiles \/ RestoreConfig \/ RestoreMetadata \/ Mute
  BY <1>1, ThroughUndoable
     DEF Scaffold, Scaffolded, RetireHooks, RetireFiles, RestoreConfig, RestoreMetadata, Mute,
         InstallSteps, Uncommitted, Retiring
<1>2. CASE RetireMark
  BY <1>2, Raising, ThroughUndoable DEF RetireMark, Routed, InstallSteps, Uncommitted, Retiring
<1>3. CASE Save \/ Fetch
  BY <1>3 DEF Save, Fetch, Undoable, Unchanged, UpdateOutcome, Idle
<1>4. CASE Discard
  <2>1. NewWhole'
    BY <1>4, Renewed DEF Discard, NewWhole, Configured, Routed, UpdateSteps
  <2> QED BY <1>4, <2>1 DEF Discard, Undoable, UpdateOutcome
<1>5. CASE Drop
  BY <1>5 DEF Drop, Undoable, Unchanged, UpdateOutcome, OldWhole, Routed, UpdateSteps
<1>6. CASE UndoDirectory
  BY <1>6 DEF UndoDirectory, Undoable, UpdateOutcome, Idle
<1>7. CASE UndoCommands \/ UndoHooks \/ UndoRegistry
  BY <1>7 DEF UndoCommands, UndoHooks, UndoRegistry, Undoable, UpdateOutcome, Idle
<1>8. CASE Undone
  BY <1>8, <1>h DEF Undone, Undoable, UpdateOutcome, OldWhole, Routed, UpdateSteps
<1>9. CASE Switch \/ Rerender \/ Flip
  BY <1>9 DEF Switch, Rerender, Flip, Undoable, UpdateOutcome, Routed
<1> QED BY <1>1, <1>2, <1>3, <1>4, <1>5, <1>6, <1>7, <1>8, <1>9

LEMMA OthersUndoable ==
  ASSUME TypeOK, Routed, Formed, Agreed, Carried, Undoable, UpdateOutcome,
         GoesWrong \/ User \/ Rest
  PROVE  Undoable' /\ UpdateOutcome'
<1> USE DEF At, disk, locals
<1>h. kind = "update" /\ was.live.payload = was.reg.ver => was.live.here
  BY DirFacts, DiskFacts DEF Formed, DirFormed, EntryFormed, Routed
<1>1. CASE Killed
  BY <1>1 DEF Killed, Fault, Undoable, Unchanged, UpdateOutcome, OldWhole, Idle
<1>2. CASE RerenderFails
  BY <1>2 DEF RerenderFails, Routed, Undoable, UpdateOutcome
<1>3. CASE RollbackFails
  BY <1>3 DEF RollbackFails, Stops, Undoing, Undoable, UpdateOutcome
<1>4. CASE CleanupFails
  <2>0. UNCHANGED <<disk, kind, was, ver, generic>>
    BY <1>4 DEF CleanupFails, Stops
  <2>1. CASE pc \in Cleaning \cup {"scaffold", "retireHooks"}
    BY <1>4, <2>0, <2>1, ThroughUndoable
       DEF CleanupFails, Stops, Cleaning, InstallSteps, Installing, Uncommitted, Retiring
  <2>2. CASE At("discard") /\ Stops("idle", "ok")
    <3>1. NewWhole'
      BY <2>0, <2>2, Renewed DEF NewWhole, Configured, Routed, UpdateSteps
    <3> QED BY <2>0, <2>2, <3>1 DEF Stops, Undoable, UpdateOutcome
  <2>3. CASE At("drop") /\ Stops("idle", "failed")
    BY <2>0, <2>3 DEF Stops, Undoable, Unchanged, UpdateOutcome, OldWhole, Routed, UpdateSteps
  <2>4. CASE At("undone") /\ Stops("idle", "rolled back")
    BY <1>h, <2>0, <2>4 DEF Stops, Undoable, UpdateOutcome, OldWhole, Routed, UpdateSteps
  <2> QED BY <1>4, <2>1, <2>2, <2>3, <2>4 DEF CleanupFails, Cleaning
<1>5. ASSUME NEW f \in {"error", "interrupt"}, StagingFails(f) PROVE Undoable' /\ UpdateOutcome'
  BY <1>5, Raising, ThroughUndoable DEF StagingFails, Staging, InstallSteps, Uncommitted
<1>6. ASSUME NEW f \in {"error", "interrupt"}, CopyFails(f) \/ RegistrationFails(f)
      PROVE  Undoable' /\ UpdateOutcome'
  BY <1>6, ThroughUndoable
     DEF CopyFails, RegistrationFails, RetiresArtifacts, Registering, InstallSteps, Uncommitted,
         Placing, Retiring
<1>7. ASSUME NEW f \in {"error", "interrupt"}, Fails(f) PROVE Undoable' /\ UpdateOutcome'
  <2>1. UNCHANGED <<disk, kind, was>> /\ pc # "idle"
    BY <1>7, Raising DEF Fails, Fault, Idle
  <2>2. CASE pc' = "idle"
    BY <1>7, <2>1, <2>2, Raising DEF Fails, Undoable, Unchanged, UpdateOutcome, OldWhole, Idle
  <2>3. CASE pc' = "drop" /\ pc \in {"save", "fetch"}
    BY <2>1, <2>3 DEF Undoable, Unchanged, UpdateOutcome, Idle
  <2>4. CASE pc' = "undoDir" /\ pc \notin {"save", "fetch"} /\ kind = "update" /\ pc # "drop"
    BY <2>1, <2>4 DEF Undoable, UpdateOutcome, Idle
  <2> QED BY <1>7, <2>2, <2>3, <2>4, Raising DEF Fails, Raise, Cleanup
<1>8. CASE User
  BY <1>8 DEF User, Edit, Reconcile, Undoable, UpdateOutcome
<1>9. CASE Rest
  <2>1. UNCHANGED vars
    BY <1>9 DEF Rest
  <2> QED BY <2>1 DEF vars, Undoable, Unchanged, UpdateOutcome, OldWhole, NewWhole, Configured, Idle
<1> QED BY <1>1, <1>2, <1>3, <1>4, <1>5, <1>6, <1>7, <1>8, <1>9 DEF GoesWrong

LEMMA NextUndoable ==
  ASSUME TypeOK, Routed, Formed, Agreed, Carried, Undoable, UpdateOutcome, Next
  PROVE  Undoable' /\ UpdateOutcome'
BY CommandsUndoable, RemovalUndoable, InstallUndoable, AroundUndoable, OthersUndoable
   DEF Next, Step

-----------------------------------------------------------------------------
(* How a command succeeds *)

\* The steps after which a command reports success, and what they change.
Succeeding ==
  \/ kind' = "none"
  \/ Succeeded /\ UNCHANGED vars
  \/ Deregister /\ kind \in {"keep", "remove"}
  \/ At("scaffold") /\ kind # "update" /\ UNCHANGED disk
  \/ At("discard") /\ UNCHANGED <<live, staging, backup, reg, hooks, cmds>>
  \/ Flip /\ kind = "disable"

LEMMA Successes == ASSUME Routed, Next, Succeeded' PROVE Succeeding
<1> USE DEF Succeeded, Idle, Succeeding
<1>1. CASE Command
  BY <1>1 DEF Command, Add, Update, Remove, Enable, Disable, Start
<1> USE DEF Goto, Ends, At
<1>2. CASE \/ Unregister \/ Strip \/ MarkKept \/ BackUp \/ Delete \/ Unhook
           \/ Restage \/ Stage \/ Wipe \/ Copy \/ Restore
           \/ Render \/ RegisterHooks \/ Unback \/ Commit \/ Tidy \/ Unseal \/ Unstage
  BY <1>2 DEF Unregister, Strip, MarkKept, BackUp, Delete, Unhook, Restage, Stage, Wipe, Copy,
     Restore, Render, RegisterHooks, Unback, Commit, Tidy, Unseal, Unstage, Installing
<1>3. CASE Deregister
  BY <1>3 DEF Deregister
<1>4. CASE LoadIgnore \/ Rescue \/ Reseat \/ RetireMark
  <2>1. pc' # "idle" \/ \E f \in {"error", "interrupt", "conflict"} : Raise(f)
    BY <1>4 DEF LoadIgnore, Rescue, Reseat, RetireMark, Routed, Retiring
  <2> QED BY <2>1, Raising
<1>5. CASE Scaffold
  BY <1>5 DEF Scaffold, Scaffolded, disk
<1>6. CASE RetireHooks \/ RetireFiles \/ Save \/ Fetch \/ RestoreConfig \/ RestoreMetadata \/ Mute
  BY <1>6 DEF RetireHooks, RetireFiles, Save, Fetch, RestoreConfig, RestoreMetadata, Mute
<1>7. CASE Discard \/ Drop
  BY <1>7 DEF Discard, Drop
<1>8. CASE \/ UndoDirectory \/ UndoCommands \/ UndoHooks \/ UndoRegistry \/ Undone
           \/ Switch \/ Rerender
  BY <1>8 DEF UndoDirectory, UndoCommands, UndoHooks, UndoRegistry, Undone, Switch, Rerender
<1>9. CASE Flip
  BY <1>9 DEF Flip, Routed
<1>10. CASE Killed \/ RerenderFails \/ RollbackFails
  BY <1>10 DEF Killed, RerenderFails, RollbackFails, Stops
<1>11. CASE CleanupFails
  BY <1>11 DEF CleanupFails, Stops, Installing, disk
<1>12. CASE \E f \in {"error", "interrupt"} : StagingFails(f) \/ Fails(f)
  BY <1>12, Raising DEF StagingFails, Fails
<1>13. CASE \E f \in {"error", "interrupt"} : CopyFails(f) \/ RegistrationFails(f)
  BY <1>13 DEF CopyFails, RegistrationFails
<1>14. CASE User
  BY <1>14 DEF User, Edit, Reconcile
<1>15. CASE Rest
  BY <1>15 DEF Rest, vars
<1> QED BY <1>1, <1>2, <1>3, <1>4, <1>5, <1>6, <1>7, <1>8, <1>9, <1>10, <1>11, <1>12, <1>13,
           <1>14, <1>15 DEF Next, Step, GoesWrong

-----------------------------------------------------------------------------
(* The backup of a reinstall or a removal *)

LEMMA StillBackedUp ==
  ASSUME BackedUp, UNCHANGED <<backup, was, kind>>,
         pc' \notin {"unregister", "backup", "delete", "unhook", "deregister"},
         pc' \in {"tidy"} \cup Uncommitted => pc \in {"delete", "deregister"} \cup Uncommitted
  PROVE  BackedUp'
BY DEF BackedUp, Holds, Configured

LEMMA CommandsBackedUp == ASSUME Command PROVE BackedUp'
BY DEF Command, Add, Update, Remove, Enable, Disable, Start, Snapshot, BackedUp, disk, Installed,
       Uncommitted, Staging, Placing, Registering, Retiring

LEMMA RemovalBackedUp ==
  ASSUME TypeOK, Routed, Formed, BackedUp,
         \/ Unregister \/ Strip \/ MarkKept \/ BackUp \/ Delete \/ Unhook \/ Deregister
  PROVE  BackedUp'
<1>0. UNCHANGED <<kind, was>>
  BY Steady DEF Step
<1> USE <1>0 DEF At, Goto, BackedUp, Uncommitted, Staging, Placing, Registering, Retiring, Holds
<1>1. CASE Unregister
  <2>1. ~ live.here => live = NoDir /\ Configured(live.cfg) = {}
    BY DirFacts DEF Formed, DirFormed
  <2> QED BY <1>1, <2>1 DEF Unregister
<1>2. CASE Strip \/ MarkKept
  BY <1>2 DEF Strip, MarkKept, Routed
<1>3. CASE BackUp
  <2>1. CASE pc' = "backup" /\ live' = live
    BY <1>3, <2>1 DEF BackUp
  <2>2. CASE /\ {n \in Configured(live.cfg) : backup.cfg[n] # live.cfg[n]} = {}
             /\ backup' = [backup EXCEPT !.here = TRUE] /\ pc' = "delete"
    <3>1. backup'.cfg = backup.cfg
      BY <2>2, DiskFacts DEF Dir
    <3> QED BY <1>3, <2>2, <3>1 DEF BackUp
  <2> QED BY <1>3, <2>1, <2>2 DEF BackUp
<1>4. CASE Delete
  BY <1>4 DEF Delete
<1>5. CASE Unhook
  BY <1>5 DEF Unhook
<1>6. CASE Deregister
  BY <1>6 DEF Deregister, Ends
<1> QED BY <1>1, <1>2, <1>3, <1>4, <1>5, <1>6

LEMMA StepsBackedUp ==
  ASSUME TypeOK, Routed, BackedUp, Undoable,
         Step, ~ (\/ Unregister \/ Strip \/ MarkKept \/ BackUp \/ Delete \/ Unhook \/ Deregister)
  PROVE  BackedUp'
<1>0. UNCHANGED <<kind, was>>
  BY Steady
<1> USE <1>0 DEF At, Goto, Ends, disk, Uncommitted, Staging, Placing, Registering, Retiring
<1>1. CASE LoadIgnore \/ Rescue \/ Reseat \/ RetireMark
  <2>1. UNCHANGED backup /\ pc \in Uncommitted
    BY <1>1 DEF LoadIgnore, Rescue, Reseat, RetireMark
  <2>2. \/ pc' \in {"rescue", "restage", "wipe", "reseat"}
        \/ \E f \in {"error", "interrupt", "conflict"} : Raise(f)
    BY <1>1 DEF LoadIgnore, Rescue, Reseat, RetireMark, Routed
  <2> QED BY <2>1, <2>2, Raising, StillBackedUp
<1>2. CASE Restage \/ Stage \/ Wipe \/ Copy \/ Restore \/ Render \/ RegisterHooks \/ Unback \/ Commit
  BY <1>2, StillBackedUp
     DEF Restage, Stage, Wipe, Copy, Restore, Render, RegisterHooks, Unback, Commit
<1>3. CASE Tidy \/ Unseal \/ Unstage
  BY <1>3 DEF Tidy, Unseal, Unstage, Installing, BackedUp
<1>4. CASE \/ Scaffold \/ RetireHooks \/ RetireFiles \/ Save \/ RestoreConfig
           \/ RestoreMetadata \/ Mute \/ Discard \/ Drop
  BY <1>4, StillBackedUp
     DEF Scaffold, Scaffolded, RetireHooks, RetireFiles, Save, RestoreConfig, RestoreMetadata,
         Mute, Discard, Drop
<1>5. CASE Fetch
  BY <1>5 DEF Fetch, Undoable, Unchanged, BackedUp, Routed, UpdateSteps
<1>6. CASE \/ UndoDirectory \/ UndoCommands \/ UndoHooks \/ UndoRegistry \/ Undone
           \/ Switch \/ Rerender \/ Flip
  BY <1>6, StillBackedUp
     DEF UndoDirectory, UndoCommands, UndoHooks, UndoRegistry, Undone, Switch, Rerender, Flip
<1> QED BY <1>1, <1>2, <1>3, <1>4, <1>5, <1>6 DEF Step

LEMMA OthersBackedUp ==
  ASSUME TypeOK, Routed, BackedUp, GoesWrong \/ User \/ Rest
  PROVE  BackedUp'
<1> USE DEF At, disk, locals, Uncommitted, Staging, Placing, Registering, Retiring
<1>1. CASE Killed \/ RerenderFails \/ RollbackFails
  BY <1>1, StillBackedUp DEF Killed, RerenderFails, RollbackFails, Stops
<1>2. CASE CleanupFails
  BY <1>2, StillBackedUp DEF CleanupFails, Stops, Installing, Cleaning
<1>3. ASSUME NEW f \in {"error", "interrupt"}, StagingFails(f) \/ Fails(f) PROVE BackedUp'
  BY <1>3, Raising, StillBackedUp DEF StagingFails, Fails
<1>4. ASSUME NEW f \in {"error", "interrupt"}, CopyFails(f) \/ RegistrationFails(f)
      PROVE  BackedUp'
  BY <1>4, StillBackedUp DEF CopyFails, RegistrationFails, RetiresArtifacts
<1>5. CASE User
  BY <1>5 DEF User, Edit, Reconcile, BackedUp, Idle
<1>6. CASE Rest
  BY <1>6, StillBackedUp DEF Rest, vars, Idle
<1> QED BY <1>1, <1>2, <1>3, <1>4, <1>5, <1>6 DEF GoesWrong

LEMMA NextBackedUp ==
  ASSUME TypeOK, Routed, Formed, BackedUp, Undoable, Next
  PROVE  BackedUp'
BY CommandsBackedUp, RemovalBackedUp, StepsBackedUp, OthersBackedUp DEF Next, Step

-----------------------------------------------------------------------------
(* What is carried over *)

\* A file of the old directory is there again: what a scaffold adds beside it
\* changes nothing.
LEMMA ScaffoldHolds ==
  ASSUME TypeOK, Scaffold, was' = was
  PROVE  /\ Holds(live.cfg) => Holds(live.cfg)'
         /\ HoldsOwed => HoldsOwed'
<1>1. \A n \in Names : live.cfg[n] # Absent => live'.cfg[n] = live.cfg[n]
  <2>1. CASE live' = live
    BY <2>1
  <2>2. CASE \E n \in Templates : live' = Put(live, n, live.payload)
    <3>1. PICK n \in Templates : live' = Put(live, n, live.payload)
      BY <2>2
    <3>2. live.payload \in Content /\ n \in Names /\ live.cfg[n] = Absent
      BY ConstantsAreSound DEF Templates, ConstantsSound, Content
    <3> QED BY <3>1, <3>2, DirFacts, DiskFacts
  <2> QED BY <2>1, <2>2 DEF Scaffold
<1> QED BY <1>1, DiskFacts DEF Holds, HoldsOwed, Configured

CarriedParts ==
  /\ kind = "force" /\ was.reg # NotInstalled =>
       (pc \in {"commit", "scaffold"} \cup Cleaning => Holds(live.cfg))
  /\ kind = "update" => (pc \in {"scaffold", "meta", "mute", "discard"} => Holds(live.cfg))
  /\ kind \in {"add", "force"} /\ was.owed.by = "keep" =>
       /\ pc \in Uncommitted => owed = was.owed
       /\ pc \in {"scaffold"} \cup Cleaning => HoldsOwed

CarriedDone ==
  Succeeded =>
    /\ (kind = "force" /\ was.reg # NotInstalled) \/ kind = "update" => Holds(live.cfg)
    /\ kind \in {"add", "force"} /\ was.owed.by = "keep" => HoldsOwed

LEMMA CarriedSplit ==
  /\ Carried <=> /\ was.owed.by = "keep" => was.reg = NotInstalled
                 /\ CarriedParts /\ CarriedDone
  /\ Carried' <=> /\ was'.owed.by = "keep" => was'.reg = NotInstalled
                  /\ CarriedParts' /\ CarriedDone'
BY DEF Carried, CarriedParts, CarriedDone

LEMMA NextWasOwed ==
  ASSUME Kept, Carried, Next
  PROVE  was'.owed.by = "keep" => was'.reg = NotInstalled
<1>1. CASE Command
  BY <1>1 DEF Command, Add, Update, Remove, Enable, Disable, Start, Snapshot, Kept
<1>2. CASE ~ Command
  BY <1>2, Steady DEF Next, Carried
<1> QED BY <1>1, <1>2

LEMMA NextCarriedDone == ASSUME TypeOK, Routed, Carried, Next PROVE CarriedDone'
<1> SUFFICES ASSUME Succeeded' PROVE CarriedDone'
  BY DEF CarriedDone
<1>1. Succeeding
  BY Successes
<1>2. CASE kind' = "none"
  BY <1>2 DEF CarriedDone
<1>3. CASE Succeeded /\ UNCHANGED vars
  BY <1>3, CarriedSplit DEF CarriedDone, Holds, HoldsOwed, Configured, vars, disk, locals
<1>4. CASE \/ Deregister /\ kind \in {"keep", "remove"}
           \/ Flip /\ kind = "disable"
  BY <1>4, Steady DEF CarriedDone, Step
<1>5. CASE (At("scaffold") \/ At("discard")) /\ UNCHANGED live
  <2>1. UNCHANGED <<kind, was>> \/ kind' = "none"
    BY <1>5, Steady DEF Next, Command, Add, Update, Remove, Enable, Disable, Start, Idle, At, User,
       Edit, Reconcile, Rest
  <2> QED BY <1>2, <1>5, <2>1, CarriedSplit
          DEF CarriedParts, CarriedDone, Holds, HoldsOwed, Configured, At, Routed, UpdateSteps
<1> QED BY <1>1, <1>2, <1>3, <1>4, <1>5 DEF Succeeding, disk

LEMMA StillCarried ==
  ASSUME CarriedParts, UNCHANGED <<live, was, kind, owed>>,
         \/ pc' \notin {"scaffold", "meta", "mute", "discard"} \cup Cleaning \cup Uncommitted
         \/ pc' \in Uncommitted \ {"commit"} /\ pc \in Uncommitted
         \/ pc' = pc
         \/ pc \in Cleaning /\ pc' \in Cleaning
         \/ pc \in Cleaning /\ pc' = "scaffold" /\ kind # "update"
         \/ pc \in {"scaffold", "meta", "mute", "discard"} /\ kind = "update"
            /\ pc' \in {"meta", "mute", "discard"}
  PROVE  CarriedParts'
BY DEF CarriedParts, Holds, HoldsOwed, Configured, Uncommitted, Staging, Placing, Registering,
       Retiring, Cleaning

LEMMA CommandsCarried == ASSUME Command PROVE CarriedParts'
BY DEF Command, Add, Update, Remove, Enable, Disable, Start, Snapshot, CarriedParts, disk,
       Installed, Uncommitted, Staging, Placing, Registering, Retiring, Cleaning

\* Steps of an install before it commits, whatever they do to the directory.
LEMMA UncommittedCarried ==
  ASSUME CarriedParts, UNCHANGED <<was, kind, owed>>, pc \in Uncommitted,
         \/ pc' \in Uncommitted \ {"commit"}
         \/ pc' \notin {"scaffold", "meta", "mute", "discard"} \cup Cleaning \cup Uncommitted
  PROVE  CarriedParts'
BY DEF CarriedParts, Uncommitted, Staging, Placing, Registering, Retiring, Cleaning

LEMMA InstallCarried ==
  ASSUME TypeOK, Routed, Kept, BackedUp, Carried,
         \/ LoadIgnore \/ Rescue \/ Restage \/ Stage \/ Wipe \/ Copy \/ Restore \/ Reseat
         \/ Render \/ RegisterHooks \/ Unback \/ Commit \/ Tidy \/ Unseal \/ Unstage
  PROVE  CarriedParts'
<1>0. UNCHANGED <<kind, was>> /\ CarriedParts /\ (was.owed.by = "keep" => was.reg = NotInstalled)
  BY Steady, CarriedSplit DEF Step
<1> USE <1>0 DEF At, Goto, Ends, disk
<1>1. CASE LoadIgnore \/ Rescue \/ Reseat
  <2>1. UNCHANGED owed /\ pc \in Uncommitted
    BY <1>1 DEF LoadIgnore, Rescue, Reseat, Uncommitted, Staging, Placing
  <2>2. \/ pc' \in {"rescue", "restage", "wipe", "reseat"}
        \/ \E f \in {"error", "interrupt", "conflict"} : Raise(f)
    BY <1>1 DEF LoadIgnore, Rescue, Reseat, Routed
  <2>3. pc' \in {"rescue", "restage", "wipe", "reseat", "idle", "drop", "undoDir"}
    BY <2>2, Raising
  <2> QED BY <2>1, <2>3, UncommittedCarried
          DEF Uncommitted, Staging, Placing, Registering, Retiring, Cleaning
<1>2. CASE Restage \/ Stage \/ Wipe \/ Copy \/ Restore \/ Render \/ RegisterHooks
  <2>1. UNCHANGED owed /\ pc \in Uncommitted /\ pc' \in Uncommitted \ {"commit"}
    BY <1>2 DEF Restage, Stage, Wipe, Copy, Restore, Render, RegisterHooks,
       Uncommitted, Staging, Placing, Registering
  <2> QED BY <2>1, UncommittedCarried
<1>3. CASE Unback
  <2>1. UNCHANGED owed /\ pc = "unback"
    BY <1>3 DEF Unback
  <2>2. CASE pc' = "unback"
    BY <2>1, <2>2, UncommittedCarried DEF Uncommitted, Registering
  <2>3. CASE /\ {n \in Configured(backup.cfg) : did /\ live.cfg[n] # backup.cfg[n]} = {}
             /\ UNCHANGED live /\ pc' = "commit"
    <3>1. kind = "force" /\ was.reg # NotInstalled => Holds(live.cfg)
      <4> SUFFICES ASSUME kind = "force", was.reg # NotInstalled PROVE Holds(live.cfg)
        OBVIOUS
      <4>1. did /\ Holds(backup.cfg)
        BY <2>1 DEF Routed, InstallSteps, BackedUp, Uncommitted, Registering
      <4> QED BY <2>3, <4>1 DEF Holds, Configured
    <3> QED BY <2>1, <2>3, <3>1
            DEF CarriedParts, Uncommitted, Registering, Staging, Placing, Retiring, Cleaning, Holds,
                Configured
  <2> QED BY <1>3, <2>2, <2>3 DEF Unback
<1>4. CASE Commit
  <2>1. pc = "commit" /\ pc' = "tidy" /\ UNCHANGED live
    BY <1>4 DEF Commit
  <2>2. kind \in {"add", "force"} /\ was.owed.by = "keep" => HoldsOwed
    <3> SUFFICES ASSUME kind \in {"add", "force"}, was.owed.by = "keep" PROVE HoldsOwed
      OBVIOUS
    <3>1. owed = was.owed
      BY <2>1 DEF CarriedParts, Uncommitted, Registering
    <3>2. Held(live.cfg)
      BY <2>1, <3>1 DEF Kept, Registering
    <3> QED BY <3>1, <3>2 DEF HoldsOwed, Held, Customised
  <2> QED BY <2>1, <2>2
          DEF CarriedParts, Uncommitted, Registering, Staging, Placing, Retiring, Cleaning, Holds,
              HoldsOwed, Configured
<1>5. CASE Tidy \/ Unseal \/ Unstage
  <2>1. UNCHANGED <<live, owed>> /\ pc \in Cleaning
    BY <1>5 DEF Tidy, Unseal, Unstage, Cleaning
  <2>2. \/ pc' \in Cleaning \/ (pc' = "scaffold" /\ kind # "update")
        \/ pc' = "config"
    BY <1>5 DEF Tidy, Unseal, Unstage, Cleaning, Installing
  <2> QED BY <2>1, <2>2, StillCarried
          DEF Cleaning, Uncommitted, Staging, Placing, Registering, Retiring
<1> QED BY <1>1, <1>2, <1>3, <1>4, <1>5

LEMMA AroundCarried ==
  ASSUME TypeOK, Routed, Carried, Undoable,
         \/ Unregister \/ Strip \/ MarkKept \/ BackUp \/ Delete \/ Unhook \/ Deregister
         \/ Scaffold \/ RetireHooks \/ RetireFiles \/ RetireMark
         \/ Save \/ Fetch \/ RestoreConfig \/ RestoreMetadata \/ Mute \/ Discard \/ Drop
         \/ UndoDirectory \/ UndoCommands \/ UndoHooks \/ UndoRegistry \/ Undone
         \/ Switch \/ Rerender \/ Flip
  PROVE  CarriedParts'
<1>0. UNCHANGED <<kind, was>> /\ CarriedParts /\ (was.owed.by = "keep" => was.reg = NotInstalled)
  BY Steady, CarriedSplit DEF Step
<1> USE <1>0 DEF At, Goto, Ends, disk, Uncommitted, Staging, Placing, Registering, Retiring, Cleaning
<1>1. CASE Unregister \/ Strip \/ MarkKept \/ BackUp \/ Delete \/ Unhook
  BY <1>1 DEF Unregister, Strip, MarkKept, BackUp, Delete, Unhook, CarriedParts
<1>2. CASE Deregister
  BY <1>2 DEF Deregister, CarriedParts, Routed, Removing
<1>3. CASE Scaffold
  <2>1. UNCHANGED owed /\ pc = "scaffold"
    BY <1>3 DEF Scaffold
  <2>2. pc' = "scaffold" \/ (pc' = "meta" /\ kind = "update") \/ pc' = "idle"
    BY <1>3 DEF Scaffold, Scaffolded
  <2> QED BY <1>3, <2>1, <2>2, ScaffoldHolds DEF CarriedParts
<1>4. CASE RetireHooks \/ RetireFiles
  BY <1>4, UncommittedCarried DEF RetireHooks, RetireFiles
<1>5. CASE RetireMark
  <2>1. UNCHANGED owed /\ pc = "retireMark" /\ Raise("error")
    BY <1>5 DEF RetireMark, Routed
  <2> QED BY <2>1, Raising, UncommittedCarried
<1>6. CASE Save \/ Fetch \/ Drop \/ Discard
  BY <1>6 DEF Save, Fetch, Drop, Discard, CarriedParts
<1>7. CASE RestoreConfig
  <2>1. kind = "update" /\ save = was.live
    BY <1>7 DEF RestoreConfig, Undoable, Routed, UpdateSteps
  <2>2. CASE pc' = "config"
    BY <2>1, <2>2 DEF CarriedParts
  <2>3. CASE /\ {n \in Configured(save.cfg) : live.cfg[n] # save.cfg[n]} = {}
             /\ UNCHANGED live /\ pc' = "scaffold"
    <3>1. Holds(live.cfg)'
      BY <2>1, <2>3 DEF Holds, Configured
    <3> QED BY <2>1, <2>3, <3>1 DEF CarriedParts
  <2> QED BY <1>7, <2>2, <2>3 DEF RestoreConfig
<1>8. CASE RestoreMetadata \/ Mute
  BY <1>8, StillCarried DEF RestoreMetadata, Mute, Routed, UpdateSteps
<1>9. CASE UndoDirectory \/ UndoCommands \/ UndoHooks \/ UndoRegistry \/ Undone
  BY <1>9 DEF UndoDirectory, UndoCommands, UndoHooks, UndoRegistry, Undone, CarriedParts
<1>10. CASE Switch \/ Rerender \/ Flip
  BY <1>10 DEF Switch, Rerender, Flip, CarriedParts, Routed
<1> QED BY <1>1, <1>2, <1>3, <1>4, <1>5, <1>6, <1>7, <1>8, <1>9, <1>10

LEMMA OthersCarried ==
  ASSUME TypeOK, Routed, Carried, GoesWrong \/ User \/ Rest
  PROVE  CarriedParts'
<1>0. CarriedParts
  BY CarriedSplit
<1> USE <1>0 DEF At, disk, locals, Uncommitted, Staging, Placing, Registering, Retiring, Cleaning
<1>1. CASE Killed \/ RerenderFails \/ RollbackFails
  BY <1>1 DEF Killed, RerenderFails, RollbackFails, Stops, CarriedParts
<1>2. CASE CleanupFails
  <2>1. UNCHANGED <<live, was, kind, owed>>
    BY <1>2 DEF CleanupFails, Stops
  <2> QED BY <1>2, <2>1, StillCarried DEF CleanupFails, Stops, Installing
<1>3. ASSUME NEW f \in {"error", "interrupt"}, StagingFails(f) \/ Fails(f) PROVE CarriedParts'
  <2>1. pc' \in {"idle", "drop", "undoDir"}
    BY <1>3, Raising DEF StagingFails, Fails
  <2> QED BY <2>1 DEF CarriedParts
<1>4. ASSUME NEW f \in {"error", "interrupt"}, CopyFails(f) \/ RegistrationFails(f)
      PROVE  CarriedParts'
  BY <1>4, UncommittedCarried DEF CopyFails, RegistrationFails, RetiresArtifacts
<1>5. CASE User
  BY <1>5 DEF User, Edit, Reconcile, CarriedParts
<1>6. CASE Rest
  BY <1>6, StillCarried DEF Rest, vars
<1> QED BY <1>1, <1>2, <1>3, <1>4, <1>5, <1>6 DEF GoesWrong

LEMMA NextCarried ==
  ASSUME TypeOK, Routed, Kept, BackedUp, Carried, Undoable, Next
  PROVE  Carried'
BY NextWasOwed, NextCarriedDone, CommandsCarried, InstallCarried, AroundCarried, OthersCarried,
   CarriedSplit DEF Next, Step

-----------------------------------------------------------------------------
(* Registry, directory, hooks and commands *)

LEMMA CommandsAgreed == ASSUME Command PROVE Agreed'
<1>1. CASE pc' = "unregister"
  <2>1. live' = live /\ was'.live = live
    BY <1>1 DEF Command, Add, Update, Remove, Enable, Disable, Start, Snapshot, disk
  <2> QED BY <1>1, <2>1 DEF Agreed, Settled, Cleaning, Removing
<1>2. CASE pc' \in {"ignore", "save", "switch"}
  BY <1>2 DEF Agreed, Settled, Cleaning, Removing
<1> QED BY <1>1, <1>2 DEF Command, Add, Update, Remove, Enable, Disable, Start

\* Steps that change none of the places, and go where no more of them is asked.
LEMMA StillAgreed ==
  ASSUME Agreed, UNCHANGED <<cmds, hooks, reg, kind, ver, was, generic>>,
         pc' \notin {"hook", "unback", "commit", "meta", "mute", "discard", "scaffold"}
                    \cup Settled \cup Removing
  PROVE  Agreed'
BY DEF Agreed, Settled, Cleaning, Removing

LEMMA RemovalAgreed ==
  ASSUME TypeOK, Routed, Formed, BackedUp, Agreed,
         \/ Unregister \/ Strip \/ MarkKept \/ BackUp \/ Delete \/ Unhook \/ Deregister
  PROVE  Agreed'
<1>0. UNCHANGED <<kind, ver, was, generic>>
  BY Steady DEF Step
<1> USE <1>0 DEF Agreed, At, Goto, Ends, Settled, Cleaning, Removing
<1>1. CASE Unregister
  <2>1. live = was.live /\ reg = was.reg
    BY <1>1 DEF Unregister, BackedUp, Routed
  <2>2. ~ live.here => live.payload = NoVersion /\ ~ live.mark
    BY DirFacts DEF Formed, DirFormed
  <2>3. live.here \in BOOLEAN /\ live.mark \in BOOLEAN
    BY DiskFacts DEF Dir
  <2> QED BY <1>1, <2>1, <2>2, <2>3 DEF Unregister
<1>2. CASE Strip
  <2>1. live'.cfg = live.cfg /\ (pc' = "mark" => live'.payload = NoVersion)
    BY <1>2, DiskFacts DEF Strip, Dir
  <2> QED BY <1>2, <2>1 DEF Strip
<1>3. CASE MarkKept
  <2>1. live'.cfg = live.cfg /\ live'.payload = live.payload /\ live'.mark = live'.here
    BY <1>3, DiskFacts DEF MarkKept, Dir, Formed
  <2> QED BY <1>3, <2>1 DEF MarkKept
<1>4. CASE BackUp \/ Delete
  BY <1>4 DEF BackUp, Delete, Routed
<1>5. CASE Unhook
  BY <1>5 DEF Unhook
<1>6. CASE Deregister
  BY <1>6 DEF Deregister
<1> QED BY <1>1, <1>2, <1>3, <1>4, <1>5, <1>6

LEMMA InstallAgreed ==
  ASSUME TypeOK, Routed, Agreed,
         \/ LoadIgnore \/ Rescue \/ Restage \/ Stage \/ Wipe \/ Copy \/ Restore \/ Reseat
         \/ Render \/ RegisterHooks \/ Unback \/ Commit \/ Tidy \/ Unseal \/ Unstage
  PROVE  Agreed'
<1>0. UNCHANGED <<kind, ver, was, generic>>
  BY Steady DEF Step
<1> USE <1>0 DEF At, Goto, Ends, disk, Settled, Cleaning, Removing
<1>1. CASE LoadIgnore \/ Rescue \/ Reseat
  <2>1. UNCHANGED <<cmds, hooks, reg>>
    BY <1>1 DEF LoadIgnore, Rescue, Reseat
  <2>2. \/ pc' \in {"rescue", "restage", "wipe", "reseat"}
        \/ \E f \in {"error", "interrupt", "conflict"} : Raise(f)
    BY <1>1 DEF LoadIgnore, Rescue, Reseat, Routed
  <2>3. pc' \in {"rescue", "restage", "wipe", "reseat", "idle", "drop", "undoDir"}
    BY <2>2, Raising
  <2> QED BY <2>1, <2>3, StillAgreed
<1>2. CASE Restage \/ Stage \/ Wipe \/ Copy \/ Restore
  BY <1>2, StillAgreed DEF Restage, Stage, Wipe, Copy, Restore
<1>3. CASE Render \/ RegisterHooks \/ Unback \/ Commit
  BY <1>3 DEF Render, RegisterHooks, Unback, Commit, Agreed
<1>4. CASE Tidy \/ Unseal \/ Unstage
  BY <1>4 DEF Tidy, Unseal, Unstage, Installing, Agreed, Routed, InstallSteps, Installs
<1> QED BY <1>1, <1>2, <1>3, <1>4

LEMMA AroundAgreed ==
  ASSUME TypeOK, Routed, Agreed, Undoable,
         \/ Scaffold \/ RetireHooks \/ RetireFiles \/ RetireMark
         \/ Save \/ Fetch \/ RestoreConfig \/ RestoreMetadata \/ Mute \/ Discard \/ Drop
         \/ UndoDirectory \/ UndoCommands \/ UndoHooks \/ UndoRegistry \/ Undone
         \/ Switch \/ Rerender \/ Flip
  PROVE  Agreed'
<1>0. UNCHANGED <<kind, ver, was, generic>>
  BY Steady DEF Step
<1> USE <1>0 DEF At, Goto, Ends, disk, Settled, Cleaning, Removing
<1>1. CASE Scaffold
  BY <1>1 DEF Scaffold, Scaffolded, Agreed
<1>2. CASE RetireHooks \/ RetireFiles
  BY <1>2 DEF RetireHooks, RetireFiles, Agreed
<1>3. CASE RetireMark
  BY <1>3, Raising, StillAgreed DEF RetireMark, Routed, Retiring
<1>4. CASE Save \/ Fetch
  BY <1>4 DEF Save, Fetch, Agreed, Routed, UpdateSteps
<1>5. CASE RestoreConfig
  BY <1>5 DEF RestoreConfig, Agreed, Routed, UpdateSteps
<1>6. CASE RestoreMetadata
  <2>1. was.reg.on \in BOOLEAN /\ ver \in cmds /\ hooks = Entry(ver, TRUE)
    BY <1>6, DiskFacts DEF RestoreMetadata, Agreed, Entries
  <2>2. CASE was.reg.on = TRUE
    <3>1. hooks' = Entry(ver, TRUE) /\ reg' = Entry(ver, TRUE) /\ ver \in cmds' /\ pc' = "discard"
      BY <1>6, <2>1, <2>2 DEF RestoreMetadata
    <3> QED BY <2>2, <3>1 DEF Agreed
  <2>3. CASE was.reg.on = FALSE
    <3>1. /\ hooks' = Entry(ver, TRUE) /\ reg' = Entry(ver, FALSE) /\ pc' = "mute"
          /\ ver \in cmds' \/ generic
      BY <1>6, <2>1, <2>3 DEF RestoreMetadata
    <3> QED BY <2>3, <3>1 DEF Agreed
  <2> QED BY <2>1, <2>2, <2>3
<1>7. CASE Mute
  <2>1. ~ was.reg.on /\ was.reg.on \in BOOLEAN /\ hooks.ver = ver
    BY <1>7, DiskFacts, EntryFacts DEF Mute, Agreed, Entries, Entry
  <2>2. reg = Entry(ver, was.reg.on) /\ was.reg.on = FALSE
    BY <1>7, <2>1 DEF Mute, Agreed
  <2>3. hooks' = Entry(ver, FALSE) /\ reg' = Entry(ver, FALSE) /\ cmds' = cmds /\ pc' = "discard"
    BY <1>7, <2>1, <2>2 DEF Mute
  <2>4. ver \in cmds \/ (generic /\ ~ was.reg.on)
    BY <1>7 DEF Mute, Agreed
  <2> QED BY <2>2, <2>3, <2>4 DEF Agreed
<1>8. CASE Discard \/ Drop \/ UndoDirectory \/ UndoCommands \/ UndoHooks \/ UndoRegistry \/ Undone
  BY <1>8 DEF Discard, Drop, UndoDirectory, UndoCommands, UndoHooks, UndoRegistry, Undone, Agreed
<1>9. CASE Switch \/ Rerender
  BY <1>9 DEF Switch, Rerender, Agreed
<1>10. CASE Flip
  <2>1. hooks' \in {NotInstalled, Entry(hooks'.ver, reg'.on)}
    BY <1>10, DiskFacts DEF Flip, Entry
  <2> QED BY <1>10, <2>1 DEF Flip, Agreed, Routed
<1> QED BY <1>1, <1>2, <1>3, <1>4, <1>5, <1>6, <1>7, <1>8, <1>9, <1>10

LEMMA OthersAgreed ==
  ASSUME TypeOK, Routed, Agreed, GoesWrong \/ User \/ Rest
  PROVE  Agreed'
<1> USE DEF At, disk, locals, Settled, Cleaning, Removing
<1>1. CASE Killed \/ RollbackFails
  BY <1>1, StillAgreed DEF Killed, RollbackFails, Stops
<1>2. CASE RerenderFails
  BY <1>2 DEF RerenderFails, Agreed
<1>3. CASE CleanupFails
  BY <1>3 DEF CleanupFails, Stops, Installing, Agreed, Routed, InstallSteps, Installs
<1>4. ASSUME NEW f \in {"error", "interrupt"}, StagingFails(f) \/ Fails(f) PROVE Agreed'
  BY <1>4, Raising, StillAgreed DEF StagingFails, Fails
<1>5. ASSUME NEW f \in {"error", "interrupt"}, CopyFails(f) \/ RegistrationFails(f)
      PROVE  Agreed'
  BY <1>5, StillAgreed DEF CopyFails, RegistrationFails
<1>6. CASE User
  BY <1>6 DEF User, Edit, Reconcile, Agreed, Idle
<1>7. CASE Rest
  BY <1>7 DEF Rest, vars, Idle, Agreed
<1> QED BY <1>1, <1>2, <1>3, <1>4, <1>5, <1>6, <1>7 DEF GoesWrong

LEMMA NextAgreed ==
  ASSUME TypeOK, Routed, Formed, BackedUp, Agreed, Undoable, Next
  PROVE  Agreed'
BY CommandsAgreed, RemovalAgreed, InstallAgreed, AroundAgreed, OthersAgreed DEF Next, Step

\* A command that ends in success ends with everything in agreement.
LEMMA NextSuccess ==
  ASSUME TypeOK, Routed, Formed, BackedUp, Undoable, Agreed, SuccessIsWhole, Next
  PROVE  SuccessIsWhole'
<1> SUFFICES ASSUME Succeeded' PROVE SuccessIsWhole'
  BY DEF SuccessIsWhole
<1>1. Succeeding
  BY Successes
<1>s. /\ kind' # "none" => pc # "idle" \/ UNCHANGED vars
      /\ kind' # "none" /\ pc # "idle" => UNCHANGED <<kind, ver, was, generic>>
  <2>1. Command => how' = "running"
    BY DEF Command, Add, Update, Remove, Enable, Disable, Start
  <2> QED BY <2>1, <1>1, Steady DEF Next, Succeeded, User, Edit, Reconcile, Rest, Idle, Succeeding,
             Deregister, Flip, At
<1>2. CASE kind' = "none"
  BY <1>2 DEF SuccessIsWhole
<1>3. CASE Succeeded /\ UNCHANGED vars
  BY <1>3 DEF SuccessIsWhole, vars, disk, locals, Installed, Configured
<1>4. CASE Deregister /\ kind = "keep" /\ kind' # "none"
  <2>1. /\ live' = live /\ hooks' = hooks /\ cmds' = cmds /\ reg' = NotInstalled /\ pc = "deregister"
        /\ was' = was /\ kind' = "keep"
    BY <1>4, <1>s DEF Deregister, At
  <2>2. /\ hooks = NotInstalled /\ was.reg.ver \notin cmds /\ live.cfg = was.live.cfg
        /\ live.payload = NoVersion /\ live.mark = live.here
    BY <1>4, <2>1 DEF Agreed, Removing
  <2> QED BY <2>1, <2>2 DEF SuccessIsWhole, Installed
<1>5. CASE Deregister /\ kind = "remove" /\ kind' # "none"
  <2>1. /\ live' = live /\ hooks' = hooks /\ cmds' = cmds /\ reg' = NotInstalled /\ pc = "deregister"
        /\ was' = was /\ kind' = "remove" /\ backup' = backup
    BY <1>5, <1>s DEF Deregister, At
  <2>2. live = NoDir /\ Holds(backup.cfg)
    BY <1>5, <2>1 DEF BackedUp, Routed, Removing
  <2> QED BY <2>1, <2>2 DEF SuccessIsWhole, Agreed, Installed, Removing, Holds, Configured
<1>6. CASE At("scaffold") /\ kind # "update" /\ UNCHANGED disk /\ kind' # "none"
  <2>0. UNCHANGED <<live, hooks, cmds, reg, kind, ver, was, generic>> /\ pc = "scaffold"
    BY <1>6, <1>s DEF At, disk
  <2>1. CASE kind = "enable"
    BY <2>0, <2>1 DEF SuccessIsWhole, Agreed
  <2>2. CASE kind \in {"add", "force"}
    <3>1. reg.ver = ver /\ reg.on
      BY <2>0, <2>2, EntryFacts DEF Agreed, Routed, Installs
    <3>2. /\ live.payload = ver /\ ~ live.mark /\ hooks = Entry(ver, TRUE) /\ ver \in cmds
          /\ reg = Entry(ver, TRUE)
      BY <2>0, <2>2 DEF Formed, Agreed
    <3>3. reg.on = TRUE
      BY <3>1, DiskFacts DEF Entries
    <3> QED BY <2>0, <2>2, <3>1, <3>2, <3>3 DEF SuccessIsWhole
  <2> QED BY <1>6, <2>0, <2>1, <2>2 DEF Routed, Installs
<1>7. CASE /\ At("discard") /\ UNCHANGED <<live, staging, backup, reg, hooks, cmds>>
           /\ kind' # "none"
  <2>0. UNCHANGED <<live, hooks, cmds, reg, kind, ver, was, generic>> /\ pc = "discard"
        /\ kind = "update"
    BY <1>7, <1>s DEF At, Routed, UpdateSteps
  <2>1. was.reg.on \in BOOLEAN /\ ver \in Versions
    BY <2>0, DiskFacts DEF Entries, Routed, Installs
  <2>2. reg.ver = ver /\ reg.on = was.reg.on
    BY <2>0, <2>1, EntryFacts DEF Agreed
  <2> QED BY <2>0, <2>2 DEF SuccessIsWhole, Agreed, Formed, Placed
<1>8. CASE Flip /\ kind = "disable" /\ kind' # "none"
  <2>1. hooks' \in {NotInstalled, Entry(hooks'.ver, reg'.on)}
    BY <1>8, DiskFacts DEF Flip, Entry
  <2>2. kind' = "disable"
    BY <1>8, Steady DEF Step
  <2> QED BY <2>1, <2>2 DEF SuccessIsWhole
<1> QED BY <1>1, <1>2, <1>3, <1>4, <1>5, <1>6, <1>7, <1>8 DEF Succeeding

-----------------------------------------------------------------------------
(* Theorems *)

LEMMA InitIInv == Init => IInv
<1> SUFFICES ASSUME Init PROVE Sound
  BY InitTyped DEF IInv
<1> USE DEF Init
<1>1. Routed
  BY DEF Routed, Installs, InstallSteps, UpdateSteps, Uncommitted, Removing, Staging, Placing,
         Registering, Retiring, Cleaning, Undoing
<1>2. Formed
  BY DEF Formed, DirFormed, EntryFormed, Snapshot, Placed, Registering, Cleaning
<1>3. Kept /\ was.owed.by # "keep" /\ BackedUp
  BY DEF Kept, NoOne, Snapshot, BackedUp
<1>4. Carried /\ Undoable /\ Agreed
  BY <1>3 DEF Carried, Undoable, Agreed, Settled, Cleaning, Removing
<1>5. UpdateOutcome /\ SuccessIsWhole
  BY DEF UpdateOutcome, SuccessIsWhole
<1> QED BY <1>1, <1>2, <1>3, <1>4, <1>5 DEF Sound

LEMMA NextIInv == IInv /\ [Next]_vars => IInv'
<1> SUFFICES ASSUME IInv, Next \/ UNCHANGED vars PROVE IInv'
  OBVIOUS
<1> USE DEF IInv, Sound
<1>1. CASE Next
  BY <1>1, NextTyped, NextRouted, NextFormed, NextKept, NextBackedUp, NextCarried, NextUndoable,
     NextAgreed, NextSuccess
<1>2. CASE UNCHANGED vars
  <2>1. UNCHANGED <<live, staging, backup, save, reg, hooks, cmds, generic, kind, pc, ver, mem,
                    did, exc, was, how, owed, count>>
    BY <1>2 DEF vars, disk, locals
  <2>2. TypeOK'
    BY <2>1 DEF TypeOK
  <2>6. Routed'
    BY <2>1 DEF Routed
  <2>7. Formed'
    BY <2>1 DEF Formed, DirFormed, EntryFormed
  <2>8. Undoable'
    BY <2>1 DEF Undoable, Unchanged
  <2>9. Agreed'
    BY <2>1 DEF Agreed
  <2>3. Kept'
    BY <2>1 DEF Kept, Customised, Stored, StagingComplete, Marked, Configured, Held
  <2>4. BackedUp' /\ Carried'
    BY <2>1 DEF BackedUp, Carried, Holds, HoldsOwed, Configured, Succeeded, Idle
  <2>5. UpdateOutcome' /\ SuccessIsWhole'
    BY <2>1 DEF UpdateOutcome, SuccessIsWhole, OldWhole, NewWhole, Configured, Succeeded, Idle,
                Installed
  <2> QED BY <2>2, <2>3, <2>4, <2>5, <2>6, <2>7, <2>8, <2>9
<1> QED BY <1>1, <1>2

\* The inductive invariant of the extension commands holds at every step.
THEOREM IInvHolds == Spec => []IInv
BY InitIInv, NextIInv, PTL DEF Spec

\* Every variable keeps its type: in particular no step, no failure and no
\* rollback writes a configuration file that holds anything but a shipped
\* default or what the user wrote.
THEOREM TypeCorrect == Spec => []TypeOK
<1>1. IInv => TypeOK
  BY DEF IInv
<1> QED BY <1>1, IInvHolds, PTL

\* The rescue protocol of install_from_directory() loses no configuration that
\* `remove --keep-config` kept, whatever fails, is interrupted or killed, and
\* however often the install is tried again.
THEOREM KeptConfigIsSafe == Spec => []KeptConfigSurvives
<1>1. IInv => KeptConfigSurvives
  <2> SUFFICES ASSUME IInv, owed.by = "keep", NEW n \in Customised PROVE Stored(n)
    BY DEF KeptConfigSurvives
  <2>1. Kept /\ pc \in {"idle", "ignore", "rescue"} \cup Staging \cup Placing \cup Registering
                      \cup Retiring
    BY DEF IInv, Sound, Kept, Uncommitted
  <2> QED BY <2>1 DEF Kept, Held, Stored
<1> QED BY <1>1, IInvHolds, PTL

\* A command that succeeds ends with the configuration the user had.
THEOREM ConfigIsCarriedOver == Spec => []ConfigCarriedOver
<1>1. IInv => ConfigCarriedOver
  <2> SUFFICES ASSUME IInv, Succeeded, NEW n \in Names, Had[n] \in Written
               PROVE  live.cfg[n] = Had[n]
    BY DEF ConfigCarriedOver
  <2>0. Carried /\ Routed /\ TypeOK
    BY DEF IInv, Sound
  <2>1. CASE kind = "update" \/ (kind = "force" /\ was.reg # NotInstalled)
    <3>1. Had = was.live.cfg /\ Holds(live.cfg)
      BY <2>0, <2>1 DEF Had, Carried
    <3> QED BY <2>0, <3>1, DiskFacts DEF Holds, Configured
  <2>2. CASE kind \in {"add", "force"} /\ was.owed.by = "keep" /\ ~ (kind = "force" /\ was.reg # NotInstalled)
    <3>1. Had = was.owed.cfg /\ HoldsOwed
      BY <2>0, <2>2 DEF Had, Carried
    <3> QED BY <3>1 DEF HoldsOwed
  <2>3. CASE ~ (kind = "update" \/ (kind = "force" /\ was.reg # NotInstalled))
             /\ ~ (kind \in {"add", "force"} /\ was.owed.by = "keep")
    <3>1. Had = NoCfg
      BY <2>3 DEF Had
    <3> QED BY <2>0, <3>1, DirFacts, DiskFacts
  <2> QED BY <2>1, <2>2, <2>3
<1> QED BY <1>1, IInvHolds, PTL

\* An update of an intact extension ends all new or all old, or keeps its copy.
THEOREM UpdatesEndWell == Spec => []UpdateOutcome
<1>1. IInv => UpdateOutcome
  BY DEF IInv, Sound
<1> QED BY <1>1, IInvHolds, PTL

\* A success reported by any command means that registry, directory, hooks and
\* commands agree, whatever earlier failures left behind.
THEOREM SuccessMeansWhole == Spec => []SuccessIsWhole
<1>1. IInv => SuccessIsWhole
  BY DEF IInv, Sound
<1> QED BY <1>1, IInvHolds, PTL
=============================================================================
