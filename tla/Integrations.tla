---------------------------- MODULE Integrations ----------------------------
(***************************************************************************)
(* The agent integrations of a project through `specify integration        *)
(* install`, `uninstall`, `use`, `switch` and `upgrade`: the files they    *)
(* write for an agent, the manifest that tracks them by hash,              *)
(* integration.json, and the packages of external integrations.            *)
(*                                                                         *)
(* A command is a list of operations on the project.  When the project has *)
(* external packages, or the command brings one, it runs in a transaction: *)
(* a journal is told of a path before and after each write, and any        *)
(* exception rolls the journal back (_lifecycle.py).  Otherwise install    *)
(* and switch clean up after themselves and the other commands do not.     *)
(*                                                                         *)
(* Integrations may write the same files: several write their skills into  *)
(* one directory.                                                           *)
(*                                                                         *)
(* Meanwhile the user or another program may write the same files; an      *)
(* operation may raise, be interrupted or be killed half way.  Content     *)
(* stands for its hash: a release of the package, what a preset writes     *)
(* over a command, or what somebody wrote.                                 *)
(***************************************************************************)
EXTENDS Naturals, Sequences, FiniteSets, SequencesExt

CONSTANTS
    Keys,         \* integrations
    External,     \* those that come as a downloaded package
    Safe,         \* those declared multi-install safe
    Files,        \* files that integrations write
    Releases,     \* of Spec Kit and of the packages, positive numbers
    Ships,        \* Ships[k][r]: the files release r of k writes
    Overrides,    \* Overrides[k]: files of k that an enabled preset overrides
    Written,      \* contents a user or another program may write
    Preset,       \* the content an enabled preset gives a command
    Torn,         \* the content of a file that was written in part
    None,         \* no integration
    MaxCommands,  \* bound: commands run
    MaxEdits,     \* bound: writes by the user and other programs
    MaxInputs,    \* bound: commands, writes and faults together
    MaxFaults     \* bound: errors, interrupts and kills

ASSUME KeysAssumption ==
    External \subseteq Keys /\ Safe \subseteq Keys /\ None \notin Keys
ASSUME ReleasesAssumption == Releases \subseteq Nat \ {0}
ASSUME FilesAssumption ==
    /\ IsFiniteSet(Files)
    /\ Ships \in [Keys -> [Releases -> SUBSET Files]]
    /\ Overrides \in [Keys -> SUBSET Files]
ASSUME ContentAssumption ==
    /\ Written \cap (Releases \cup {0, Preset, Torn}) = {} /\ Preset # Torn
    /\ 0 \notin {Preset, Torn}
ASSUME BoundsAssumption ==
    {MaxCommands, MaxEdits, MaxInputs, MaxFaults} \subseteq Nat

VARIABLES
    proj,      \* the project on disk, see Project
    cmd,       \* the command that runs, or the last one: [kind, key, rel, force]
    pc,        \* "idle", "run", "undo" (a built-in install cleans up), "rollback"
    todo,      \* operations left
    ready,     \* has the journal been told of the first of them?
    new,       \* the manifest in memory
    fresh,     \* files whose hash may be refreshed after registration
    owns,      \* does the command run in a transaction?
    jour,      \* journal: paths in the order of their first change
    saved,     \* journal: the content a file had before
    written,   \* journal: the content the command left in it
    pending,   \* journal: paths announced and not yet written
    was,       \* the project when the command started
    how,       \* how the last command ended
    reported,  \* paths the command named as kept or in conflict
    kept,      \* are the recovery snapshots kept?
    theirs,    \* history: what the files hold apart from this command's writes
    touched,   \* history: files that others wrote since the command started
    blind,     \* history: files written by others where nothing can see it
    scarred,   \* history: a command was killed, or reported damaged metadata
    count      \* commands, edits and faults so far

journal == <<owns, jour, saved, written, pending>>
history == <<theirs, touched, blind, scarred>>
result == <<was, how, reported, kept>>
vars == <<proj, cmd, pc, todo, ready, new, fresh, journal, result, history, count>>
-----------------------------------------------------------------------------
Absent == 0
NoFiles == [f \in Files |-> Absent]    \* also a manifest that is not there
Tracked(m) == {f \in Files : m[f] # Absent}
Nothing == [installed |-> <<>>, default |-> None]

StateFile == <<"state">>
RecordFile == <<"records">>
PresetFile == <<"presets">>
Manifest(k) == <<"manifest", k>>
PackageDir(k) == <<"package", k>>
MetadataPaths == {StateFile, RecordFile, PresetFile}
                 \cup {Manifest(k) : k \in Keys} \cup {PackageDir(k) : k \in External}
Paths == Files \cup MetadataPaths

\* The tool's own files are apart from the agents'.
ASSUME PathsAssumption == Files \cap MetadataPaths = {}

Installed == Range(proj.json.installed)
Default == proj.json.default
CoveredFor(p, k) == {f \in Files : <<k, f>> \in p.covered}
Known(k) == k \notin External \/ k \in proj.recs

\* load_installed_integrations refuses a package without a record and a record
\* without its package.
Loads == proj.pkgs = proj.recs

Init ==
    /\ proj = [disk |-> NoFiles, man |-> [k \in Keys |-> NoFiles], json |-> Nothing,
               readable |-> TRUE, pkgs |-> {}, recs |-> {}, presets |-> TRUE, covered |-> {}]
    /\ cmd = [kind |-> "none", key |-> None, rel |-> 0, force |-> FALSE]
    /\ pc = "idle" /\ todo = <<>> /\ ready = FALSE /\ new = NoFiles /\ fresh = {}
    /\ owns = FALSE /\ jour = <<>> /\ pending = {}
    /\ saved = NoFiles /\ written = NoFiles
    /\ was = proj /\ how = "ok" /\ reported = {} /\ kept = FALSE
    /\ theirs = NoFiles /\ touched = {} /\ blind = {} /\ scarred = FALSE
    /\ count = [commands |-> 0, edits |-> 0, faults |-> 0]
-----------------------------------------------------------------------------
(* Operations, and the lists of them that the commands are made of. *)

Each(S, Op(_)) == LET s == SetToSeq(S) IN [i \in 1 .. Len(s) |-> Op(s[i])]

PutOp(f) == [do |-> "put", at |-> f]
OverlayOp(f) == [do |-> "overlay", at |-> f]
ClearOp(f) == [do |-> "clear", at |-> f]
RehashOp(f) == [do |-> "rehash", at |-> f]
DropOp(f, hash, force) == [do |-> "drop", at |-> f, hash |-> hash, force |-> force]
SaveManifest(k) == [do |-> "manifest", at |-> Manifest(k), key |-> k]
Resave(k) == [do |-> "resave", at |-> Manifest(k), key |-> k]
DropManifest(k) == [do |-> "dropManifest", at |-> Manifest(k), key |-> k]
Snapshot(k) == [do |-> "snapshot", at |-> Manifest(k), key |-> k]
SaveState(installed, default, last) ==
    [do |-> "state", at |-> StateFile, last |-> last,
     value |-> [installed |-> installed, default |-> default]]
PackageOp(d, k) == [do |-> d, at |-> PackageDir(k), key |-> k]
RecordOp(d, k) == [do |-> d, at |-> RecordFile, key |-> k]
PresetOp(d, k) == [do |-> d, at |-> PresetFile, key |-> k]

SetUp(k, r) == Each(Ships[k][r], PutOp) \o <<SaveManifest(k)>>

TearDown(k, m, force) ==
    LET Op(f) == DropOp(f, m[f], force)
    IN  Each(Tracked(m), Op) \o <<DropManifest(k)>>

\* Overrides of presets are written for the active integration only; the
\* registry of presets names those that are there, and for which integration.
Register(k) ==
    IF ~ proj.presets \/ Overrides[k] = {} THEN <<>>
    ELSE Each(Overrides[k], OverlayOp) \o <<PresetOp("cover", k)>>

\* A file that is also registered for another integration stays.
Unregister(k) ==
    LET shared == UNION {CoveredFor(proj, l) : l \in Keys \ {k}}
    IN  IF CoveredFor(proj, k) = {} THEN <<>>
        ELSE Each(CoveredFor(proj, k) \ shared, ClearOp) \o <<PresetOp("uncover", k)>>

\* Hashes of files that registration changed become the tracked ones.
Resync(S) == Each(S, RehashOp)

Persist(k) == <<PackageOp("package", k), RecordOp("record", k)>>

\* Mutant: only the record of a package goes.
ForgetRecord(k) ==
    IF k \in proj.recs THEN <<RecordOp("unrecord", k)>> ELSE <<>>

Forget(k) ==
    IF k \in proj.recs
    THEN <<PackageOp("unpackage", k), RecordOp("unrecord", k)>> ELSE <<>>

StaleOp(k, r) ==
    LET Op(f) == DropOp(f, proj.man[k][f], TRUE)
    IN  Each(Tracked(proj.man[k]) \ Ships[k][r], Op)

\* Mutant: the pass over stale files removes the manifest too.
StaleTearDown(k, r) == StaleOp(k, r) \o <<DropManifest(k)>>

\* Files of the old release that the new one does not write.
Stale(k, r) == StaleOp(k, r)
-----------------------------------------------------------------------------
(* Commands. *)

Downloads(kind, k) ==
    /\ k \in External
    /\ \/ kind = "upgrade" /\ k \in proj.recs
       \/ kind \in {"install", "switch"} /\ k \notin proj.recs

Fetched(kind, k) == IF Downloads(kind, k) THEN Persist(k) ELSE <<>>

InputsLeft == count.commands + count.edits + count.faults < MaxInputs

\* The transaction takes its lock and the journal is empty.
Begin(kind, k, r, force, ops) ==
    /\ pc = "idle" /\ proj.readable /\ Loads
    /\ count.commands < MaxCommands /\ InputsLeft
    /\ cmd' = [kind |-> kind, key |-> k, rel |-> r, force |-> force]
    /\ pc' = "run" /\ todo' = ops /\ ready' = FALSE
    /\ new' = NoFiles /\ fresh' = Files
    /\ owns' = (proj.recs # {} \/ \E i \in DOMAIN ops : ops[i].do = "package")
    /\ jour' = <<>> /\ saved' = NoFiles /\ written' = NoFiles /\ pending' = {}
    /\ was' = proj /\ how' = "running" /\ reported' = {} /\ kept' = FALSE
    /\ theirs' = proj.disk /\ touched' = {} /\ blind' = {}
    /\ count' = [count EXCEPT !.commands = @ + 1]
    /\ UNCHANGED <<proj, scarred>>

First(s) == IF s = <<>> THEN None ELSE Head(s)

\* An installed key is listed once (TypeOK): the first is the only one.
Without(k) == RemoveFirst(proj.json.installed, k)

\* Several integrations go together if all are safe, or by force.
MayInstall(k, force) ==
    /\ k \notin Installed
    /\ Installed = {} \/ force \/ Installed \cup {k} \subseteq Safe

\* A key that is installed already changes nothing, except that a package
\* which an earlier command had no time to store is stored.
Install(k, r, force) ==
    LET installed == proj.json.installed
        first == IF Default = None THEN k ELSE Default
    IN  \/ /\ MayInstall(k, force)
           /\ Begin("install", k, r, force,
                    SetUp(k, r) \o <<SaveState(Append(installed, k), first, TRUE)>>
                    \o Fetched("install", k))
        \/ /\ k \in Installed /\ Downloads("install", k)
           /\ Begin("install", k, r, force, Fetched("install", k))

Uninstall(k, force) ==
    LET rest == Without(k)
        next == IF Default = k THEN First(rest) ELSE Default
    IN  /\ k \in Installed
        /\ Begin("uninstall", k, 0, force,
                 (IF proj.man[k] = NoFiles THEN <<>>
                  ELSE TearDown(k, proj.man[k], force))
                 \o Unregister(k) \o <<SaveState(rest, next, FALSE)>>
                 \o (IF Default = k /\ next # None /\ Known(next)
                     THEN Register(next) ELSE <<>>)
                 \o Forget(k))

\* Make an installed integration the default one.
Activate(k) ==
    <<SaveState(proj.json.installed, k, FALSE), Snapshot(k)>>
    \o Register(k) \o Resync(Tracked(proj.man[k]))

Use(k) ==
    /\ k \in Installed /\ Known(k)
    /\ Begin("use", k, 0, FALSE, Activate(k))

SwitchToInstalled(k) ==
    /\ k \in Installed /\ k # Default
    /\ Begin("use", k, 0, FALSE, Activate(k) \o Fetched("switch", k))

\* The default integration goes and k takes its place.
Switch(k, r, force) ==
    LET rest == Without(Default)
        gone == IF Default = None THEN <<>>
                ELSE TearDown(Default, proj.man[Default], force)
                     \o Unregister(Default)
                     \o <<SaveState(rest, First(rest), FALSE)>>
    IN  /\ k \notin Installed
        /\ Default # None => proj.man[Default] # NoFiles
        /\ Begin("switch", k, r, force,
                 gone \o SetUp(k, r) \o <<SaveState(Append(rest, k), k, TRUE)>>
                 \o Register(k) \o Resync(Ships[k][r]) \o Fetched("switch", k)
                 \o (IF Default = None THEN <<>> ELSE Forget(Default)))

Modified(p, k) ==
    {f \in Tracked(p.man[k]) : p.disk[f] \notin {Absent, p.man[k][f]}}

MayUpgrade(k, force) ==
    /\ k \in Installed /\ Known(k) /\ proj.man[k] # NoFiles
    /\ force \/ Modified(proj, k) = {}

Upgrade(k, r, force) ==
    /\ MayUpgrade(k, force)
    /\ Begin("upgrade", k, r, force,
             SetUp(k, r) \o <<SaveState(proj.json.installed, Default, TRUE)>>
             \o Stale(k, r)
             \o (IF k = Default THEN Register(k) \o Resync(Ships[k][r]) ELSE <<>>)
             \o Fetched("upgrade", k))
-----------------------------------------------------------------------------
(* What operations do to the project. *)

Op == Head(todo)
Busy == pc \in {"run", "undo"} /\ todo # <<>>
Touches == Op.do \notin {"snapshot", "rehash"}
InPlace == {"put", "overlay", "cover", "uncover"}
BestEffort == Op.do \in {"drop", "dropManifest", "overlay", "clear", "cover",
                        "uncover", "resave"}

\* Mutant: any file that is tracked goes.
ModifiesUntracked(o) == ~ o.force /\ o.hash = Absent

\* A removal of what is gone, or of a file that is no longer as it was recorded.
Modifies(o) == ~ o.force /\ proj.disk[o.at] # o.hash
Vain ==
    CASE Op.do = "drop" -> proj.disk[Op.at] = Absent \/ Modifies(Op)
      [] Op.do = "clear" -> proj.disk[Op.at] = Absent
      [] Op.do = "dropManifest" -> proj.man[Op.key] = NoFiles
      [] Op.do = "cover" -> Overrides[Op.key] \subseteq CoveredFor(proj, Op.key)
      [] OTHER -> FALSE

Completed ==
    CASE Op.do = "put" -> [proj EXCEPT !.disk[Op.at] = cmd.rel]
      [] Op.do \in {"drop", "clear"} -> [proj EXCEPT !.disk[Op.at] = Absent]
      [] Op.do = "overlay" -> [proj EXCEPT !.disk[Op.at] = Preset]
      [] Op.do = "cover" -> [proj EXCEPT !.covered = @ \cup {Op.key} \X Overrides[Op.key]]
      [] Op.do = "uncover" -> [proj EXCEPT !.covered = @ \ {Op.key} \X Files]
      [] Op.do \in {"manifest", "resave"} -> [proj EXCEPT !.man[Op.key] = new]
      [] Op.do = "dropManifest" -> [proj EXCEPT !.man[Op.key] = NoFiles]
      [] Op.do = "state" -> [proj EXCEPT !.json = Op.value, !.readable = TRUE]
      [] Op.do = "package" -> [proj EXCEPT !.pkgs = @ \cup {Op.key}]
      [] Op.do = "record" -> [proj EXCEPT !.recs = @ \cup {Op.key}]
      [] Op.do = "unpackage" -> [proj EXCEPT !.pkgs = @ \ {Op.key}]
      [] Op.do = "unrecord" -> [proj EXCEPT !.recs = @ \ {Op.key}]

\* What an operation that stops half way may leave.  Files, integration.json and
\* the registry of presets are written in place: no command starts with half an
\* integration.json, and with half a registry there are no presets.  Manifests and
\* records are replaced.  A package directory is removed and another moved in.
Halfway ==
    {proj, Completed} \cup
    CASE Op.do \in {"put", "overlay"} -> {[proj EXCEPT !.disk[Op.at] = Torn]}
      [] Op.do = "state" ->
            IF Op.value = Nothing THEN {}
            ELSE {[proj EXCEPT !.json = Nothing, !.readable = FALSE]}
      [] Op.do \in {"cover", "uncover"} -> {[proj EXCEPT !.presets = FALSE, !.covered = {}]}
      [] Op.do = "package" -> {[proj EXCEPT !.pkgs = @ \ {Op.key}]}
      [] OTHER -> {}

InFlight == Busy /\ Touches /\ (ready \/ (~ owns /\ ~ Vain))
Left == IF InFlight THEN Halfway ELSE {proj}
-----------------------------------------------------------------------------
(* The journal. *)

\* Somebody wrote the file after this command did.
Foreign(p) == p \in Files /\ p \notin pending /\ proj.disk[p] # written[p]
Journaled == Range(jour)
Refused == Op.at \in Journaled /\ Foreign(Op.at)

\* Mutant: every change of a path makes an entry.
RememberEach(p) ==
    /\ jour' = Append(jour, p)
    /\ saved' = IF p \in Files THEN [saved EXCEPT ![p] = proj.disk[p]] ELSE saved
    /\ written' = IF p \in Files THEN [written EXCEPT ![p] = proj.disk[p]] ELSE written

Remember(p) ==
    IF p \in Journaled THEN UNCHANGED <<jour, saved, written>>
    ELSE /\ jour' = Append(jour, p)
         /\ saved' = IF p \in Files THEN [saved EXCEPT ![p] = proj.disk[p]] ELSE saved
         /\ written' = IF p \in Files THEN [written EXCEPT ![p] = proj.disk[p]]
                       ELSE written

\* The first change of a path keeps a copy; later ones check that nobody
\* wrote it meanwhile.
Announce ==
    /\ owns /\ Busy /\ Touches /\ ~ Vain /\ ~ ready /\ ~ Refused
    /\ Remember(Op.at) /\ pending' = pending \cup {Op.at} /\ ready' = TRUE
    /\ UNCHANGED <<proj, cmd, pc, todo, new, fresh, owns, result, history, count>>

\* The operation is done, or given up, and the next one is at hand.
Proceed(rest) == todo' = rest /\ ready' = FALSE /\ UNCHANGED <<cmd, pc, fresh, owns>>

Perform ==
    /\ InFlight
    /\ proj' = Completed
    /\ new' = IF Op.do = "put" THEN [new EXCEPT ![Op.at] = cmd.rel] ELSE new
    /\ pending' = pending \ {Op.at}
    /\ written' = IF owns /\ Op.at \in Files
                  THEN [written EXCEPT ![Op.at] = proj'.disk[Op.at]] ELSE written
    /\ Proceed(Tail(todo))
    /\ UNCHANGED <<jour, saved, result, history, count>>

Pass ==
    /\ Busy /\ Vain /\ ~ ready
    /\ reported' = IF Op.do = "drop" /\ proj.disk[Op.at] # Absent
                   THEN reported \cup {Op.at} ELSE reported
    /\ Proceed(Tail(todo))
    /\ UNCHANGED <<proj, new, jour, saved, written, pending, was, how, kept, history, count>>

\* The operations from the first one on that is not of the kinds K.
From(s, K) ==
    LET others == {i \in DOMAIN s : s[i].do \notin K}
    IN  IF others = {} THEN <<>>
        ELSE SubSeq(s, CHOOSE i \in others : \A j \in others : i <= j, Len(s))

\* One failed override ends the registration, and one that cannot be removed
\* the removal of overrides; everything else goes on.
AfterFailure ==
    CASE Op.do = "overlay" -> From(Tail(todo), {"overlay", "cover"})
      [] Op.do = "clear" -> From(Tail(todo), {"clear", "uncover"})
      [] OTHER -> Tail(todo)

Ends(outcome) ==
    /\ pc' = "idle" /\ how' = outcome /\ todo' = <<>> /\ ready' = FALSE
    /\ new' = NoFiles /\ fresh' = {} /\ jour' = <<>> /\ pending' = {}
    /\ saved' = (IF kept' THEN saved ELSE NoFiles) /\ written' = NoFiles
    /\ UNCHANGED <<cmd, owns, was>>
-----------------------------------------------------------------------------
(* The manifest around registration. *)

\* Mutant: every tracked file counts as unmodified.
TakeSnapshotOfAll ==
    /\ Busy /\ Op.do = "snapshot"
    /\ new' = proj.man[Op.key]
    /\ fresh' = Tracked(proj.man[Op.key])
    /\ todo' = Tail(todo)
    /\ UNCHANGED <<proj, cmd, pc, ready, journal, result, history, count>>

\* Before registration: which tracked files are as they were recorded, or gone?
TakeSnapshot ==
    /\ Busy /\ Op.do = "snapshot"
    /\ new' = proj.man[Op.key]
    /\ fresh' = Tracked(proj.man[Op.key]) \ Modified(proj, Op.key)
    /\ todo' = Tail(todo)
    /\ UNCHANGED <<proj, cmd, pc, ready, journal, result, history, count>>

\* The journal takes what it finds for the command's own write, unless the
\* file was there before and the command never announced it.
Adopts(f) == owns /\ (f \in Journaled \/ was.disk[f] = Absent)
Rejects(f) == owns /\ ~ Adopts(f)

Resaves(f) ==
    LET active == IF pc = "undo" THEN First(proj.json.installed) ELSE cmd.key
    IN  IF Rejects(f) \/ \E i \in DOMAIN todo : todo[i].do = "resave" THEN <<>>
        ELSE <<Resave(active)>>

Rehashed(f) ==
    /\ f \in fresh /\ proj.disk[f] # Absent
    /\ cmd.kind = "upgrade" \/ proj.disk[f] # new[f]

\* After it: the hash of a file that registration changed is refreshed.
Rehash ==
    /\ Busy /\ Op.do = "rehash"
    /\ LET f == Op.at
       IN  IF ~ Rehashed(f)
           THEN /\ todo' = Tail(todo)
                /\ UNCHANGED <<new, journal, blind>>
           ELSE /\ new' = [new EXCEPT ![f] = proj.disk[f]]
                /\ blind' = IF proj.disk[f] \in Written THEN blind \cup {f} ELSE blind
                /\ IF Adopts(f)
                   THEN /\ jour' = IF f \in Journaled THEN jour ELSE Append(jour, f)
                        /\ written' = [written EXCEPT ![f] = proj.disk[f]]
                        /\ pending' = pending \ {f}
                   ELSE UNCHANGED <<jour, written, pending>>
                /\ todo' = Tail(todo) \o Resaves(f)
                /\ UNCHANGED <<owns, saved>>
    /\ UNCHANGED <<proj, cmd, pc, ready, fresh, result, theirs, touched, scarred, count>>

\* The snapshots go when the command succeeds, or its rollback was complete.
Finish ==
    /\ pc \in {"run", "undo"} /\ todo = <<>>
    /\ UNCHANGED <<proj, reported, kept, history, count>>
    /\ Ends(IF pc = "run" THEN "ok" ELSE "failed")
-----------------------------------------------------------------------------
(* Errors, interrupts and kills. *)

\* The generic part of install and switch that cleans up on an error.
Guarded ==
    /\ pc = "run"
    /\ \/ cmd.kind = "install"
       \/ cmd.kind = "switch" /\ (Op.do \in {"put", "manifest"}
                                  \/ (Op.do = "state" /\ Op.last))

\* Files written so far are removed, as are any they replaced; a switch falls
\* back on the first integration that is left.
CleanUp ==
    LET installed == IF cmd.kind = "install" THEN was.json.installed
                     ELSE RemoveFirst(was.json.installed, was.json.default)
        default == IF cmd.kind = "install" THEN was.json.default ELSE First(installed)
    IN  TearDown(cmd.key, new, TRUE) \o <<SaveState(installed, default, FALSE)>>
        \o (IF cmd.kind = "install" \/ default = None THEN <<>>
            ELSE <<Snapshot(default)>> \o Register(default)
                 \o Resync(Tracked(proj.man[default])))

Raise ==
    \/ /\ owns /\ pc' = "rollback" /\ ready' = FALSE
       /\ UNCHANGED <<cmd, todo, new, fresh, journal, was, how>>
    \/ /\ ~ owns /\ Guarded
       /\ pc' = "undo" /\ todo' = CleanUp /\ ready' = FALSE
       /\ UNCHANGED <<cmd, new, fresh, journal, was, how>>
    \/ /\ ~ owns /\ ~ Guarded
       /\ Ends("failed")

\* The journal refuses to write over what somebody else wrote.
Refuse ==
    /\ owns /\ Busy /\ Touches /\ ~ Vain /\ ~ ready /\ Refused
    /\ UNCHANGED <<proj, kept, history, count>>
    /\ IF BestEffort
       THEN Proceed(AfterFailure) /\ UNCHANGED <<new, jour, saved, written, pending, was, how>>
       ELSE Raise
    /\ reported' = IF Op.do = "drop" THEN reported \cup {Op.at} ELSE reported

\* What goes wrong during a rollback is not counted: it ends the command.
Fault ==
    \/ pc = "rollback" /\ UNCHANGED count
    \/ /\ pc \in {"run", "undo"} /\ count.faults < MaxFaults /\ InputsLeft
       /\ count' = [count EXCEPT !.faults = @ + 1]

\* A path whose write failed stays announced.
Fails ==
    /\ Fault /\ InFlight /\ UNCHANGED <<kept, history>>
    /\ IF BestEffort
       THEN /\ proj' \in IF Op.do \in InPlace THEN Halfway ELSE {proj}
            /\ reported' = reported \cup {Op.at}
            /\ Proceed(AfterFailure)
            /\ UNCHANGED <<new, jour, saved, written, pending, was, how>>
       ELSE proj' \in Halfway /\ UNCHANGED reported /\ Raise

\* Ctrl+C is no Exception: only a transaction acts on it.
Interrupted ==
    /\ Fault /\ pc \in {"run", "undo"}
    /\ proj' \in Left /\ UNCHANGED <<reported, kept, history>>
    /\ IF owns
       THEN pc' = "rollback" /\ ready' = FALSE
            /\ UNCHANGED <<cmd, todo, new, fresh, journal, was, how>>
       ELSE Ends("interrupted")

Metadata(p) == p \notin Files
Original(p, old) ==
    /\ p \in Files => proj.disk[p] = saved[p]
    /\ p = StateFile => proj.json = old.json /\ proj.readable = old.readable
    /\ p = RecordFile => proj.recs = old.recs
    /\ p = PresetFile => proj.presets = old.presets /\ proj.covered = old.covered
    /\ \A k \in Keys : p = Manifest(k) => proj.man[k] = old.man[k]
    /\ \A k \in External : p = PackageDir(k) => (k \in proj.pkgs <=> k \in old.pkgs)

\* Mutant: the rollback does not look at what a path holds now.
LeftAloneIfPending(p) == p \in pending

\* A path that was announced and not written, or that somebody else wrote
\* since, is left alone.
LeftAlone(p) == p \in pending \/ Foreign(p)
Conflicts == {p \in Journaled : Foreign(p) \/ (p \in pending /\ ~ Original(p, was))}

\* The project with the paths ps of the journal restored.
Restored(ps) ==
    LET back == {p \in ps : ~ LeftAlone(p)}
    IN  [disk |-> [f \in Files |-> IF f \in back THEN saved[f] ELSE proj.disk[f]],
         man |-> [k \in Keys |-> IF Manifest(k) \in back THEN was.man[k] ELSE proj.man[k]],
         json |-> IF StateFile \in back THEN was.json ELSE proj.json,
         readable |-> IF StateFile \in back THEN was.readable ELSE proj.readable,
         pkgs |-> {k \in External : k \in IF PackageDir(k) \in back
                                          THEN was.pkgs ELSE proj.pkgs},
         recs |-> IF RecordFile \in back THEN was.recs ELSE proj.recs,
         presets |-> IF PresetFile \in back THEN was.presets ELSE proj.presets,
         covered |-> IF PresetFile \in back THEN was.covered ELSE proj.covered]

RollBack ==
    /\ pc = "rollback"
    /\ proj' = Restored(Journaled)
    /\ reported' = reported \cup Conflicts /\ kept' = (Conflicts # {})
    /\ scarred' = (scarred \/ \E p \in Conflicts : Metadata(p))
    /\ Ends("failed")
    /\ UNCHANGED <<theirs, touched, blind, count>>

\* Later changes are undone first.
HalfRestored ==
    {Restored({jour[i] : i \in n .. Len(jour)}) : n \in 1 .. Len(jour) + 1}

\* "rollback failed": the message names every path, the snapshots are kept.
RollBackFails ==
    /\ Fault /\ pc = "rollback"
    /\ proj' \in HalfRestored
    /\ reported' = reported \cup Journaled /\ kept' = TRUE /\ scarred' = TRUE
    /\ Ends("failed")
    /\ UNCHANGED <<theirs, touched, blind>>

\* The process dies; a second Ctrl+C, during the rollback, has the same effect
\* and takes the snapshots with it.
Killed ==
    /\ Fault
    /\ proj' \in IF pc = "rollback" THEN HalfRestored ELSE Left
    /\ scarred' = TRUE /\ UNCHANGED <<reported, kept, theirs, touched, blind>>
    /\ Ends("killed")
-----------------------------------------------------------------------------
(* The user and other programs. *)

Edits ==
    /\ count.edits < MaxEdits /\ InputsLeft
    /\ count' = [count EXCEPT !.edits = @ + 1]

\* Between commands.
Edit(f, c) ==
    /\ pc = "idle" /\ Edits /\ proj.disk[f] # c
    /\ proj' = [proj EXCEPT !.disk[f] = c]
    /\ cmd' = [cmd EXCEPT !.kind = "none"] /\ how' = "ok"
    /\ UNCHANGED <<pc, todo, ready, new, fresh, journal, was, reported, kept, history>>

\* While a command runs.  Between the check before a write and the write
\* itself nobody can see it.
EditMeanwhile(f, c) ==
    /\ pc # "idle" /\ Edits /\ proj.disk[f] # c
    /\ proj' = [proj EXCEPT !.disk[f] = c] /\ touched' = touched \cup {f}
    /\ IF f \in pending
       THEN blind' = blind \cup {f} /\ UNCHANGED theirs
       ELSE theirs' = [theirs EXCEPT ![f] = c] /\ UNCHANGED blind
    /\ UNCHANGED <<cmd, pc, todo, ready, new, fresh, journal, result, scarred>>
-----------------------------------------------------------------------------
\* The first conjunct repeats what `Begin` asks, so that TLC puts no list together
\* that no command will have.
Command ==
    /\ pc = "idle" /\ count.commands < MaxCommands /\ InputsLeft
    /\ \E k \in Keys :
        \/ \E r \in Releases, force \in BOOLEAN :
              Install(k, r, force) \/ Switch(k, r, force) \/ Upgrade(k, r, force)
        \/ \E force \in BOOLEAN : Uninstall(k, force)
        \/ Use(k) \/ SwitchToInstalled(k)

Step == Announce \/ Perform \/ Pass \/ TakeSnapshot \/ Rehash \/ Refuse \/ RollBack \/ Finish

GoesWrong == Fails \/ Interrupted \/ RollBackFails \/ Killed

Others == \E f \in Files, c \in Written : Edit(f, c) \/ EditMeanwhile(f, c)

Rest == pc = "idle" /\ UNCHANGED vars

Next == Command \/ Step \/ GoesWrong \/ Others \/ Rest

Spec == Init /\ [][Next]_vars
-----------------------------------------------------------------------------
(* Properties. *)

Contents == Releases \cup Written \cup {Absent, Preset, Torn}
Hashes == [Files -> Contents]
State == [installed : Seq(Keys), default : Keys \cup {None}]
Project == [disk : Hashes, man : [Keys -> Hashes], json : State,
            readable : BOOLEAN, pkgs : SUBSET External, recs : SUBSET External,
            presets : BOOLEAN, covered : SUBSET (Keys \X Files)]

\* Types; an integration is installed once, and the journal has one entry for
\* a path whatever the number of its writes (`_observe`).
TypeOK ==
    /\ proj \in Project /\ was \in Project
    /\ IsInjective(proj.json.installed) /\ IsInjective(jour)
    /\ cmd.key \in Keys \cup {None} /\ cmd.rel \in Releases \cup {0}
    /\ pc \in {"idle", "run", "undo", "rollback"}
    /\ \A i \in DOMAIN todo : todo[i].at \in Paths
    /\ new \in Hashes /\ fresh \subseteq Files
    /\ saved \in Hashes /\ written \in Hashes /\ theirs \in Hashes
    /\ Journaled \subseteq Paths /\ pending \subseteq Journaled
    /\ reported \subseteq Paths /\ blind \subseteq touched /\ touched \subseteq Files
    /\ how \in {"ok", "running", "failed", "interrupted", "killed"}
    /\ {owns, ready, kept, scarred} \subseteq BOOLEAN

Ended == pc = "idle" /\ cmd.kind # "none"

\* A transaction that fails or is interrupted leaves every file with what it
\* had, or with what somebody else wrote meanwhile, and all metadata as it
\* was; a path for which this is not so is named in the message, and the kept
\* snapshots hold its content (`_restore_snapshots`).
FailedIsUndone ==
    Ended /\ owns /\ how = "failed" =>
        /\ \A f \in Files \ blind :
              \/ proj.disk[f] = theirs[f]
              \/ kept /\ f \in reported /\ saved[f] = theirs[f]
        /\ \A k \in Keys :
              proj.man[k] = was.man[k] \/ (kept /\ Manifest(k) \in reported)
        /\ (proj.json = was.json /\ proj.readable) \/ (kept /\ StateFile \in reported)
        /\ proj.recs = was.recs \/ (kept /\ RecordFile \in reported)
        /\ proj.covered = was.covered \/ (kept /\ PresetFile \in reported)
        /\ \A k \in External :
              (k \in proj.pkgs) = (k \in was.pkgs) \/ (kept /\ PackageDir(k) \in reported)

\* The files of installed integrations with a content that no manifest records:
\* somebody modified them.
Edited(p) ==
    {f \in Files : /\ p.disk[f] # Absent
                   /\ \E k \in Range(p.json.installed) : p.man[k][f] # Absent
                   /\ \A k \in Keys : p.man[k][f] # p.disk[f]}

\* Files that a preset overrides, for whichever integration.
PresetFiles(p) == UNION {Overrides[k] \cup CoveredFor(p, k) : k \in Keys}

\* The integrations that command c takes away from project p, and whether it
\* sets one up.
Leavers(c, p) ==
    CASE c.kind = "uninstall" -> {c.key}
      [] c.kind = "switch" -> {p.json.default} \ {None}
      [] OTHER -> {}
SetsUp(c, p) ==
    \/ c.kind \in {"switch", "upgrade"}
    \/ c.kind = "install" /\ c.key \notin Range(p.json.installed)

\* Files that a command writes and that its integration had not written before:
\* there `write_file_and_record` overwrites whatever it finds.
Replaced(c, p) ==
    {f \in Files : /\ SetsUp(c, p) /\ f \in Ships[c.key][c.rel]
                   /\ c.kind = "upgrade" => p.man[c.key][f] = Absent}

\* However a command without --force ends, a modified file keeps its content:
\* `uninstall` and `switch` leave it in place, `upgrade` stops before it writes.
\* Not so a file that a preset overrides, or that an integration which is set up
\* anew writes too.  (The user may meanwhile undo the modification.)
EditsSurvive ==
    Ended /\ ~ cmd.force =>
        \A f \in Edited(was) \ (PresetFiles(was) \cup Replaced(cmd, was) \cup blind) :
            proj.disk[f] = theirs[f] \/ \E k \in Keys : theirs[f] = was.man[k][f]

\* A modified file that a command left as it was is still known to be modified:
\* the refresh of hashes after registration never makes the user's content the
\* recorded one, so that a later `upgrade` or `uninstall` sees the modification
\* (`unmodified_files` of `_resync_registered_commands`).
EditsStayVisible ==
    Ended =>
        \A f \in Edited(was) \ touched :
            was.disk[f] \in Written /\ proj.disk[f] = was.disk[f] =>
                \A k \in Keys : proj.man[k][f] # proj.disk[f]

Disturbed(f) == f \in touched \cup reported
Gone(f) == proj.disk[f] = Absent \/ Disturbed(f)
AsTracked(k, f) == proj.disk[f] = proj.man[k][f] \/ Disturbed(f)

SetUpAgrees(k, r) ==
    /\ k \in Installed /\ Tracked(proj.man[k]) = Ships[k][r]
    /\ \A f \in Ships[k][r] : AsTracked(k, f) \/ Manifest(k) \in reported

\* A file that the integration set up writes too, or that a preset overrides for
\* the integration that is the default one now.
AlsoShipped(f) == SetsUp(cmd, was) /\ f \in Ships[cmd.key][cmd.rel]
Overridden(f) == Default # None /\ f \in Overrides[Default] /\ proj.disk[f] = Preset

WentAway(k) ==
    /\ k \notin Installed
    /\ proj.man[k] = NoFiles \/ Manifest(k) \in reported
    /\ \A f \in Tracked(was.man[k]) : Gone(f) \/ AlsoShipped(f) \/ Overridden(f)

\* A command that succeeds leaves integration.json, the manifest and the files
\* in agreement: an integration set up tracks exactly what its release ships,
\* with the hashes of what is there; of one that went, and of the old release
\* after `upgrade`, nothing is left that was not reported, but for files that the
\* integration set up writes too and what a preset has put in place of a file.
SuccessAgrees ==
    Ended /\ how = "ok" =>
        /\ IF Installed = {} THEN Default = None ELSE Default \in Installed
        /\ cmd.kind \in {"use", "switch"} => Default = cmd.key
        /\ \A k \in Leavers(cmd, was) : WentAway(k)
        /\ SetsUp(cmd, was) => SetUpAgrees(cmd.key, cmd.rel)
        /\ cmd.kind = "upgrade" =>
              \A f \in Tracked(was.man[cmd.key]) \ Ships[cmd.key][cmd.rel] :
                 Gone(f) \/ (f \in Overrides[cmd.key] /\ proj.disk[f] = Preset)

\* Between commands the external packages on disk, the records that vouch for
\* them and the installed external integrations are the same; otherwise every
\* further command refuses to start (`load_installed_integrations`).
PackagesMatch ==
    pc = "idle" /\ ~ scarred =>
        proj.pkgs = proj.recs /\ proj.recs = Installed \cap External
=============================================================================
