------------------------------- MODULE Bundles -------------------------------
(***************************************************************************)
(* Installing, refreshing and removing bundles of components, and the      *)
(* ownership records that decide what a bundle may remove:                 *)
(* src/specify_cli/bundles/installer.py, records.py and conflict.py.       *)
(*                                                                         *)
(* A command is a sequence of steps, one per component, that may fail or   *)
(* die between any two; only its last step writes bundle-records.json.     *)
(* One command runs at a time.  The user also installs, updates and removes*)
(* components directly, between commands, and upgrades Spec Kit, which     *)
(* ships some of the components itself.  Components of a plan are taken in *)
(* any order, where the code takes them in the order of the manifest.      *)
(***************************************************************************)
EXTENDS Naturals, FiniteSets

CONSTANTS
  Bundle, Component,
  Version,      \* versions of components
  Release,      \* versions of bundles
  Plans,        \* Plans[b]: the install plans bundle b was released with
  Patches,      \* <<v, w>>: v is a newer patch of the same minor version as w
  Packages,     \* Packages[c]: what releases of Spec Kit ship of c, or "none"
  Releases,     \* workflows and steps: a catalog has exactly what is pinned
  Unversioned,  \* presets and extensions whose catalog entry has no version
  Kills,        \* whether a command may die without unwinding
  MaxCommands,  \* bound: commands of the user
  MaxFaults     \* bound: failing steps and deaths

\* A pin, "any" for a component without one, "no" for a component not needed.
Pin == Version \union {"any", "no"}
Plan == [release : Release, needs : [Component -> Pin]]

ASSUME VersionAssumption ==
  /\ Patches \subseteq Version \X Version
  /\ Packages \in [Component -> (SUBSET (Version \union {"none"})) \ {{}}]
  /\ Releases \subseteq Component /\ Unversioned \subseteq Component \ Releases
ASSUME PlanAssumption == Plans \in [Bundle -> SUBSET Plan]
ASSUME NameAssumption ==
  /\ {"any", "no", "none"} \intersect Version = {} /\ "none" \notin Release
ASSUME BoundAssumption ==
  Kills \in BOOLEAN /\ MaxCommands \in Nat /\ MaxFaults \in Nat

VARIABLES
  installed,    \* version of each component in the project, or "none"
  packaged,     \* version of each that the Spec Kit in use ships, or "none"
  records,      \* bundle-records.json; a bundle without a record has NoRecord
  cmd,          \* the command that is running
  independent,  \* components the user installed while no bundle tracked them
  lost,         \* what failed or dead commands left behind
  commands, faults

vars == <<installed, packaged, records, cmd, independent, lost, commands, faults>>

Record == [release : Release \union {"none"}, needs : [Component -> Pin],
           contributed : SUBSET Component]
NoRecord == [release |-> "none", needs |-> [c \in Component |-> "no"],
             contributed |-> {}]
NoPlan == [release |-> "none", needs |-> [c \in Component |-> "no"]]
Idle == [phase |-> "idle", bundle |-> "none", plan |-> NoPlan, refresh |-> FALSE,
         todo |-> {}, done |-> {}, contributed |-> {}]

-----------------------------------------------------------------------------
(* Records *)

Needs(plan) == {c \in Component : plan.needs[c] # "no"}
Recorded(b) == records[b].release # "none"
Others(b) == Bundle \ {b}
Tracked(recs) == UNION {recs[b].contributed : b \in Bundle}
TrackedByOthers(b) == UNION {records[o].contributed : o \in Others(b)}
OtherPins(b, c) == {records[o].needs[c] : o \in Others(b)} \ {"any", "no"}

\* Mutant: what other bundles contributed, not what they require.
StillContributed(b) == TrackedByOthers(b)

StillNeeded(b) == UNION {Needs(records[o]) : o \in Others(b)}

\* Mutant: the heir need not require the component.
TransferAnywhere(recs, released, after) ==
  \E heir \in [released \ Tracked(recs) -> Bundle] :
    after = [b \in Bundle |-> [recs[b] EXCEPT !.contributed =
               @ \union {c \in released \ Tracked(recs) : heir[c] = b}]]

\* A released component that nobody tracks any more goes to one of the bundles
\* that still require it (the first in the file; any of them here).
Transfer(recs, released, after) ==
  LET homeless == {c \in released \ Tracked(recs) :
                     \E b \in Bundle : c \in Needs(recs[b])}
  IN \E heir \in [homeless -> Bundle] :
       /\ \A c \in homeless : c \in Needs(recs[heir[c]])
       /\ after = [b \in Bundle |->
            [recs[b] EXCEPT !.contributed = @ \union {c \in homeless : heir[c] = b}]]

-----------------------------------------------------------------------------
(* Checks before anything is changed *)

\* Mutant: only the components another bundle contributed can clash.
ClashesWithOwners(b, plan) ==
  \E c \in Needs(plan), o \in Others(b) :
    /\ c \in records[o].contributed
    /\ plan.needs[c] \in Version /\ records[o].needs[c] \notin {"no", plan.needs[c]}

\* detect_conflicts(): a pin against the requirement of another bundle.
Clashes(b, plan) ==
  \E c \in Needs(plan), o \in Others(b) :
    plan.needs[c] \in Version /\ records[o].needs[c] \notin {"no", plan.needs[c]}

\* Without refresh, an installed bundle may only gain components.
OnlyGrows(b, plan) ==
  /\ plan.release = records[b].release
  /\ \A c \in records[b].contributed : plan.needs[c] = records[b].needs[c]

\* is_newer_patch()
NewerPatch(v, w) == <<v, w>> \in Patches

\* bundled_patch_warning(): the packaged version stands in for an older pin.
Substitutes(c, v, pin) == v = packaged[c] /\ NewerPatch(v, pin)

PinnedFits(b, plan, refresh, c) ==
  \/ installed[c] \in {"none", plan.needs[c]}
  \/ /\ c \in records[b].contributed \union TrackedByOthers(b)
     /\ Substitutes(c, installed[c], plan.needs[c])
  \/ refresh /\ c \in records[b].contributed /\ c \notin TrackedByOthers(b)

UnpinnedFits(b, refresh, c) ==
  /\ ~(refresh /\ c \in TrackedByOthers(b))
  /\ OtherPins(b, c) # {} =>
       /\ ~(refresh /\ c \in records[b].contributed)
       /\ OtherPins(b, c) = {installed[c]}

\* _check_installed_pins()
PinsFit(b, plan, refresh) ==
  \A c \in Needs(plan) : IF plan.needs[c] = "any" THEN UnpinnedFits(b, refresh, c)
                                                  ELSE PinnedFits(b, plan, refresh, c)

-----------------------------------------------------------------------------
(* install_bundle() *)

Proceeds(phase, todo) ==
  cmd' = [cmd EXCEPT !.phase = phase, !.todo = todo]

\* A command that is refused changes nothing and is not a step.
StartInstall(b, plan, refresh) ==
  /\ cmd = Idle /\ commands < MaxCommands
  /\ ~Clashes(b, plan)
  /\ Recorded(b) /\ ~refresh => OnlyGrows(b, plan)
  /\ PinsFit(b, plan, refresh)
  /\ cmd' = [phase |-> "apply", bundle |-> b, plan |-> plan, refresh |-> refresh,
             todo |-> Needs(plan), done |-> {}, contributed |-> {}]
  /\ commands' = commands + 1
  /\ UNCHANGED <<installed, packaged, records, independent, lost, faults>>

\* Mutant: whatever is installed already becomes part of the bundle.
OwnedIfInstalled(c) == TRUE

\* A component found installed is owned only if some bundle tracks it.
Owned(c) == c \in Tracked(records)

\* Mutant: a packaged component is used whatever its version.
PackageAlways(c) == IF packaged[c] # "none" THEN {packaged[c]} ELSE {cmd.plan.needs[c]}

Unenforced(c) == cmd.plan.needs[c] = "any" \/ c \in Unversioned

\* The versions the component may get.  A packaged one comes first, if it has
\* the version of the pin or is a newer patch; if not, only a workflow turns to
\* its catalog.  A catalog has the release of the pin, or says no versions.
Offered(c) ==
  LET pin == cmd.plan.needs[c]
      usable == packaged[c] # "none" /\ (\/ pin \in {"any", packaged[c]}
                                        \/ Substitutes(c, packaged[c], pin))
  IN IF usable THEN {packaged[c]}
     ELSE IF packaged[c] # "none" /\ c \notin Releases THEN {}
     ELSE IF Unenforced(c) THEN Version ELSE {pin}

\* Nothing satisfies the pin: the command fails before it touches the component.
ApplyRefused(c) ==
  /\ cmd.phase = "apply" /\ c \in cmd.todo
  /\ installed[c] = "none" \/ (cmd.refresh /\ Owned(c))
  /\ Offered(c) = {}
  /\ Proceeds("undo", cmd.done)
  /\ UNCHANGED <<installed, packaged, records, independent, lost, commands, faults>>

ApplyNew(c) ==
  /\ cmd.phase = "apply" /\ c \in cmd.todo /\ installed[c] = "none"
  /\ \E v \in Offered(c) : installed' = [installed EXCEPT ![c] = v]
  /\ cmd' = [cmd EXCEPT !.todo = @ \ {c}, !.done = @ \union {c},
                        !.contributed = @ \union {c}]
  /\ UNCHANGED <<packaged, records, independent, lost, commands, faults>>

ApplyPresent(c) ==
  /\ cmd.phase = "apply" /\ c \in cmd.todo /\ installed[c] # "none"
  /\ IF cmd.refresh /\ Owned(c)
     THEN \E v \in Offered(c) : installed' = [installed EXCEPT ![c] = v]
     ELSE UNCHANGED installed
  /\ cmd' = [cmd EXCEPT !.todo = @ \ {c},
               !.contributed = IF Owned(c) THEN @ \union {c} ELSE @]
  /\ UNCHANGED <<packaged, records, independent, lost, commands, faults>>

\* Installing or refreshing a component fails: before it changed anything, after
\* the old version went, or after the new one was registered.  The component
\* itself is not among those that are rolled back.
ApplyFails(c) ==
  /\ cmd.phase = "apply" /\ c \in cmd.todo /\ faults < MaxFaults
  /\ installed[c] = "none" \/ (cmd.refresh /\ Owned(c))
  /\ Offered(c) # {}
  /\ \E v \in Offered(c) \union {"none", installed[c]} :
       /\ installed' = [installed EXCEPT ![c] = v]
       /\ lost' = IF installed[c] = "none" /\ v # "none" THEN lost \union {c} ELSE lost
  /\ faults' = faults + 1
  /\ Proceeds("undo", cmd.done)
  /\ UNCHANGED <<packaged, records, independent, commands>>

\* A refresh drops what the bundle owned and no longer ships, unless needed.
Applied ==
  /\ cmd.phase = "apply" /\ cmd.todo = {}
  /\ IF cmd.refresh /\ Recorded(cmd.bundle)
     THEN Proceeds("stale", (records[cmd.bundle].contributed \ Needs(cmd.plan))
                            \ StillNeeded(cmd.bundle))
     ELSE Proceeds("save", {})
  /\ UNCHANGED <<installed, packaged, records, independent, lost, commands, faults>>

Uninstall(c) ==
  /\ installed' = [installed EXCEPT ![c] = "none"]
  /\ lost' = lost \ {c} /\ independent' = independent \ {c}

DropStale(c) ==
  /\ cmd.phase = "stale" /\ c \in cmd.todo
  /\ Uninstall(c)
  /\ Proceeds("stale", cmd.todo \ {c})
  /\ UNCHANGED <<packaged, records, commands, faults>>

DropFails(c) ==
  /\ cmd.phase = "stale" /\ c \in cmd.todo /\ installed[c] # "none"
  /\ faults < MaxFaults /\ faults' = faults + 1
  /\ Proceeds("undo", cmd.done)
  /\ UNCHANGED <<installed, packaged, records, independent, lost, commands>>

Dropped ==
  /\ cmd.phase = "stale" /\ cmd.todo = {}
  /\ Proceeds("save", {})
  /\ UNCHANGED <<installed, packaged, records, independent, lost, commands, faults>>

\* Mutant: a failed command keeps what it installed.
UndoNothing(c) ==
  /\ cmd.phase = "undo" /\ c \in cmd.todo
  /\ Proceeds("undo", cmd.todo \ {c})
  /\ UNCHANGED <<installed, packaged, records, independent, lost, commands, faults>>

\* _rollback(): only what this command installed; a failing removal is ignored.
Undo(c) ==
  /\ cmd.phase = "undo" /\ c \in cmd.todo
  /\ Proceeds("undo", cmd.todo \ {c})
  /\ \/ Uninstall(c) /\ UNCHANGED faults
     \/ /\ faults < MaxFaults /\ faults' = faults + 1
        /\ lost' = lost \union {c}
        /\ UNCHANGED <<installed, independent>>
  /\ UNCHANGED <<packaged, records, commands>>

Undone ==
  /\ cmd.phase = "undo" /\ cmd.todo = {}
  /\ cmd' = Idle
  /\ UNCHANGED <<installed, packaged, records, independent, lost, commands, faults>>

NewRecord ==
  [release |-> cmd.plan.release, needs |-> cmd.plan.needs,
   contributed |-> cmd.contributed]

\* The record, the transfer of what a refresh dropped, and one write for both.
Save ==
  /\ cmd.phase = "save"
  /\ LET old == records[cmd.bundle]
         updated == [records EXCEPT ![cmd.bundle] = NewRecord]
         released == IF cmd.refresh /\ Recorded(cmd.bundle)
                     THEN old.contributed \ Needs(cmd.plan) ELSE {}
     IN Transfer(updated, released, records')
  /\ cmd' = Idle
  /\ UNCHANGED <<installed, packaged, independent, lost, commands, faults>>

\* The write is after the handlers that roll back.
SaveFails ==
  /\ cmd.phase = "save"
  /\ faults < MaxFaults /\ faults' = faults + 1
  /\ lost' = lost \union cmd.done
  /\ cmd' = Idle
  /\ UNCHANGED <<installed, packaged, records, independent, commands>>

-----------------------------------------------------------------------------
(* remove_bundle() *)

StartRemove(b) ==
  /\ cmd = Idle /\ commands < MaxCommands /\ Recorded(b)
  /\ cmd' = [Idle EXCEPT !.phase = "remove", !.bundle = b,
               !.todo = records[b].contributed \ StillNeeded(b)]
  /\ commands' = commands + 1
  /\ UNCHANGED <<installed, packaged, records, independent, lost, faults>>

RemoveOne(c) ==
  /\ cmd.phase = "remove" /\ c \in cmd.todo
  /\ Uninstall(c)
  /\ Proceeds("remove", cmd.todo \ {c})
  /\ UNCHANGED <<packaged, records, commands, faults>>

\* The command stops where it is; its record stays and can be removed again.
RemoveFails ==
  /\ cmd.phase = "remove"
  /\ faults < MaxFaults /\ faults' = faults + 1
  /\ cmd' = Idle
  /\ UNCHANGED <<installed, packaged, records, independent, lost, commands>>

Removed ==
  /\ cmd.phase = "remove" /\ cmd.todo = {}
  /\ Transfer([records EXCEPT ![cmd.bundle] = NoRecord],
              records[cmd.bundle].contributed, records')
  /\ cmd' = Idle
  /\ UNCHANGED <<installed, packaged, independent, lost, commands, faults>>

-----------------------------------------------------------------------------
(* The environment *)

\* Ctrl+C or a kill: nothing is rolled back and nothing is recorded.
Killed ==
  /\ Kills /\ cmd # Idle
  /\ faults < MaxFaults /\ faults' = faults + 1
  /\ lost' = lost \union {c \in cmd.done : installed[c] # "none"}
  /\ cmd' = Idle
  /\ UNCHANGED <<installed, packaged, records, independent, commands>>

UserInstalls(c, v) ==
  /\ cmd = Idle /\ commands < MaxCommands /\ commands' = commands + 1
  /\ installed[c] = "none"
  /\ installed' = [installed EXCEPT ![c] = v]
  /\ independent' = IF c \in Tracked(records) THEN independent
                                              ELSE independent \union {c}
  /\ UNCHANGED <<packaged, records, cmd, lost, faults>>

UserUpdates(c, v) ==
  /\ cmd = Idle /\ commands < MaxCommands /\ commands' = commands + 1
  /\ installed[c] # "none"
  /\ installed' = [installed EXCEPT ![c] = v]
  /\ UNCHANGED <<packaged, records, cmd, independent, lost, faults>>

UserRemoves(c) ==
  /\ cmd = Idle /\ commands < MaxCommands /\ commands' = commands + 1
  /\ installed[c] # "none"
  /\ Uninstall(c)
  /\ UNCHANGED <<packaged, records, cmd, faults>>

\* A Spec Kit that ships another version of the component, or none.
UserUpgrades(c, v) ==
  /\ cmd = Idle /\ commands < MaxCommands /\ commands' = commands + 1
  /\ packaged[c] # v
  /\ packaged' = [packaged EXCEPT ![c] = v]
  /\ UNCHANGED <<installed, records, cmd, independent, lost, faults>>

-----------------------------------------------------------------------------
Init ==
  /\ packaged \in {f \in [Component -> Version \union {"none"}] :
                    \A c \in Component : f[c] \in Packages[c]}
  /\ installed = [c \in Component |-> "none"]
  /\ records = [b \in Bundle |-> NoRecord]
  /\ cmd = Idle
  /\ independent = {} /\ lost = {} /\ commands = 0 /\ faults = 0

ComponentStep(c) ==
  \/ ApplyNew(c) \/ ApplyPresent(c) \/ ApplyRefused(c) \/ ApplyFails(c)
  \/ DropStale(c) \/ DropFails(c) \/ Undo(c) \/ RemoveOne(c) \/ UserRemoves(c)
  \/ \E v \in Version : UserInstalls(c, v) \/ UserUpdates(c, v)
  \/ \E v \in Packages[c] : UserUpgrades(c, v)

Next ==
  \/ \E b \in Bundle :
       StartRemove(b) \/ \E plan \in Plans[b], r \in BOOLEAN : StartInstall(b, plan, r)
  \/ \E c \in Component : ComponentStep(c)
  \/ Applied \/ Dropped \/ Undone \/ Save \/ SaveFails
  \/ RemoveFails \/ Removed \/ Killed

Spec == Init /\ [][Next]_vars

-----------------------------------------------------------------------------
(* Properties *)

\* Every variable has its type.
TypeOK ==
  /\ installed \in [Component -> Version \union {"none"}]
  /\ packaged \in [Component -> Version \union {"none"}]
  /\ records \in [Bundle -> Record]
  /\ cmd = Idle \/
     cmd \in [phase : {"apply", "stale", "save", "undo", "remove"}, bundle : Bundle,
              plan : Plan \union {NoPlan}, refresh : BOOLEAN,
              todo : SUBSET Component, done : SUBSET Component,
              contributed : SUBSET Component]
  /\ independent \subseteq Component /\ lost \subseteq Component
  /\ commands \in 0..MaxCommands /\ faults \in 0..MaxFaults

\* load_records() accepts what was saved: every bundle requires what it
\* contributed, also after components were handed from one bundle to another.
RecordsLoad == \A b \in Bundle : records[b].contributed \subseteq Needs(records[b])

\* Only one version can be installed per component, so no two recorded bundles
\* pin it to different versions, whatever order they were installed,
\* refreshed and removed in.
PinsAgree ==
  \A b, o \in Bundle, c \in Component :
    {records[b].needs[c], records[o].needs[c]} \subseteq Version
      => records[b].needs[c] = records[o].needs[c]

\* Nothing is orphaned: a component in the project is the user's own, or some
\* recorded bundle tracks it and removing that bundle removes it, or it is
\* left from a command that died or could not undo.
NoOrphans ==
  cmd = Idle => \A c \in Component : installed[c] # "none" =>
                  c \in Tracked(records) \union independent \union lost

\* No collateral: what the user installed while no bundle tracked it is never
\* changed or removed by a bundle command.
IndependentUntouched ==
  [][cmd # Idle => \A c \in independent : installed'[c] = installed[c]]_vars

\* What a bundle asks of a component: its pin exactly, or in its place the newer
\* patch that Spec Kit ships.  Where the catalog says no versions it asks nothing.
Meets(c, v, pin) ==
  \/ pin \in {"no", "any"} \/ c \in Unversioned
  \/ v = pin \/ Substitutes(c, v, pin)

\* A command on one bundle, as long as nothing fails, takes no component from
\* another bundle, and moves none to a version that other bundle does not accept:
\* neither its pin nor a newer packaged patch.  What the command itself had just
\* added may go again.
RequirementsKept ==
  [][cmd # Idle /\ faults' = faults =>
       \A c \in Component \ cmd.done, o \in Others(cmd.bundle) :
         installed[c] # "none" /\ installed'[c] # installed[c] =>
           IF installed'[c] = "none" THEN records[o].needs[c] = "no"
           ELSE Meets(c, installed'[c], records[o].needs[c])]_vars

\* When a record is written, everything the bundle requires is in the project,
\* and in a version that is acceptable to that bundle and to every other recorded
\* bundle that requires the component.
RecordedMeansInstalled ==
  [][cmd.phase = "save" /\ cmd' = Idle /\ faults' = faults =>
       \A c \in Needs(cmd.plan) :
         /\ installed[c] # "none"
         /\ Meets(c, installed[c], cmd.plan.needs[c])
         /\ \A o \in Others(cmd.bundle) :
              Meets(c, installed[c], records[o].needs[c])]_vars

\* A command that fails without dying takes back what it installed, unless the
\* removal itself fails.
FailureRollsBack == [][cmd.phase = "save" => lost' = lost]_vars
=============================================================================
