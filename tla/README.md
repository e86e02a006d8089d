# A verification project for Specify CLI

TLA+ models of the stateful core of `src/src/specify_cli` (Specify CLI, a command
line tool that installs agent integrations, extensions, presets, bundles and
workflows into a project, and runs workflows there), their TLC configurations, and
proofs of their main properties that TLAPS checks. Paths below are relative to the
repository, whose package is `src/specify_cli/`.

## 1. The system

Everything the tool keeps is a file below `.specify/` of a project. There is no
daemon: a command starts, reads files, changes them and ends. What makes it hard is
that a command may fail, be interrupted by Ctrl+C or be killed between any two of its
writes, that the next command starts from whatever is then on disk, and that a
workflow run has threads.

| Component | State it keeps | Operations | Interacts with | What is hard | Correct means |
|---|---|---|---|---|---|
| Workflow runner (`workflows/_execution.py`) | execution tree in memory | run, step, replay, expand, iterate, bind, finish, settle, fan_out | run state (a checkpoint per transition), step implementations, process capture | threads, failed checkpoints, Ctrl+C, resume from any checkpoint | order, no repeat, replayed context, frozen expansion, no worker left behind |
| Run state and engine (`workflows/engine.py`) | `state.json`, `inputs.json`, `log.jsonl` | save, append_log, load, execute, resume | runner | two files per checkpoint, poisoned instances, the closing save | stored trees load, status agrees with the tree, silence after a failure |
| Composition (`workflows/composition.py`) | the definition bound in the tree | bind, rebind, evaluate outputs | runner | calls that are retried keep their definition | frozen binding |
| Bundle installer (`bundles/installer.py`, `records.py`, `conflict.py`) | `bundle-records.json`, installed components | install, refresh, remove, rollback, transfer | component installers | shared components, failures midway, a record written last | nothing orphaned, nothing taken from others, the user's own untouched |
| Component installers (`bundles/primitives.py`) | registries of extensions, presets, workflows, steps | install, refresh, remove | bundle installer; other processes that run `workflow step add` and `remove` | a step is saved under a lock, reinstalled outside it and restored under it again | registry and packages agree; a failed refresh leaves the old step |
| Process capture (`integrations/_capture.py`) | `_active`, `_cancelling`, process groups | run_captured, cancel_captures | fan-out, signal handlers | registration races cancellation, timeouts race Ctrl+C, helpers hold pipes | no stopped process lives on, complete output |
| Integrations (`integrations/_lifecycle.py`, `manifest.py`, `installer.py`, `_helpers.py`, `command_*.py`) | agent files, a manifest of hashes per agent, `integration.json`, packages and their records, the journal of one command | install, uninstall, use, switch, upgrade; announce, write, roll back | presets (overrides of an agent's commands), every writer of agent files | a failure at any write, a rollback that must not overwrite others' changes, hashes refreshed after registration | a failed command is undone or reported, the user's edits survive and stay visible, manifests, files and records agree |
| Extensions (`extensions/__init__.py`, `_command_update_transaction.py`, `command_*.py`) | package directory, kept and staged configuration, `.registry`, `extensions.yml`, rendered commands | add, add --force, remove, remove --keep-config, update, enable, disable | active integration, hooks | many files and no transaction but for `update`; what one failed command leaves the next starts from | configuration that was promised is never lost, an update ends old or new, success leaves every place in agreement |
| Presets (`presets/_manager.py`, `_manager_commands.py`, `_registry.py`, `_resolver.py`, `command_*.py`) | packages, `.registry`, the command files of the agents they were written for | add, add --force, remove, update, enable, disable, set-priority | agents come and go under them (integrations); bundle installer | layers composed by priority, agents that are no longer active, a winner written for an agent its preset never saw | what an agent finds is what the stack resolves to, every file has an owner |
| Overlays, catalogs, expressions | files read | resolve, merge, evaluate | runner, installers | version order | pure functions: equal to a reference definition |
| Events, MCP server, command line, downloads | settings files, none | write, spawn, parse | user | file formats and network | out of scope here |

`PROJECT.json` lists all nineteen parts with their files and, under `hazards`, every
place found so far where this code can go wrong in a way a test would hardly reach.

## 2. Modules

```
WorkflowExecution   runner, run state, engine      --refines-->  RunLifecycle
  MCSequential, MCFanOut          instances for TLC
  WorkflowExecution_proofs        theorems about what a checkpoint stores
  WorkflowRunner_proofs           theorems about the runner's frames, pools and checkpoints
Bundles             bundle installer and records
  MCBundles, Bundles_proofs
Capture             captured processes, fan-out and cancellation around them
  MCCapture, Capture_proofs
Extensions          one extension: its files, registry entry, hooks and commands
  MCExtensions, Extensions_proofs
Integrations        agent integrations: files, manifests, state, packages, journal
  MCIntegrations, Integrations_proofs
Presets             the stack of presets and the command files it gives the agents
  MCPresets, Presets_proofs
Steps               custom workflow steps under their lock, and a bundle's refresh of one
  MCSteps, Steps_proofs
```

### WorkflowExecution

A run is a tree of step occurrences. The constants `Node`, `Kind`, `Parent`, `Slot`
and `Pos` describe every occurrence that may come to exist: a branch not taken or an
iteration not reached is a slot that is never selected. `tree` is the execution tree
of the code (`phase`, `result`, `outcome`, `active`, the selected children, whether a
call is bound), `disk` is `state.json`. Recursion is one control frame per occurrence:
`pc[n]` says where the call of `step()` for `n` stands and `res[n]` what it returns or
raises. `main[n]` says on which sort of thread the frame runs, `pool` is the thread
pool of a fan-out.

| Code | Actions |
|---|---|
| `Execution.run`, `run_children` | `Turn`, `Enters`, `SlotOpen`, `ChildrenCompleted`, `ChildrenStopped` |
| `Execution.step` | `Replay`, `ReplayAborted`, `Begin`, `Leave` |
| `Execution.execute_step` | `Execute`, `Reenter`, `Expand`, `Iterate` |
| `Execution.workflow` | `Bind`, `BindFails`, `Rebind`, `EnterBound`, `Outputs`, `EvaluateOutputs` |
| `Execution.finish` | `Finish`, `Settle` |
| `Execution.transition`, `RunState.save` | `Transition`, `Save`: refuse, or change memory and write |
| `Execution.notify`, `RunState.append_log` | `Notify` |
| `Execution.fan_out`, `_shutdown_workers` | `StartItem`, `ReturnItem`, `Collect`, `Drained` |
| `execute`, `resume`, `_execute_steps` | `Start`, `Resume`, `Setup`, `RootReturns`, `RootInterrupt`, `Close`, `GivesUp` |

`CheckNode` is `check_node()`, applied where the code applies it: on the candidate of
a transition, and on the whole tree by `load()`. A write ends in one of five ways
(`Writes`): it succeeds, fails before `state.json` was replaced ("lost") or after it,
when `inputs.json` fails ("half"), or Ctrl+C arrives before or after the replacement.
What the implementation of a step does is an answer out of `Answers`.

Abstracted: names, values and expressions (a condition is a choice), authored
definitions (the tree of occurrences stands for them), the log file apart from the
event and its order, `updated_at` and error texts.

### RunLifecycle

What `state.json` promises to its readers: the diagram of `RunStatus`, and a set of
completed occurrences that grows in order. `ImplementsLifecycle` is the refinement, with
`status <- disk.status` and `done <-` the occurrences stored as done.

### Bundles

`installed` is the project, `records` is `bundle-records.json`, `packaged` what the
Spec Kit in use ships itself, `cmd` the command that is running with what it still has to
do. The checks of `install_bundle()` are the guard of `StartInstall`; then one action per
component, in any order, and `Save`, which writes the record and transfers released
components in one write. Failures may strike a component before, within or after its
change (`ApplyFails`), a removal, a rollback (`Undo`) and the write (`SaveFails`);
`Killed` is Ctrl+C or a kill. Between commands the user installs, updates and removes
components, and upgrades Spec Kit to one that ships others (`UserUpgrades`); those actions
are external. `independent` and `lost` are history: what the user installed by hand, and
what dead or failed commands left.

A bundle's pin does not always decide the version. What Spec Kit ships comes before the
catalog: it is used if it has the pinned version, or a newer patch of it (`Substitutes`,
with a warning), and if it has neither, a preset, extension or step is refused
(`ApplyRefused`) while a workflow turns to its catalog. Catalog entries of presets and
extensions need not say a version, and then nothing enforces the pin (`Unenforced`).
`Offered` is what a component may get, `PinnedFits` what is accepted where it is
installed already, and `Meets` what the properties may therefore promise. A component
taken as a newer patch under one Spec Kit need not be one under the next, which is why
these two are asked of every command anew.

### Capture

`run_captured()` step by step for every capture of every thread: `Spawn`, `Register`,
`StartReaders`, `Wait`, `Join`, `Check`, `Kill`, `Reap`, `Grace`, `Close`. Around it
stand the fan-out that runs captures on worker threads and `cancel_captures()`
(`OpenBlock`, `KillTarget`, `AllKilled`, `CloseBlock`). A process may end, start
helpers in its group or detached from it, or run for ever. Bytes are abstracted to
whether the readers have seen the end; on Windows the job object takes the place of
the group.

### Extensions

The places an extension lives in are the state: its directory `live`, the staging
directory in which a reinstall keeps rescued configuration, the `.backup` of a removal,
the copy an update saves, the registry entry, the hooks and the rendered commands. A
command is a sequence of steps on them, named by `pc`; an error, a Ctrl+C or the end of
the process may come at every step, and what is then on disk is what the next command
starts from. A removal or a copy that stops half way leaves any part of the directory
(`Remains`, `Partial`). The content of a configuration file is the release whose default
it is, or a value the user wrote.

| Code | Actions |
|---|---|
| `install_from_directory` | `Add`, `LoadIgnore`, `Rescue`, `Restage`, `Stage`, `Wipe`, `Copy`, `Restore`, `Reseat`, `Render`, `RegisterHooks`, `Unback`, `Commit`, `Tidy`, `Unseal`, `Unstage`; its handlers: `StagingFails`, `CopyFails`, `RegistrationFails`, `RetireHooks`, `RetireFiles`, `RetireMark`, `CleanupFails` |
| `ExtensionManager.remove` | `Remove`, `Unregister`, `Strip`, `MarkKept`, `BackUp`, `Delete`, `Unhook`, `Deregister` |
| `scaffold_config` | `Scaffold` |
| `run_update_command` | `Update`, `Save`, `Fetch`, `RestoreConfig`, `RestoreMetadata`, `Mute`, `Discard`; its rollback: `Raise`, `Drop`, `UndoDirectory`, `UndoCommands`, `UndoHooks`, `UndoRegistry`, `Undone`, `RollbackFails` |
| `extension_enable`, `extension_disable` | `Enable`, `Disable`, `Switch`, `Rerender`, `RerenderFails`, `Flip` |

`owed` is history: the configuration the program has said it keeps (`remove
--keep-config`, or the message of a refused install), with the edits the user has made
to it since.

### Integrations

Integrations may write the same files: Codex, Antigravity and Zed all write
`.agents/skills/speckit-*/SKILL.md`, and `switch` and `install --force` allow any two in one
project. `Ships` and `Overrides` are therefore any sets of files.

`proj` is the project on disk: the content of each file (which stands for its hash), the
manifests, `integration.json`, packages with their records, and the overrides the preset
registry names. A command is a list of operations (`todo`) that `Install`, `Uninstall`,
`Use`, `Switch`, `SwitchToInstalled` and `Upgrade` put together as the code does, from
what is on disk when it starts. With external packages in the project, or on the way
into it, the command runs in a transaction (`owns`): each operation is announced, done,
and noted (`Announce`, `Perform`), a path somebody else wrote meanwhile is refused
(`Refuse`), and an exception rolls the journal back (`RollBack`, `RollBackFails`). Built-in
integrations alone have no transaction: install and switch clean up (`CleanUp`), the
other commands leave what they have done.

| Code | Definitions |
|---|---|
| `_transaction`, `_FileJournal.observe`, `_restore_snapshots` | `Begin`, `Announce`, `Remember`, `Refused`, `LeftAlone`, `Conflicts`, `Restored`, `RollBack`, `RollBackFails` |
| `IntegrationManifest` | `PutOp`, `SaveManifest`, `Modified`, `TearDown`, `Modifies`, `Vain` |
| `_snapshot_manifest_before_registration`, `_resync_manifest_after_registration` | `TakeSnapshot`, `Rehash`, `Adopts` |
| `command_install.py`, `_uninstall`, `_use`, `_switch`, `_upgrade` | `Install`, `Uninstall`, `Use`, `Switch`, `SwitchToInstalled`, `Upgrade`, `CleanUp` |
| `persist_package`, `remove_package`, `load_installed_integrations` | `Persist`, `Forget`, `Loads` |
| `_register_presets_for_agent`, `_unregister_presets_for_agent` | `Register`, `Unregister`, `AfterFailure` |

Between commands and while one runs, somebody else may write the same files (`Edit`,
`EditMeanwhile`). `theirs` is history: what each file would hold without the command's own
writes. `blind` are the files written in the moment between the check before a write and
the write, which no program can see, and those whose new content the refresh of hashes
takes for the command's own.

### Presets

`reg` is the preset registry, `dir` the package directories. `out[a][c]` is agent `a`'s
file of command `c`: the layers its content is made of, the top one first, where `Core` is
the command that Spec Kit brings. `Enabled` in the order of `Sorted` is
`list_by_priority()`, `Layers` and `Resolve` are `collect_all_layers()` and
`resolve_content()`. A command is a list of operations
(`todo`), composed when it begins, as in `Integrations`; an operation may raise or the
process may end before, within or after it.

| Code | Definitions |
|---|---|
| `install_from_directory` and its handlers | `AddPreset`, `Adds`, `Registers`, `Rendered`, `RollsBack` |
| `remove`, `preset_update` | `RemovePreset`, `Removes`, `Names`, `WrittenFor` |
| `_reconcile_composed_commands`, `_merge_pack_registered_commands` | `Reconciles`, `Repaired`, `HaveDirectory`, `Owns`, `Tracks` |
| `register_enabled_presets_for_agent`, `unregister_agent_artifacts` | `Rescaffolds`, `Unregisters` |
| `preset_enable`, `preset_disable`, `preset_set_priority` | `Enable`, `Disable`, `SetPriority`, `Restack` |
| `integration install`, `uninstall`, `use`, `switch`, as far as presets go | `Install`, `Uninstall`, `Use`, `Switch`, `Leaves`, `Heirs` |
| exceptions, Ctrl+C, kills | `Partly`, `Raises`, `Fails`, `Dies` |

`stale` is history: the files a failed command may have left out of date, and those of
a command that says it leaves the agents' files as they are (`enable`, `disable`,
`set-priority`). `lost` is history: the files failures left without an owner. What the
integration commands do when their own steps fail is the matter of `Integrations`; here
only the operations of presets within them raise.

### Steps

`dir` and `reg` are the package directories and `step-registry.json`; `lock` is the file
lock. Each process runs one command at a time, `pc` says where it stands, `doc` is the
registry it has read. Waiting for the lock is an action that is enabled when the lock is
free (`Lockable`); taking it reads the registry again (`Document`).

| Code | Actions |
|---|---|
| `install_step_package`, `_replace_install` | `Add`, `LockInstall`, `Clear`, `Publish`, `Register`, `Unpublish`, `InstallFails` |
| `_remove_step_locked`, `workflow_step_remove` | `Remove`, `LockRemove`, `Unregister`, `RemoveDirectory`, `Reregister`, `RemoveFails` |
| `_StepKindManager.refresh` | `Refresh`, `Save`, `Install`, `LockRestore`, `Wipe`, `Copy`, `Enter`, `RestoreFails` |
| `_step_install_transaction` | `Lockable`, `Lock`, `Unlock`, `Document` |
| Ctrl+C, the end of a process, a lock or download that fails | `Dies`, `FailsOutside` |

Ids may differ by case only (`Alias`): the code refuses the second of two. `scar` is
history: the steps a reported failure or a death has damaged and no command has mended
since. `seen` is history: what other processes did to a step since a refresh saved it.

## 3. Runs

| Run | Instance | States | What it shows |
|---|---|---|---|
| `sequential` | a branch step, then a tolerant call whose body is a loop and a step; three processes, one fault, one Ctrl+C | 419 472 | `NeverRefused`, `StatusMatchesTree`, `ResumePoint`, `ContextRestored`, `NoRepeat`, `FrozenExpansion`, `LogFollowsCheckpoint`, and the refinement |
| `fan_out` | three items, two threads, a step after them; two processes, one fault, one Ctrl+C | 1 191 183 | `StoredTreeLoads`, `PoolDiscipline`, `AbortIsFinal`, `PoisonSilences` |
| `fan_out_ends` | the same, one process, fair | 35 541 | `RunsEnd` |
| `bundles` | two bundles, three components, one of them in both, one packaged in another version, one without versions; five plans, six commands, two faults | 1 579 726 | `RecordsLoad`, `PinsAgree`, `NoOrphans`, `IndependentUntouched`, `RequirementsKept`, `RecordedMeansInstalled` |
| `capture` | a step of the main thread and two workers, with and without timeouts; one Ctrl+C, fair | 106 648 | `StoppedIsGone`, `CompleteOutput`, `NoneEscapes`, `CapturesEnd` |
| `extensions` | one extension in two releases, the second with other configuration files; four commands, two edits, two faults | 6 119 232 | `KeptConfigSurvives`, `ConfigCarriedOver`, `UpdateOutcome`, `SuccessIsWhole` |
| `integrations` | a built-in integration whose second release drops a file, another that shares the file it keeps, an external one that shares the file it drops, a preset that overrides that file; three commands, two writes by others, two faults, four of all together | 2 631 136 | `FailedIsUndone`, `EditsSurvive`, `EditsStayVisible`, `SuccessAgrees`, `PackagesMatch` |
| `presets` | three presets that replace, compose and do both, two commands, one of Spec Kit, two agents; four commands, two faults | 1 500 278 | `StackInEffect`, `NothingOrphaned` |
| `steps` | two processes, three ids two of which differ by case, two versions; three commands, two faults, fair | 482 412 | `StepsSound`, `RefreshOutcome`, `CommandsEnd` |
| `bundle_save_fails` | as `bundles`, no kill | | a failing write of the records rolls nothing back (`FailureRollsBack` is violated) |
| `capture_escape` | one capture of the main thread | | Ctrl+C between handler and kill leaves the process running (`NothingOutlives` is violated) |
| `extension_reconcile` | as `extensions`, with the user who follows the message of a refused install | | the configuration the message has them prepare is lost (`ReconciledSurvives` is violated) |

The last three are disagreements between the code and what its documentation says;
`findings` in `PROJECT.json` quotes the lines.

`TypeOK` is run for `Extensions`, `Integrations` and `Presets`. It is a theorem for all
modules (section 4), and so is `InOrder` of `WorkflowExecution`.

Every passing property has a mutant, an operator that changes a modelled definition
the way a plausible bug would, and TLC finds the property violated under it.

### Bounds, and why they are enough

- `MaxAttempts` 3: a run, a resume of what it left, and a resume of what a resume left.
  A checkpoint is the only thing that passes between processes, so a fourth process
  starts from a state of the same sort as the third.
- `MaxFaults` 1, `MaxInterrupts` 1: together they give a failed write while Ctrl+C
  unwinds, and a failure in one process after an interrupt in another. The proofs hold
  for any number.
- Three items on two threads: the smallest fan-out in which the window moves and an
  item waits outside it. Two root steps, two branches and two iterations are the
  smallest with something before, something after and something not selected.
- Six commands and two faults on two bundles: install both, refresh one, fail, remove
  both and repeat; what the user does, an upgrade of Spec Kit too, counts as a command.
  Shared ownership needs two bundles, a transfer needs three commands, a packaged patch
  that one bundle accepts and another does not needs an upgrade between them. Three
  versions: one pinned, its newer patch, and the next minor version. The three components
  are one of each sort: versions packaged and pinned, none advertised, a workflow.
- Three captures on three threads and one Ctrl+C: one that registers before the
  snapshot, one after it, and the main thread's own.
- Four commands on one extension with two faults: a removal that keeps configuration,
  a failed installation, a second failed one that starts from what the first left, and
  one that succeeds. Two configuration files are the smallest number of which one can be
  restored and the other not. Two releases, because `update` needs a later one.
- Three commands, two writes and two faults on three integrations, four inputs in all
  (`MaxCommands`, `MaxEdits`, `MaxFaults`, `MaxInputs`): install two and switch, upgrade or
  uninstall with a write or a fault before or in between. A command starts from the disk
  alone, so what a fourth finds is of the same sort. Three integrations, because each of
  two sorts of sharing, a file kept and a file dropped, needs a partner. A fault during a
  rollback is not counted.
- Three commands on three steps with two faults, in two processes: one that is held up
  between its locks while the other process finishes a second and begins a third, and a
  restoration that fails after the reinstallation did. `Before` is what is installed at
  first; two versions, for an old one and a new one.
- Four commands on three presets with two faults: two presets that come in either order,
  an agent that changes, and a removal after it; or a failure, and a command that starts
  from what it left. Three presets are the smallest stack with a layer above and one below
  a layer that composes; two priorities allow a tie, which the id decides. Five commands
  with one fault hold as well.
- Named in the guards: a second Ctrl+C while a pool drains (`Interrupt`), and a Ctrl+C
  inside the `finally` of `run_captured()`, are left out. One bundle command at a time.
  One process works on a run at a time.

`extensions` and `integrations` use symmetry of the contents a user may write
(`SymmetryMC`): they occur in the constants only as the whole set `Written`. Elsewhere
the nodes of the trees, the bundles and the threads differ. `Rest` of `Extensions`,
`Integrations`, `Presets` and `Steps` is the project between commands; it is possible only
then, so deadlock is checked in these four. It is not checked in the others, because a run and
a capture end and the bounds run out; that nothing waits for ever is `RunsEnd`,
`CapturesEnd` and `CommandsEnd`.

### Fairness

`FairSpec` of `WorkflowExecution` is weak fairness of the steps of the frames, of
`RootReturns`, `Close` and `GivesUp`: implementations return, the operating system
schedules threads, and the engine goes on to its next statement. Nothing is assumed of
the user, of failures or of kills, and nothing makes a run be resumed. `FairSpec` of
`Capture` is weak fairness of each thread; with it the clock that ends a timed wait.
Processes owe nothing: `CapturesEnd` holds although a process may never end.
`FairSpec` of `Steps` is weak fairness of each process's own next statement. Weak is
enough for the lock although another process may take it first: commands are finitely
many, and a process that fails or dies releases it.

## 4. Proofs

All theorems hold for every value of the constants, under the named assumptions of the
modules (the constants form a tree, plans are well-formed, bounds are numbers), which
TLC evaluates in every run. Each `_proofs` module proves one inductive invariant
(`IInv`, or `RInv` and `SInv` on top of it) and derives its properties from it.

**WorkflowExecution_proofs.** None of the properties is inductive alone. `StoredTreeLoads`
speaks of the disk, but the disk is copied from memory, so both trees must be sound;
that they stay so when `transition()` checks only the one node it replaces is
`ReplaceIsSound`: a node that is done is never replaced, so no other check is
disturbed. `InOrder` needs that a frame is entered only behind finished steps and that
done stays done (`FramedAt`, `Behind`). `NoRepeat`, `FrozenExpansion` and
`AbortIsFinal` compare the disk with the next disk; they follow because the disk is
never ahead of memory (`Ahead`) and a record only moves along `Advances`. Two lemmas
carry the twenty-two actions: `TransitionKeeps` for those that write a checkpoint,
successful or not, and `MoveKeeps` for those that only move a frame. Proved:
`TypeCorrect`, `EveryStoredTreeLoads`, `ProgressIsInOrder`, `CompletedIsNotRepeated`,
`ExpansionIsFrozen`, `AbortStays`, `PoisonedIsSilent`.

**WorkflowRunner_proofs** goes on from there with the frames, whose relations need a second
invariant, `RInv == IInv /\ Walks`; TLC checked it on all states of the two instances
(419 472 and 1 191 183) before it was proved. That a busy frame has an owner that waits
for it is `Attended`, and that a sequence is entered in order `Ordered`. "Nothing below
a returned root step is busy" would be an induction over the tree, which these provers
cannot do; `Grounded` says instead that no set of frames hangs together by itself, which
one step keeps and from which `AllQuiet` follows at once. `Placed` ties the place of a
frame to the phase of its record, so that `transition()` is only ever asked for what
`check_node()` and the table of phases allow (`NeverRefused`); `Gathered` and `Pooled`
are what a container and a fan-out know of the children they collected; `Laid` holds of
the tree in memory and of the one on disk, so that a resume from any checkpoint starts
inside the invariant; `Reached`, `Staged` and `Noted` are about the root index, the
status at each stage of a process and the event owed for a checkpoint. Proved:
`RInvHolds`, `NothingIsRefused`, `StatusIsTrue`, `IndexSplitsTheRun`,
`ContextIsRestored`, `WindowsHold`, `EventsFollowCheckpoints`, and the refinement:
`RunImplementsLifecycle`.

**Bundles_proofs.** `NoOrphans` is only about the moments between commands; within one
the invariant must say who will answer for a component (`Accounted`): a record, the
user, a failure, or the command that is still able to undo it. `IndependentUntouched`
needs that no record ever names a component of the user (`IndependentSound`),
`RequirementsKept` and `RecordedMeansInstalled` need that the checks made at the start
still hold when their component's turn comes (`Fits`), since only that component
changes. Of a component that was applied `Suits` keeps what the properties end with:
that its version is acceptable to this bundle and to every other one, by its pin or as a
newer packaged patch; nothing in a command changes what is packaged. `TransferKeeps` is
the lemma about the transfer of ownership. Proved: `TypeCorrect`, `SavedRecordsLoad`,
`RecordedPinsAgree`, `NothingIsOrphaned`, `IndependentIsUntouched`,
`RequirementsAreKept`, `RecordsTellTheTruth`: every property of the run, for any
bundles, plans, commands and failures.

**Capture_proofs.** The invariant states what each place of `run_captured()` knows of
its process, and that while a cancellation is open every active capture is killed, in
the snapshot, or about to look. Proved: `TypeCorrect`, `StoppedCapturesAreGone`,
`CompleteResultsAreComplete`, `CancellationMissesNothing`.

**Steps_proofs.** `StepsSound` is about the moments when nobody holds the lock; within,
the invariant says what the holder knows of its step (`HeldBy`): that the registry it
read is still the registry, that no alias is there, and, place by place, which of entry
and package is there. Everybody else's knowledge may be out of date, and nothing is
asked of it. `Whole` is the first half of the property for the steps the holder does not
work on, `Distinct` the second half. `InsideKeeps` and `OutsideKeeps` say that a step of
the holder, and of a process outside the lock, disturbs nobody else's part; the
twenty-odd actions then need only their own. `RefreshOutcome` compares the step with what a
refresh saved under an earlier use of the lock. `KnownAt` says, place by place and also
between the uses, what it still knows, given what it has `seen`. `OwnStepKnows` and
`OwnFaultKnows` are its own moves. `OthersKnow` is the interference of everybody else: a
process outside the lock changes no step (`Local`), and one inside changes its own only and
shows what it is now (`Tells`). Proved: `TypeCorrect`, `StepsAreSound`, `RefreshesEndWell`,
for any number of processes, commands and failures.

**Extensions_proofs.** A command is a sequence of steps between which anything may fail, so
its properties need to know at every step where the user's configuration is. `Kept` says
it for what `remove --keep-config` left: in the directory under its marker, or in a
complete staging directory, or, once the install has wiped the directory, in staging and
in memory both. `BackedUp` says it for a reinstall, whose removal has moved it to the
backup; `Carried` says that it is back in the directory when the command has committed.
`Undoable` is what the rollback of an update rests on: nothing is changed before the copy
is made, and directory, commands, hooks and registry become again what they were, in
the order of the handlers. `Agreed` says how far entry, hooks and commands have come;
`Routed` and `Formed` which steps which command takes, and where the package is whole.
TLC checked the invariant on 6 119 232 states first. `ReconciledSurvives` is not proved: the
code violates it (section 3). Proved: `IInvHolds`, `TypeCorrect`, `KeptConfigIsSafe`,
`ConfigIsCarriedOver`, `UpdatesEndWell`, `SuccessMeansWhole`: every property of the run,
for any files, releases, commands and failures.

**Integrations_proofs.** A command is a list of operations, put together when it starts
and done long after, while others write the same files; so the invariant is about what is
left of the list, what is known of each file, and how the two fit. It has these parts.

- *The journal.* `Known4` says what it knows of a file: of one it was not told of, that it
  holds what others left there; of one announced, that its copy is that content; of one
  written, that whoever wrote it last can be told from `written`. `SameBut` says the
  metadata outside the journal is as it was. `FailedIsUndone` follows when `Restored`
  goes over the journal, whole or in part. Assumed of the constants: no content a user
  writes is the hash of one the tool writes (`ContentAssumption`).
- *The list.* `Fitting` says that each operation left suits the command's integration and,
  without `--force`, `Spares` the files the user had modified (`Precious`): writes go to
  files of an integration that is new or unmodified, removals compare hashes. Excepted are
  the files that an integration set up anew writes too (`Replaced`) and those of presets.
  `Newcomer`, `Revives` and `Routed` carry this over to a clean-up, which works for two
  integrations at once. `Confined` is that the manifest of an integration in the making
  names only its own files, so that the clean-up deletes no others.
- *The user's files.* `Spared` is `EditsSurvive` at every step, with `Checked` for the
  moment between the check and the removal. `Visible` is `EditsStayVisible` at every step:
  a refresh of hashes still to come stands behind a look at the manifest or behind the
  command's own write (`Sighted`, `Shielded`), so what it takes over is harmless.
- *The packages.* `Destined` says what packages, records and `integration.json` will be
  when the list is done: the keys that come and go do not overlap, and the last write of
  `integration.json` names exactly the packages there will be. Every command is put
  together so (`Charted`), each operation keeps it (`DestinedOnward`), and outside a
  transaction there are no packages at all (`Local`). `Matching` is `PackagesMatch` with
  this in between.

- *Success.* `SInv`, on top of `IInv`, says what the operations left will make of each
  file, manifest and of `integration.json`. `Naming`: it names what the command is to
  end with, or a write of it is still to come, and the last one does. `Clearing`: every
  operation left is `Apt`, so nothing that went comes back and nothing set up goes; what
  goes is gone, reported, or its removal is still on the list. `Building`: a file shipped
  is set down with its hash in memory, or will be: the removals of an integration that goes
  come before the write (`Overwrites`), behind each overlay stands a refresh of its hash
  (`Led`), and behind each refresh a save of the manifest. A file that goes may be one that
  presets now override for the integration that stays (`Heir`, `Overlaid`). When the
  list is empty, this is `SuccessAgrees` (`DoneIsConcord`). `WorkHas` and `WorkLed` carry
  it over a step, also one that gives up a registration and the operations after it
  (`Onward`). Each command's list is put together from parts that are `Tidy`, or become
  so when joined with what follows them (`PartsJoin`, `InstallStarts` to `UpgradeStarts`).

TLC checked each part of `IInv` and of `SInv` on the run's 2 631 136 states. Two things
that seem obvious are not true and so not stated. A removed integration may leave a file
behind unreported: one that the integration set up writes too, or in whose place a preset
has put its own content. And a modified file may be overwritten without `--force`: see
section 5. `ContentAssumption` states that the content of a preset, or of a torn file, is
not taken for no file at all.

That `SetToSeq`, `SubSeq`, `\o` and `RemoveFirst` give lists of the right operations is
`SetToSeqIn`, `FromIn`, `ConcatElements`, `RemoveFirstIn` and the lemmas after them.
Proved: `IInvHolds`, `TypesHold`, `FailuresAreUndone`, `EditsSurviveHolds`,
`EditsStayVisibleHolds`, `PackagesMatchHolds`, `SuccessAgreesHolds`: every property of the
run.

**Presets_proofs.** Here too a command is a list of operations, put together when it starts,
and any of them may fail. The invariant says of that list and of the files:

- *The stack.* That finitely many presets with priorities and ids can be put in order at all
  is `SortedExists`; `LayersIn` and `ResolveIn` say of what layers a file is made, and
  `LayersSame` when a change of the registry leaves a name alone.
- *The list* (`Planned`). Removals come before the entry is forgotten, the entry before what
  is recorded in it (`Ordered`, `Recording`, `Entering`), and a registration writes one
  preset's files and then records them (`Blocks`, with what is written so far `InHand`).
- *Owners* (`Owned`). `NothingOrphaned` is about the moments between commands; within one,
  `Tracked` allows the files just written and not yet recorded, and `Dropping` and
  `Forgetting` say that an entry goes only behind the deletion of every file it knows of.
- *Content* (`Stacked`). `Claims` is `StackInEffect` at every step. What an operation may
  change of the stack, or of files it does not finish, is in doubt since the command
  started (`Doubts`); files are written only for an agent the command will put in order
  (`Turned`), and an agent that arrives has been set up (`Arrival`). `Settling` is what
  allows a command to take its doubts back: each name is reconciled for each such agent by
  an operation that nothing after it disturbs (`Coming`), or it is right already (`Settled`).

Each operation keeps this (`PerformHolds`), also one that stops half way or skips those
after it (`FailsHolds`, `DiesHolds`), and each command starts inside it: `Good` and
`GoodJoin` put its list together from parts, and `StartsHold` is the start. TLC checked
the invariant on the run's 1 500 278 states first. The sets of presets, commands and agents
are assumed finite, as a registry is. Proved: `InvariantHolds`, `TypesHold`,
`NothingOrphanedHolds`, `StackInEffectHolds`.

**Only model-checked.** Liveness (`RunsEnd`, `CapturesEnd`, `CommandsEnd`), which needs
ENABLED and is beyond the prover.

## 5. What is not modelled

- Two processes that work on one run, or two bundle commands at once: the code takes no
  lock between processes for either, and the documents speak of one command at a time.
- A Ctrl+C between two bytecodes of one Python statement (`node.clear()` and
  `node.update()` in `transition()`).
- Reuse of process ids by the kernel, and the Windows job object apart from its effect.
- Parsing, prompts, network access, template files, formats of agents' settings. This is
  most of the 84 000 lines: the catalogs, the renderers of forty agents, the parsers of
  manifests and definitions, the MCP server. What changes shared state, and in which
  order, is a small part of them.
- Of bundles: packaged components whose version cannot be read, and installed ones that
  say none (the code warns or refuses); where a component comes from (`source`), settings
  of presets, offline mode; that a refresh of a preset keeps its settings. `NoOrphans` is
  silent about what `lost` excuses: a component that was registered when its installation
  failed (`primitives.py:437`), or that a killed command or a failing write left.
- Of integrations: `specify init` through the transaction, recovery mode and the trust
  store, the shared infrastructure files, `init-options.json`, ownership modes of
  installed skills; `record_existing`; symbolic links. Writing a file and recording its
  hash is one step. Two integration commands at once: built-in integrations take no lock.
  A package is there or not: that `load_installed_integrations` also compares its digests
  with its record (`installer.py:825-827`) is not modelled, so `PackagesMatch` says nothing
  of a package that somebody changed. A manifest whose hashes were refreshed is saved once
  at the end of the list, where the code saves it before a package is stored
  (`_helpers.py:613`). The content of a shared file is that of the release, whoever writes
  it: two integrations that render a template differently are two releases to the model.
- Of extensions: several extensions that share a hook or an alias, events, skills mode.
- Of steps: registry entries that are `null`, registries damaged by hand, symbolic links,
  file systems on which two aliases are one file.
- Of presets: skills mode (`_manager_skills.py`) and the constitution; the layers of
  project overrides and of extensions; aliases; the generic agent; templates and scripts,
  which are resolved when read and are written nowhere; a registry torn by a kill; projects
  older than `init-options.json`. A package directory that a failure left half written or
  half removed is taken for one without a manifest. An agent for which registration raises
  `ValueError` is passed over in silence (`agents.py:1258`), with nothing tracked; in the
  model it raises like any other error.

One document is contradicted beyond the runs of section 3. `docs/integrations/cli.md:512`
says of uninstalling and switching that "Manifest-tracked files you've modified are
preserved automatically". From Codex to Antigravity they are preserved by the teardown
(`command_switch.py:188`) and overwritten by the setup that follows (`base.py:706`), because
both write `.agents/skills`, no `--force` needed. The model does as the code does;
`EditsSurvive` is what is true, and its term `Replaced` is exactly this exception.

Places where the code does less than one would wish, which the models show or the
reading showed, and which no document contradicts:

- *Steps.* A removal that stops half way within a refresh registers the entry again; the
  restoration then takes it for a step installed meanwhile and deletes the copy
  (`primitives.py:745`): a torn package stays registered (`scar`). Ctrl+C between removal
  and reinstallation loses the step and its copy (`primitives.py:789`). A restoration
  brings back a step that another process has removed meanwhile.
- *Capture.* A Ctrl+C deferred while a process fails to start is recorded and not read
  (`_capture.py:464`).
- *Extensions.* A process that ends between the removal of the directory and that of the
  registry entry leaves the configuration in `.backup/<id>` alone, and the next
  `add --force` deletes it. A forced reinstallation that fails after the removal leaves
  the user's configuration there too. A process that ends between the registry entry and
  the cleaning of the staging directory leaves old configuration that a later removal and
  installation bring back. Registry and `extensions.yml` are not written atomically.
- *Integrations.* The fallback of `uninstall` registers presets without refreshing the
  hashes, so that overrides count as modified. A built-in installation that fails deletes
  files of the user it had overwritten; an upgrade that fails leaves a mixture that the
  next one refuses. The refresh of hashes takes over what somebody else wrote (`blind`).
  Where integrations share files, removing one deletes its unmodified files although
  another tracks them too, and an upgrade deletes a file its new release drops although
  another ships it.
- *Presets.* A `preset add` that fails while it writes commands leaves the files written
  so far, with no entry that owns them (`lost`). One that fails when it records them deletes
  them, the overridden command of Spec Kit and a lower preset's file among them, and does
  not reconcile (`presets/_manager.py:456`). A name that no layer provides any more because
  its preset is disabled keeps the preset's file. The first agent that `integration install`
  adds to a project without one gets no presets. All of these stay so until the next
  command that puts the names in order (`stale`). In skills mode, removing a preset that
  composes below another leaves its content in the skill: the directory counts as
  unaffected.
- *Runs.* Ctrl+C during the first save or during the closing one leaves a run recorded as
  running, which `resume` refuses (`engine.py:1192`, `engine.py:1225`).

## 6. Plan

Done: `WorkflowExecution` with `RunLifecycle`, `Bundles`, `Capture`, `Extensions`,
`Integrations` (manifest, journal and the five commands in one module), `Presets` and
`Steps`. Next, in this order:

1. Skills mode of `Presets`: the backup and restoration of skills an override replaces,
   and the constitution, beside the command files.
2. Checked algorithms: resolution order of `presets/_resolver.py`, overlay merge of
   `workflows/overlay/merge.py`, version selection of `bundles/resolver.py`, each against
   a reference definition over bounded inputs.

## 7. Running

```
tlc -workers 2 -config MCSequential.cfg MCSequential.tla
tlapm WorkflowExecution_proofs.tla
```
