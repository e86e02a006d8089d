------------------------------- MODULE Presets -------------------------------
(***************************************************************************)
(* The presets of a project and the command files they give its agents:    *)
(* `specify preset add`, `remove`, `update`, `enable`, `disable`,          *)
(* `set-priority`, and the part that presets have in `integration use`,    *)
(* `switch` and `uninstall`.                                               *)
(*                                                                         *)
(* Enabled presets form a stack, ordered by priority and then by id, above *)
(* the core commands.  What an agent should find under a command's name is *)
(* the top of the stack down to the first layer that replaces what is      *)
(* below.  Only the active agent is written to; a removal also repairs the *)
(* agents the preset was once written for.                                 *)
(*                                                                         *)
(* A command of the tool is a list of operations.  An operation may raise  *)
(* and the process may end before, within or after it.  What integration   *)
(* commands do when their own steps fail is the matter of Integrations.    *)
(* Agents are such as take command files; presets are numbered in the      *)
(* order of their ids.                                                     *)
(***************************************************************************)
EXTENDS Naturals, Sequences, FiniteSets, SequencesExt

CONSTANTS
    Presets,      \* preset ids, positive numbers
    Commands,     \* names of commands
    Core,         \* the layer of the commands that come with Spec Kit
    Base,         \* the commands it has
    Provides,     \* Provides[p]: the commands preset p provides
    Wraps,        \* Wraps[p]: those it composes with what is below
    Agents,       \* agent integrations
    First,        \* the agent the project starts with
    NoAgent,      \* none is active
    Priorities,   \* priorities a preset may be given
    MaxCommands,  \* bound: commands run
    MaxFaults     \* bound: errors, interrupts and kills

ASSUME PresetsAssumption ==
    Presets \subseteq Nat /\ IsFiniteSet(Presets) /\ Core \notin Presets
ASSUME ProvidesAssumption ==
    /\ Base \subseteq Commands /\ IsFiniteSet(Commands)
    /\ Provides \in [Presets -> SUBSET Commands]
    /\ Wraps \in [Presets -> SUBSET Commands]
    /\ \A p \in Presets : Wraps[p] \subseteq Provides[p]
ASSUME AgentsAssumption ==
    First \in Agents /\ NoAgent \notin Agents /\ IsFiniteSet(Agents)
ASSUME BoundsAssumption ==
    Priorities \subseteq Nat \ {0} /\ {MaxCommands, MaxFaults} \subseteq Nat

VARIABLES
    reg,     \* .specify/presets/.registry
    dir,     \* package directories: "none", "whole" or "torn", of no use any more
    out,     \* out[a][c]: the layers in agent a's file of command c, top first
    agents,  \* integrations that are installed
    active,  \* the one recorded in init-options.json
    job,     \* the command that runs, and what it puts in order
    todo,    \* operations left
    made,    \* commands the registration under way has written
    how,     \* how the command goes, or how the last one ended
    stale,   \* history: <<agent, name>>: files nobody says are up to date
    lost,    \* history: files that failures have left without an owner
    count    \* commands and faults so far

vars == <<reg, dir, out, agents, active, job, todo, made, how, stale, lost, count>>
-----------------------------------------------------------------------------
Nowhere == [a \in Agents |-> {}]
NoEntry == [there |-> FALSE, on |-> FALSE, prio |-> 0, cmds |-> Nowhere]
NoJob == [op |-> "none", names |-> {}, at |-> {}]
NoFile == <<>>
CoreFile(c) == IF c \in Base THEN <<Core>> ELSE NoFile

Init ==
    /\ reg = [p \in Presets |-> NoEntry] /\ dir = [p \in Presets |-> "none"]
    /\ out = [a \in Agents |->
                [c \in Commands |-> IF a = First THEN CoreFile(c) ELSE NoFile]]
    /\ agents = {First} /\ active = First
    /\ job = NoJob /\ todo = <<>> /\ made = {} /\ how = "ok"
    /\ stale = {} /\ lost = {}
    /\ count = [commands |-> 0, faults |-> 0]
-----------------------------------------------------------------------------
(* The stack. *)

\* list_by_priority: a lower number first, then the id.
Precedes(p, q) ==
    \/ reg[p].prio < reg[q].prio
    \/ reg[p].prio = reg[q].prio /\ p < q

InOrder(s) == \A i, j \in DOMAIN s : i < j => Precedes(s[i], s[j])
Sorted(S) == CHOOSE s \in SetToSeqs(S) : InOrder(s)

\* Presets that are enabled and have their manifest.
Enabled == {p \in Presets : reg[p].there /\ reg[p].on /\ dir[p] = "whole"}

\* What there is for a command, the highest first.
Layers(c) == Sorted({p \in Enabled : c \in Provides[p]}) \o CoreFile(c)

Replaces(layer, c) == layer = Core \/ c \notin Wraps[layer]

\* The layers down to the first that replaces; none if there is no base.
Resolve(c) ==
    LET replacing == {i \in DOMAIN Layers(c) : Replaces(Layers(c)[i], c)}
    IN  IF replacing = {} THEN NoFile
        ELSE SubSeq(Layers(c), 1, CHOOSE i \in replacing : \A j \in replacing : i <= j)

\* Agents the preset has been written for, and the names concerned by its
\* removal.  The manifest may be gone.
WrittenFor(p) == {a \in Agents : reg[p].cmds[a] # {}}
Names(p) ==
    (UNION {reg[p].cmds[a] : a \in Agents})
    \cup (IF dir[p] = "whole" THEN Provides[p] ELSE {})
-----------------------------------------------------------------------------
(* Operations, and the lists of them that the commands are made of. *)

Each(S, Op(_)) == LET s == SetToSeq(S) IN [i \in 1 .. Len(s) |-> Op(s[i])]

PackageOp(do, p) == [do |-> do, id |-> p]
EnterOp(p, n) == [do |-> "enter", id |-> p, prio |-> n]
AgentOp(do, a) == [do |-> do, agent |-> a]
LeaveOp(a, next) == [do |-> "leave", agent |-> a, next |-> next]
DropOp(p, a) == [do |-> "drop", id |-> p, agent |-> a]

Deletes(p, at) ==
    LET Op(f) == [do |-> "delete", agent |-> f[1], name |-> f[2]]
    IN  Each({f \in at \X Commands : f[2] \in reg[p].cmds[f[1]]}, Op)

Reconciles(names, at) ==
    LET Op(c) == [do |-> "reconcile", name |-> c, at |-> at] IN Each(names, Op)

\* _register_commands, and the registry entry that follows.
Registers(p) ==
    LET Op(c) == [do |-> "write", id |-> p, name |-> c]
    IN  Each(Provides[p], Op) \o <<PackageOp("record", p)>>

\* Mutant: only the active agent is repaired.
RepairedActive(p) == {active}

\* The active agent and all the preset was written for.
Repaired(p) == {active} \cup WrittenFor(p)

Removes(p) ==
    Deletes(p, Agents) \o <<PackageOp("rmdir", p), PackageOp("forget", p)>>
    \o Reconciles(Names(p), Repaired(p))

Adds(p, n) ==
    <<PackageOp("copy", p), EnterOp(p, n)>> \o Registers(p)
    \o Reconciles(Provides[p], {active})

\* register_enabled_presets_for_agent: the lowest preset first, then the stack.
Offered == UNION {Provides[p] : p \in Enabled}
Rescaffolds(a) ==
    LET ranked == Sorted(Enabled)
        Op(i) == Registers(ranked[Len(ranked) + 1 - i])
    IN  FlattenSeq([i \in DOMAIN ranked |-> Op(i)]) \o Reconciles(Offered, {a})

\* unregister_agent_artifacts: disabled presets too.
Unregisters(a) ==
    LET Op(p) == Deletes(p, {a}) \o <<DropOp(p, a)>>
    IN  FlattenSeq(Each({p \in Presets : reg[p].cmds[a] # {}}, Op))

\* The files of `doubt` are in doubt from now on; if all goes well the names are up
\* to date for the agents of `at`.
Begin(op, doubt, names, at, ops) ==
    /\ job.op = "none" /\ count.commands < MaxCommands
    /\ count' = [count EXCEPT !.commands = @ + 1]
    /\ job' = [op |-> op, names |-> names, at |-> at]
    /\ todo' = ops /\ made' = {} /\ how' = "ok"
    /\ stale' = stale \cup doubt
    /\ UNCHANGED <<reg, dir, out, agents, active, lost>>

\* `preset add`; by force in a bundle's refresh.
AddPreset(p, n, force) ==
    LET names == Provides[p] \cup Names(p)
    IN  Begin("add", Agents \X names, names, {active},
              (IF reg[p].there THEN Removes(p) ELSE <<>>) \o Adds(p, n))
        /\ (reg[p].there => force)

\* `preset remove`; `preset update` is this and then AddPreset.
RemovePreset(p) ==
    /\ reg[p].there
    /\ Begin("remove", Agents \X Names(p), Names(p), {active} \cup WrittenFor(p),
             Removes(p))

\* `integration use`, or `switch` to an agent that is there.
Use(a) ==
    /\ a \in agents
    /\ Begin("use", {a} \X Offered, Offered, {a},
             <<AgentOp("activate", a)>> \o Rescaffolds(a))

\* The agent goes; another that is there takes over if it was the active one.
Leaves(a, next) == <<AgentOp("teardown", a)>> \o Unregisters(a) \o <<LeaveOp(a, next)>>
Heirs(a) == IF agents = {a} THEN {NoAgent} ELSE agents \ {a}

\* `switch` to an agent that is not there.
Switch(a) ==
    LET Arrives == <<AgentOp("setup", a), AgentOp("activate", a)>> \o Rescaffolds(a)
    IN  /\ a \notin agents
        /\ IF active = NoAgent
           THEN Begin("switch", {a} \X Offered, Offered, {a}, Arrives)
           ELSE \E next \in Heirs(active) :
                  Begin("switch", ({active} \X Commands) \cup ({a} \X Offered), Offered,
                        {a}, Leaves(active, next) \o Arrives)

\* The first agent becomes the active one, without the presets.
Install(a) ==
    /\ a \notin agents
    /\ Begin("install", {a} \X Offered, {}, {},
             <<AgentOp("setup", a),
               AgentOp(IF active = NoAgent THEN "activate" ELSE "enlist", a)>>)

Uninstall(a) ==
    /\ a \in agents
    /\ \E next \in Heirs(a) :
         IF a = active /\ next # NoAgent
         THEN Begin("uninstall", ({a} \X Commands) \cup ({next} \X Offered), Offered,
                    {next}, Leaves(a, next) \o Rescaffolds(next))
         ELSE Begin("uninstall", {a} \X Commands, {}, {}, Leaves(a, next))

\* These change the registry and leave the files of the agents alone.
Restack(p, entry) ==
    /\ job.op = "none" /\ reg[p].there /\ entry # reg[p]
    /\ count.commands < MaxCommands /\ count' = [count EXCEPT !.commands = @ + 1]
    /\ reg' = [reg EXCEPT ![p] = entry]
    /\ stale' = stale \cup (Agents \X Provides[p]) /\ how' = "ok"
    /\ UNCHANGED <<dir, out, agents, active, job, todo, made, lost>>

Enable(p) == Restack(p, [reg[p] EXCEPT !.on = TRUE])
Disable(p) == Restack(p, [reg[p] EXCEPT !.on = FALSE])

\* Mutant: zero is taken for a priority.
SetPriorityUnchecked(p, n) == Restack(p, [reg[p] EXCEPT !.prio = n - 1])

SetPriority(p, n) == Restack(p, [reg[p] EXCEPT !.prio = n])
-----------------------------------------------------------------------------
(* What the operations do. *)

Put(at, names, content) ==
    out' = [a \in Agents |->
              [c \in Commands |-> IF a \in at /\ c \in names THEN content ELSE out[a][c]]]

\* Preset p knows of the names for the agents `at`.
Tracks(p, at, names) ==
    [reg EXCEPT ![p].cmds =
       [a \in Agents |-> reg[p].cmds[a] \cup IF a \in at THEN names ELSE {}]]

\* Mutant: what reconciliation writes is not entered in the registry.
OwnsNothing(c, at, content) == reg

\* _merge_pack_registered_commands: the winner owns what is written for it.
Owns(c, at, content) ==
    IF content = NoFile \/ Head(content) = Core THEN reg
    ELSE Tracks(Head(content), at, {c})

\* Those of the agents `at` that have a directory: an agent that is gone may have
\* left its own behind.
HaveDirectory(at) ==
    LET HasFile(a) == \E c \in Commands : out[a][c] # NoFile
        certain == {a \in at \cap Agents : a \in agents \/ HasFile(a)}
    IN  {S \in SUBSET (at \cap Agents) : certain \subseteq S}

\* A composed command is written as it resolves if the preset is on top, and as
\* the preset has it otherwise.
Rendered(p, c) ==
    IF c \in Wraps[p] /\ Head(Layers(c)) = p THEN Resolve(c) ELSE <<p>>

Effect(op) ==
    \/ /\ op.do = "copy" /\ dir' = [dir EXCEPT ![op.id] = "whole"] /\ made' = {}
       /\ UNCHANGED <<reg, out, agents, active>>
    \/ /\ op.do = "enter"
       /\ reg' = [reg EXCEPT ![op.id] = [there |-> TRUE, on |-> TRUE, prio |-> op.prio,
                                         cmds |-> Nowhere]]
       /\ UNCHANGED <<dir, out, agents, active, made>>
    \/ /\ op.do = "write"
       /\ LET content == Rendered(op.id, op.name)
          IN  \E at \in IF content = NoFile THEN {{}} ELSE HaveDirectory({active}) :
                 /\ Put(at, {op.name}, content)
                 /\ made' = IF at = {} THEN made ELSE made \cup {op.name}
       /\ UNCHANGED <<reg, dir, agents, active>>
    \/ /\ op.do = "record" /\ reg' = Tracks(op.id, {active}, made) /\ made' = {}
       /\ UNCHANGED <<dir, out, agents, active>>
    \/ /\ op.do = "delete" /\ Put({op.agent}, {op.name}, NoFile)
       /\ UNCHANGED <<reg, dir, agents, active, made>>
    \/ /\ op.do = "drop" /\ reg' = [reg EXCEPT ![op.id].cmds[op.agent] = {}]
       /\ UNCHANGED <<dir, out, agents, active, made>>
    \/ /\ op.do \in {"rmdir", "clear"} /\ dir' = [dir EXCEPT ![op.id] = "none"]
       /\ UNCHANGED <<reg, out, agents, active, made>>
    \/ /\ op.do = "forget" /\ reg' = [reg EXCEPT ![op.id] = NoEntry]
       /\ UNCHANGED <<dir, out, agents, active, made>>
    \/ /\ op.do = "reconcile"
       /\ IF Layers(op.name) = <<>> THEN UNCHANGED <<reg, out>>
          ELSE \E at \in HaveDirectory(op.at) :
                 /\ Put(at, {op.name}, Resolve(op.name))
                 /\ reg' = Owns(op.name, at, Resolve(op.name))
       /\ UNCHANGED <<dir, agents, active, made>>
    \/ /\ op.do = "teardown"
       /\ \E gone \in SUBSET Commands : Put({op.agent}, gone, NoFile)
       /\ UNCHANGED <<reg, dir, agents, active, made>>
    \/ /\ op.do = "leave" /\ agents' = agents \ {op.agent}
       /\ active' = IF active = op.agent THEN op.next ELSE active
       /\ UNCHANGED <<reg, dir, out, made>>
    \/ /\ op.do = "setup" /\ Put({op.agent}, Base, <<Core>>)
       /\ UNCHANGED <<reg, dir, agents, active, made>>
    \/ /\ op.do \in {"enlist", "activate"} /\ agents' = agents \cup {op.agent}
       /\ active' = IF op.do = "activate" THEN op.agent ELSE active
       /\ UNCHANGED <<reg, dir, out, made>>

Perform ==
    /\ todo # <<>> /\ Effect(Head(todo)) /\ todo' = Tail(todo)
    /\ UNCHANGED <<job, how, stale, lost, count>>

\* Files whose preset does not know of them.
Owner(a, c) == Head(out[a][c])
Stray(a, c) ==
    out[a][c] # NoFile /\ Owner(a, c) # Core /\ c \notin reg[Owner(a, c)].cmds[a]
Untracked == {f \in Agents \X Commands : Stray(f[1], f[2])}

\* The command says what is up to date now; a failure leaves files behind.
Done ==
    /\ job.op # "none" /\ todo = <<>> /\ job' = NoJob
    /\ IF how = "ok"
       THEN /\ stale' = (stale \cap (agents \X Commands)) \ (job.at \X job.names)
            /\ lost' = lost \cap Untracked
       ELSE lost' = Untracked /\ UNCHANGED stale
    /\ UNCHANGED <<reg, dir, out, agents, active, todo, made, how, count>>
-----------------------------------------------------------------------------
(* Failures. *)

Fault == count.faults < MaxFaults /\ count' = [count EXCEPT !.faults = @ + 1]

\* What an operation may leave that stops half way.
Partly(op) ==
    \/ /\ op.do = "copy" /\ dir' = [dir EXCEPT ![op.id] = "torn"]
       /\ UNCHANGED <<reg, out, agents, active>>
    \/ /\ op.do \in {"rmdir", "clear"} /\ dir[op.id] # "none"
       /\ dir' = [dir EXCEPT ![op.id] = "torn"]
       /\ UNCHANGED <<reg, out, agents, active>>
    \/ /\ op.do = "reconcile" /\ Layers(op.name) # <<>>
       /\ \E at \in SUBSET (op.at \cap Agents) : Put(at, {op.name}, Resolve(op.name))
       /\ UNCHANGED <<reg, dir, agents, active>>
    \/ UNCHANGED <<reg, dir, out, agents, active>>

\* The operations from the first one on that is not of the kinds K.
From(s, K) ==
    LET others == {i \in DOMAIN s : s[i].do \notin K}
    IN  IF others = {} THEN <<>>
        ELSE SubSeq(s, CHOOSE i \in others : \A j \in others : i <= j, Len(s))

Ends(outcome) == todo' = <<>> /\ how' = outcome

\* What install_from_directory undoes: the commands, if their registration had
\* returned, the package and the entry.
RollsBack(op) ==
    LET Op(c) == [do |-> "delete", agent |-> active, name |-> c]
    IN  /\ todo' = (IF op.do = "record" THEN Each(made, Op) ELSE <<>>)
                   \o <<PackageOp("clear", op.id), PackageOp("forget", op.id)>>
        /\ how' = "failed"

\* An exception: reported as a warning where the code goes on, else as an error.
Raises(op) ==
    \/ /\ op.do = "reconcile"
       /\ todo' = From(todo, {"reconcile"}) /\ how' = "warned" /\ made' = made
    \/ /\ op.do \in {"write", "record"} /\ made' = {}
       /\ IF job.op = "add" THEN RollsBack(op)
          ELSE /\ todo' = IF op.do = "record" THEN Tail(todo)
                          ELSE Tail(From(todo, {"write"}))
               /\ how' = "warned"
    \/ /\ op.do \in {"delete", "drop"} /\ made' = made
       /\ IF job.op \in {"add", "remove"} THEN Ends("failed")
          ELSE todo' = From(todo, {"delete", "drop"}) /\ how' = "warned"
    \/ /\ op.do \in {"copy", "enter", "rmdir", "forget"} /\ made' = made /\ Ends("failed")
    \/ op.do = "clear" /\ made' = made /\ todo' = Tail(todo) /\ how' = "failed"

Fails ==
    /\ todo # <<>> /\ Fault
    /\ Partly(Head(todo)) /\ Raises(Head(todo))
    /\ UNCHANGED <<job, stale, lost>>

\* A kill; of a preset command also Ctrl+C, which no handler there catches.
Dies ==
    /\ job.op # "none" /\ Fault
    /\ IF todo = <<>> THEN UNCHANGED <<reg, dir, out, agents, active>>
       ELSE Partly(Head(todo))
    /\ Ends("dead") /\ made' = {} /\ UNCHANGED <<job, stale, lost>>
-----------------------------------------------------------------------------
Command ==
    \/ \E p \in Presets :
         \/ RemovePreset(p) \/ Enable(p) \/ Disable(p)
         \/ \E n \in Priorities :
              SetPriority(p, n) \/ \E force \in BOOLEAN : AddPreset(p, n, force)
    \/ \E a \in Agents : Use(a) \/ Switch(a) \/ Install(a) \/ Uninstall(a)

Rest == job.op = "none" /\ UNCHANGED vars

Next == Rest \/ Command \/ Perform \/ Done \/ Fails \/ Dies

Spec == Init /\ [][Next]_vars
-----------------------------------------------------------------------------
(* Properties. *)

Entry ==
    [there : {TRUE}, on : BOOLEAN, prio : Priorities, cmds : [Agents -> SUBSET Commands]]

\* The registry has valid entries or none, and every file is a stack of layers.
TypeOK ==
    /\ reg \in [Presets -> Entry \cup {NoEntry}]
    /\ dir \in [Presets -> {"none", "torn", "whole"}]
    /\ out \in [Agents -> [Commands -> Seq(Presets \cup {Core})]]
    /\ agents \subseteq Agents /\ active \in Agents \cup {NoAgent}
    /\ job.names \subseteq Commands /\ job.at \subseteq Agents \cup {NoAgent}
    /\ made \subseteq Commands /\ how \in {"ok", "warned", "failed", "dead"}
    /\ (stale \cup lost) \subseteq Agents \X Commands
    /\ count \in [commands : 0..MaxCommands, faults : 0..MaxFaults]

\* After any sequence of commands, what an agent finds under a command's name is
\* what the stack of enabled presets makes of it, in whatever order the presets
\* came and went, also for the agents a removed preset was once written for.
\* Names with no layer left are NothingOrphaned's concern; in doubt are those a
\* failed command has touched, and those of a command that says it leaves the
\* agents' files alone (enable, disable, set-priority).
StackInEffect ==
    job.op = "none" =>
        \A a \in agents, c \in Commands :
            Layers(c) # <<>> => <<a, c>> \in stale \/ out[a][c] = Resolve(c)

\* A file with a preset's content belongs to a preset that is installed and knows
\* of it, so that removing the preset, or the agent, takes the file along; except
\* for what failures leave.
NothingOrphaned == job.op = "none" => Untracked \subseteq lost
=============================================================================
