SPECIFICATION Spec
CONSTANTS
    specify = specify
    custom = custom
    a = a
    b = b
    Core = 0
    NoAgent = NoAgent
    Presets <- PresetsMC
    Commands <- CommandsMC
    Base <- BaseMC
    Provides <- ProvidesMC
    Wraps <- WrapsMC
    Agents <- AgentsMC
    First = a
    Priorities <- PrioritiesMC
    MaxCommands = 4
    MaxFaults = 2
INVARIANTS
    TypeOK
    StackInEffect
    NothingOrphaned
