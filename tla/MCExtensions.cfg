SPECIFICATION Spec
CONSTANTS
    config = config
    local = local
    early = early
    late = late
    Torn = Torn
    Names <- NamesMC
    Versions <- VersionsMC
    Ships <- ShipsMC
    Declares <- DeclaresMC
    Written <- WrittenMC
    MaxCommands = 4
    MaxEdits = 2
    MaxFaults = 2
SYMMETRY SymmetryMC
INVARIANTS
    TypeOK
    KeptConfigSurvives
    ConfigCarriedOver
    UpdateOutcome
    SuccessIsWhole
