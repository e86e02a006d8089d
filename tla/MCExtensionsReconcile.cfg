SPECIFICATION Spec
CONSTANTS
    config = config
    local = local
    early = early
    late = late
    Torn = Torn
    Names <- NamesMC
    Versions <- VersionsMC
    Ships <- ShipsMC
    Declares <- DeclaresMC
    Written <- WrittenMC
    MaxCommands = 5
    MaxEdits = 2
    MaxFaults = 1
SYMMETRY SymmetryMC
INVARIANTS
    ReconciledSurvives
