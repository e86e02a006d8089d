SPECIFICATION Spec
CONSTANTS
    broad = broad
    narrow = narrow
    external = external
    f1 = f1
    f2 = f2
    g = g
    early = early
    late = late
    Preset = Preset
    Torn = Torn
    None = None
    Keys <- KeysMC
    External <- ExternalMC
    Safe <- SafeMC
    Files <- FilesMC
    Releases <- ReleasesMC
    Ships <- ShipsMC
    Overrides <- OverridesMC
    Written <- WrittenMC
    MaxCommands = 3
    MaxEdits = 2
    MaxInputs = 4
    MaxFaults = 2
SYMMETRY SymmetryMC
INVARIANTS
    TypeOK
    FailedIsUndone
    EditsSurvive
    EditsStayVisible
    SuccessAgrees
    PackagesMatch
