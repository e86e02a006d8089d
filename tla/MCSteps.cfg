SPECIFICATION FairSpec
CONSTANTS
    p = p
    q = q
    step = step
    STEP = STEP
    other = other
    v1 = v1
    v2 = v2
    None = None
    Torn = Torn
    Free = Free
    Procs <- ProcsMC
    Ids <- IdsMC
    Alias <- AliasMC
    Versions <- VersionsMC
    Before <- BeforeMC
    MaxCommands = 3
    MaxFaults = 2
INVARIANTS
    StepsSound
    RefreshOutcome
PROPERTIES
    CommandsEnd
