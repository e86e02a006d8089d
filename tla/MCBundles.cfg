SPECIFICATION Spec
CONSTANTS
  a = a
  b = b
  x = x
  y = y
  z = z
  v1 = v1
  v1p = v1p
  v2 = v2
  r1 = r1
  r2 = r2
  Bundle <- MCBundle
  Component <- MCComponent
  Version <- MCVersion
  Release <- MCRelease
  Plans <- MCPlans
  Patches <- MCPatches
  Packages <- MCPackages
  Releases <- MCReleases
  Unversioned <- MCUnversioned
  Kills = TRUE
  MaxCommands = 6
  MaxFaults = 2
INVARIANTS RecordsLoad PinsAgree NoOrphans
PROPERTIES IndependentUntouched RequirementsKept RecordedMeansInstalled
CHECK_DEADLOCK FALSE
