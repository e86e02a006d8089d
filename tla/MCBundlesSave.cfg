SPECIFICATION Spec
CONSTANTS
  a = a
  b = b
  x = x
  y = y
  z = z
  v1 = v1
  v1p = v1p
  v2 = v2
  r1 = r1
  r2 = r2
  Bundle <- MCBundle
  Component <- MCComponent
  Version <- MCVersion
  Release <- MCRelease
  Plans <- MCPlans
  Patches <- MCPatches
  Packages <- MCPackages
  Releases <- MCReleases
  Unversioned <- MCUnversioned
  Kills = FALSE
  MaxCommands = 2
  MaxFaults = 1
PROPERTIES FailureRollsBack
CHECK_DEADLOCK FALSE
