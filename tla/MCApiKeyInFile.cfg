\* What README.md:46 says of the generated key; see MCApiKey.tla.
CONSTANTS
  c1 = c1
  c2 = c2
  chosen = chosen
  other = other
  Checks <- MCChecks
  Launcher = Launcher
  Settings <- MCSettings
  Unset = Unset
  Absent = Absent
  Empty = Empty
  MaxRuns = 2
  MaxCalls = 4
SPECIFICATION Spec
SYMMETRY CheckSymmetry
INVARIANT GeneratedKeyInFile
