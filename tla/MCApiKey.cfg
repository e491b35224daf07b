\* Four calls of key() by three processes over two containers; see MCApiKey.tla.
CONSTANTS
  c1 = c1
  c2 = c2
  chosen = chosen
  other = other
  Checks <- MCChecks
  Launcher = Launcher
  Settings <- MCSettings
  Unset = Unset
  Absent = Absent
  Empty = Empty
  MaxRuns = 2
  MaxCalls = 4
SPECIFICATION Spec
SYMMETRY CheckSymmetry
INVARIANTS TypeOK KeysAgree
PROPERTY KeyKept
