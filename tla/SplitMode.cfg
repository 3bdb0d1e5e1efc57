CONSTANTS
  Packages <- MCPackages
  Files <- MCFiles
  Systems <- MCSystems
  Host = "linux"
  AnySystem = AnySystem
  Modes = {"split", "write", "print"}
  Faults = {"kill", "fail"}
  MaxRuns = 3
SPECIFICATION Spec
INVARIANTS
  ScalarBuilds
  SimdBuilds
  SourceKept
  SimdWhole
