CONSTANTS
  MaxFiles = 3
SPECIFICATION Spec
INVARIANTS
  HandsOverWhatChecks
  KeptForAReason
