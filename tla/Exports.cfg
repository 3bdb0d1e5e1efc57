CONSTANTS
  Processes = {"p", "q", "r"}
  NoProcess = "nobody"
  Config <- MCConfig
  Listed = {"a", "b", "v/a"}
  Faults = {"open", "list", "append", "kill"}
SPECIFICATION FairSpec
INVARIANTS
  ReadsItsImports
  FindsEveryImport
  LooksUpOnce
PROPERTIES
  AllReturn
