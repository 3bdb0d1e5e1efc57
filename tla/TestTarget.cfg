CONSTANTS
  Words = {"fmt", "hash", "TestX"}
  Names <- MCNames
  NoPackage = NoPackage
  Here = "fmt"
  SkipSet = {"fmt"}
  MaxLine = 4
SPECIFICATION Spec
INVARIANTS
  NoticesNamedTests
  YesForAReason
