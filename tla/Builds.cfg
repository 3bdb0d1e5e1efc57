CONSTANTS
  Packages <- MCPackages
  Imports <- MCImports
  Simd = "simd"
  NoPackage = NoPackage
  Crypto = {"crypto/md5"}
  Loops = {"text", "hash", "crypto/md5", "strconv"}
  Environments <- MCEnvironments
  Faults = {"skip", "testtarget", "exports"}
  Edited = {"text"}
  MaxBuilds = 2
SPECIFICATION Spec
INVARIANTS
  NoImportCycle
  LinksUnlessUntold
  LinksFromCache
  ProtectsVariants
  RegroupsOnRequest
