CONSTANTS
  Packages <- MCPackages
  Imports <- MCImports
  Simd = "simd"
  NoPackage = NoPackage
  Crypto = {"crypto/md5"}
  Loops = {"text", "hash", "crypto/md5", "strconv"}
  Environments <- MCEnvironments
  Faults = {}
  Edited = {}
  MaxBuilds = 2
SPECIFICATION Spec
INVARIANT CryptoLeftAlone
