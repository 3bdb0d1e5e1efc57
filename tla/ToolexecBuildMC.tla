-------------------------- MODULE ToolexecBuildMC --------------------------
(***************************************************************************)
(* A small instance of ToolexecBuild.  simd imports fmt and fmt strconv;   *)
(* text depends on them, hash and crypto/md5 do not; the external test of  *)
(* strconv imports text and hash.                                          *)
(***************************************************************************)
EXTENDS ToolexecBuild

MCPackages == {"strconv", "fmt", "simd", "text", "hash", "crypto/md5", "main", "strconv_test"}
MCImports == [p \in MCPackages |->
  CASE p = "fmt" -> {"strconv"}
    [] p = "simd" -> {"fmt"}
    [] p = "text" -> {"fmt"}
    [] p = "crypto/md5" -> {"hash"}
    [] p = "main" -> {"text", "crypto/md5"}
    [] p = "strconv_test" -> {"strconv", "text", "hash"}
    [] OTHER -> {}]

Main == [pkg |-> "main", for |-> NoPackage]
StrconvTest == [pkg |-> "strconv_test", for |-> "strconv"]

Build(roots, crypto, mode) ==
  [roots |-> roots, tests |-> {}, crypto |-> crypto, visible |-> TRUE, mode |-> mode]
Testing(roots, visible) ==
  [roots |-> roots, tests |-> {"strconv"}, crypto |-> FALSE, visible |-> visible, mode |-> "plain"]

(* Builds of every mode, one without LOOPVEC_TOOLEXEC_CRYPTO, and a test   *)
(* the wrapper is told of or not.                                          *)
MCEnvironments ==
  {Build({Main}, TRUE, mode) : mode \in Modes}
  \union {Build({Main}, FALSE, "plain")}
  \union {Testing({StrconvTest}, visible) : visible \in BOOLEAN}
=============================================================================
