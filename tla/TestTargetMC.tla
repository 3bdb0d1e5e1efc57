---------------------------- MODULE TestTargetMC ----------------------------
(***************************************************************************)
(* Lines of up to four arguments in the directory of a package simd        *)
(* depends on, and with a word for each kind of package.                   *)
(***************************************************************************)
EXTENDS TestTarget

MCNames == [w \in {"fmt", "hash", "TestX"} |->
  CASE w = "fmt" -> "fmt" [] w = "hash" -> "hash" [] OTHER -> NoPackage]
=============================================================================
