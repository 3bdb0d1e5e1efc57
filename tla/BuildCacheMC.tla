---------------------------- MODULE BuildCacheMC ----------------------------
(***************************************************************************)
(* Small instances of BuildCache: three processes that call at most twice. *)
(* They are given in the configurations.                                   *)
(***************************************************************************)
EXTENDS BuildCache
=============================================================================
