--------------------------- MODULE PublicExportsMC --------------------------
(***************************************************************************)
(* Three packages: a second that needs no more than the first, and a third *)
(* that is given a twice, as itself and vendored, and a variant t that     *)
(* nobody lists.                                                           *)
(***************************************************************************)
EXTENDS PublicExports

Compile(imports, provides, map) == [imports |-> imports, provides |-> provides, map |-> map]
MCConfig ==
  [p |-> Compile({"a"}, {"a", "b"}, <<>>),
   q |-> Compile({"b"}, {"b"}, <<>>),
   r |-> Compile({"a"}, {"a", "v/a", "t"}, [x \in {"a"} |-> "v/a"])]
=============================================================================
