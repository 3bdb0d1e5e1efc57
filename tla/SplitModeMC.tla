---------------------------- MODULE SplitModeMC ----------------------------
(***************************************************************************)
(* Packages of three files, and the ways loopvec is run on them.           *)
(***************************************************************************)
EXTENDS SplitMode

MCFiles == {"a", "b", "c"}
MCSystems == {"linux", "darwin"}

Declares == [f \in MCFiles |-> f]
Anywhere == [f \in MCFiles |-> AnySystem]
Silent == [f \in MCFiles |-> "nothing"]

Plain(loops, checks, own, late) ==
  [order |-> <<"a", "b", "c">>, declares |-> Declares, loops |-> loops, checks |-> checks,
   own |-> own, on |-> Anywhere, mention |-> Silent, late |-> late]

(* Every choice of the files with loops, with overlap checks, and with     *)
(* constraints of their own; files come later where no loop needs the      *)
(* helper.                                                                 *)
Existing ==
  {Plain(loops, checks, own, {}) : loops \in SUBSET MCFiles, checks \in SUBSET MCFiles, own \in SUBSET {"a", "b"}}
Growing == {Plain(loops, {}, {}, late) : loops \in SUBSET MCFiles, late \in SUBSET {"b", "c"}}

(* a_linux.go and b_darwin.go, each with its version of one function.      *)
PerSystem == [Plain({"a", "b", "c"}, {}, {}, {}) EXCEPT
                !.declares["b"] = "a", !.on["a"] = "linux", !.on["b"] = "darwin"]

(* A file that has the text of the constraint in a string.                 *)
Mentioning == [Plain({"a", "b"}, {"b"}, {}, {"c"}) EXCEPT !.mention["a"] = "tag"]
MCPackages == {p \in Existing : p.checks \subseteq p.loops} \union Growing \union {PerSystem, Mentioning}
=============================================================================
