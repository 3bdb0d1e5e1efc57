----------------------------- MODULE SplitMode -----------------------------
(***************************************************************************)
(* loopvec on the files of one package (main.go): a run loads what the     *)
(* scalar build on the host takes, rewrites one file after another and,    *)
(* with -split, writes f_simd.go and then guards f.go, with -w overwrites  *)
(* f.go.  A file is emptied before it is written.  Runs are repeated, files*)
(* are added between them, a write fails or the process is killed.         *)
(***************************************************************************)
EXTENDS Naturals, Sequences

CONSTANTS
  Packages,  \* the packages loopvec may be run on, see Package
  Files,     \* what a package may have, f.go for each f
  Systems,   \* operating systems
  Host,      \* the one loopvec runs on
  AnySystem, \* the constraint of a file whose name ends in no system
  Modes,     \* how it is run, a subset of Mode
  Faults,    \* what may happen, a subset of {"kill", "fail"}
  MaxRuns    \* bound: runs on the package

Mode == {"split", "write", "print"}

(* order is how the files are loaded, by name; declares names the functions*)
(* of each; loops are the files with a loop to rewrite, checks those whose *)
(* loops call _loopvecOverlap; own those with a build constraint of their  *)
(* own, which holds everywhere here; on the system in the file's name;     *)
(* mention what the text mentions before, or outside, its package clause.  *)
Package ==
  [order : Seq(Files), declares : [Files -> Files], loops : SUBSET Files,
   checks : SUBSET Files, own : SUBSET Files, on : [Files -> Systems \union {AnySystem}],
   mention : [Files -> {"nothing", "package", "tag"}], late : SUBSET Files]

(* The package builds before loopvec is run, with the files that come later*)
(* too: no system takes two files that declare the same.                   *)
WellFormed(p) ==
  /\ p \in Package /\ p.checks \subseteq p.loops
  /\ \A x, y \in DOMAIN p.order : p.order[x] = p.order[y] => x = y
  /\ \A f, g \in Files :
       p.declares[f] = p.declares[g] =>
         f = g \/ (p.on[f] # p.on[g] /\ AnySystem \notin {p.on[f], p.on[g]})

ASSUME SplitAssumption ==
  /\ \A p \in Packages : WellFormed(p)
  /\ Host \in Systems /\ AnySystem \notin Systems
  /\ Modes \subseteq Mode /\ Faults \subseteq {"kill", "fail"}
  /\ MaxRuns \in Nat

VARIABLES
  pkg,     \* the package
  disk,    \* what its directory holds, by path: <<f, "go">> or <<f, "_simd.go">>
  mode,    \* how the run under way was started
  loaded,  \* the files it loaded
  k,       \* the one it is at, 0 between runs
  step,    \* what it does next to that file
  helper,  \* helperDefined of processPkg
  result,  \* what it writes: the rewritten file, the guarded source
  runs,    \* runs started
  outcome  \* of the last run: "none", "running", "ok", "error" or "killed"

vars == <<pkg, disk, mode, loaded, k, step, helper, result, runs, outcome>>
processVars == <<mode, loaded, k, step, helper, result, runs, outcome>>

Path == Files \X {"go", "_simd.go"}
Absent == [tag |-> "absent"]
Source == [tag |-> "none", code |-> "scalar", helper |-> FALSE, parses |-> TRUE, whole |-> TRUE]

(* What a write that was stopped leaves of c: nothing, or a beginning.  A  *)
(* constraint comes first, so what parses has it, and one that is cut      *)
(* short itself, goexperiment.si, holds in no build.                       *)
Beginning(c, tag, parses) ==
  [tag |-> tag, code |-> c.code, helper |-> FALSE, parses |-> parses, whole |-> FALSE]
Emptied(c) == Beginning(c, "none", FALSE)
CutShort(c) ==
  {Beginning(c, t, FALSE) : t \in {"none", c.tag} \union (IF c.tag = "simd" THEN {"never"} ELSE {})}
    \union {Beginning(c, t, TRUE) : t \in {c.tag} \ {"none"}}

-----------------------------------------------------------------------------
(* The go command takes a file of the directory when its constraint and    *)
(* the system in its name allow.  No system is in the name f_linux_simd.go.*)
Suits(path, system) == path[2] = "_simd.go" \/ pkg.on[path[1]] \in {system, AnySystem}
Takes(system, simd) ==
  {p \in Path : /\ disk[p] # Absent /\ Suits(p, system)
                /\ disk[p].tag \in {"none", IF simd THEN "simd" ELSE "nosimd"}}

Calls(p) == disk[p].code = "lanes" /\ p[1] \in pkg.checks

(* What it takes compiles: every file parses, no function is declared      *)
(* twice, and the helper once if it is called.                             *)
Compiles(paths) ==
  /\ \A p \in paths : disk[p].parses
  /\ \A p, q \in paths : pkg.declares[p[1]] = pkg.declares[q[1]] => p = q
  /\ \A p, q \in paths : disk[p].helper /\ disk[q].helper => p = q
  /\ \A p \in paths : Calls(p) => \E q \in paths : disk[q].helper

(* It compiles, and nothing the package declares on the system is missing. *)
Builds(system, simd) ==
  /\ Compiles(Takes(system, simd))
  /\ \A f \in Files :
       (disk[<<f, "go">>] # Absent /\ Suits(<<f, "go">>, system)) =>
         \E p \in Takes(system, simd) : disk[p].whole /\ pkg.declares[p[1]] = pkg.declares[f]

-----------------------------------------------------------------------------
Init ==
  /\ pkg \in Packages
  /\ disk = [p \in Path |->
       IF p[2] = "go" /\ p[1] \in {pkg.order[j] : j \in DOMAIN pkg.order} \ pkg.late THEN Source ELSE Absent]
  /\ mode = "print" /\ loaded = {} /\ k = 0 /\ step = "file"
  /\ helper = FALSE /\ result = Absent /\ runs = 0 /\ outcome = "none"

AddFile(f) ==
  /\ k = 0 /\ f \in pkg.late /\ disk[<<f, "go">>] = Absent
  /\ disk' = [disk EXCEPT ![<<f, "go">>] = Source]
  /\ UNCHANGED <<pkg, processVars>>

(* run: GOEXPERIMENT=simd is stripped from the environment, so the scalar  *)
(* files are loaded; a package that does not type-check is passed over.    *)
Start(m) ==
  /\ k = 0 /\ runs < MaxRuns
  /\ runs' = runs + 1 /\ mode' = m
  /\ helper' = FALSE /\ result' = Absent /\ step' = "file"
  /\ LET taken == Takes(Host, FALSE)
     IN IF Compiles(taken)
        THEN loaded' = {p[1] : p \in taken} /\ k' = 1 /\ outcome' = "running"
        ELSE loaded' = {} /\ k' = 0 /\ outcome' = "error"
  /\ UNCHANGED <<pkg, disk>>

Current == pkg.order[k]
AtFile(s) == k \in DOMAIN pkg.order /\ step = s
NextFile == k' = k + 1 /\ step' = "file"

(* A slip: every file that calls the helper defines it.                    *)
DefinesItsOwn == Current \in pkg.checks

(* ensureOverlapHelper: the first file of the run to call it.              *)
DefinesHelper == Current \in pkg.checks /\ ~helper

(* HasBuildConstraint: a file with a constraint is left as it is.          *)
Constrained(f) == f \in pkg.own \/ disk[<<f, "go">>].tag # "none"

(* A slip: a file that has a simd version is taken for done.               *)
RewritableOnce(f) ==
  f \in loaded /\ f \in pkg.loops /\ ~Constrained(f) /\ disk[<<f, "_simd.go">>] = Absent

Rewritable(f) == f \in loaded /\ f \in pkg.loops /\ ~Constrained(f)

PassOver ==
  /\ AtFile("file") /\ ~Rewritable(Current)
  /\ NextFile
  /\ UNCHANGED <<pkg, disk, mode, loaded, helper, result, runs, outcome>>

(* A slip: ensureBuildTag is taken for done.                               *)
UntaggedResult ==
  [tag |-> "none", code |-> "lanes", helper |-> DefinesHelper, parses |-> TRUE, whole |-> TRUE]

RewriteResult ==
  [tag |-> "simd", code |-> "lanes", helper |-> DefinesHelper, parses |-> TRUE, whole |-> TRUE]

RewriteFile ==
  /\ AtFile("file") /\ Rewritable(Current)
  /\ result' = RewriteResult
  /\ helper' = (helper \/ DefinesHelper)
  /\ step' = "write"
  /\ UNCHANGED <<pkg, disk, mode, loaded, k, runs, outcome>>

(* addBuildTag: the constraint goes before the first "package " of the     *)
(* text, and nowhere when the text has that constraint somewhere.  In a    *)
(* comment before the clause it ends the comment there.                    *)
Tagged(f, c) ==
  CASE pkg.mention[f] = "tag" -> c
    [] pkg.mention[f] = "package" -> [c EXCEPT !.parses = FALSE]
    [] OTHER -> [c EXCEPT !.tag = "nosimd"]

(* os.WriteFile empties the file, or creates it, and then writes it.       *)
Writing == step \in {"simd", "go"}
Written == <<Current, IF step = "simd" THEN "_simd.go" ELSE "go">>
Truncate(path, text) ==
  /\ disk' = [disk EXCEPT ![path] = Emptied(text)]
  /\ result' = text
  /\ step' = IF path[2] = "_simd.go" THEN "simd" ELSE "go"
  /\ UNCHANGED <<pkg, mode, loaded, k, helper, runs, outcome>>
Write == disk' = [disk EXCEPT ![Written] = result]

CreateSimd == AtFile("write") /\ mode = "split" /\ Truncate(<<Current, "_simd.go">>, result)

(* A slip: the error of the write is dropped.                              *)
WriteSimdUnchecked ==
  /\ AtFile("simd")
  /\ \E c \in CutShort(result) \union {result} : disk' = [disk EXCEPT ![Written] = c]
  /\ step' = "guard"
  /\ UNCHANGED <<pkg, mode, loaded, k, helper, result, runs, outcome>>

WriteSimd ==
  /\ AtFile("simd") /\ Write
  /\ step' = "guard"
  /\ UNCHANGED <<pkg, mode, loaded, k, helper, result, runs, outcome>>

EmptyOriginal ==
  /\ AtFile("guard")
  /\ Truncate(<<Current, "go">>, Tagged(Current, disk[<<Current, "go">>]))

GuardOriginal ==
  /\ AtFile("go") /\ mode = "split" /\ Write
  /\ NextFile
  /\ UNCHANGED <<pkg, mode, loaded, helper, result, runs, outcome>>

SplitFile == CreateSimd \/ WriteSimd \/ EmptyOriginal \/ GuardOriginal

EmptySource == AtFile("write") /\ mode = "write" /\ Truncate(<<Current, "go">>, result)

WriteBack ==
  /\ AtFile("go") /\ mode = "write" /\ Write
  /\ NextFile
  /\ UNCHANGED <<pkg, mode, loaded, helper, result, runs, outcome>>

OverwriteFile == EmptySource \/ WriteBack

(* -d, or standard output.                                                 *)
PrintResult ==
  /\ AtFile("write") /\ mode = "print"
  /\ NextFile
  /\ UNCHANGED <<pkg, disk, mode, loaded, helper, result, runs, outcome>>

Ends(how) ==
  /\ outcome' = how /\ k' = 0 /\ step' = "file"
  /\ UNCHANGED <<pkg, mode, loaded, helper, result, runs>>

Finish == k = Len(pkg.order) + 1 /\ Ends("ok") /\ UNCHANGED disk

(* A file that cannot be opened stays as it is, one that is being written  *)
(* is left with a beginning; the files that follow are not looked at.      *)
StopsWriting ==
  IF Writing THEN \E c \in CutShort(result) : disk' = [disk EXCEPT ![Written] = c]
  ELSE UNCHANGED disk

WriteFails == "fail" \in Faults /\ k > 0 /\ step # "file" /\ StopsWriting /\ Ends("error")

Kill == "kill" \in Faults /\ k > 0 /\ StopsWriting /\ Ends("killed")

NoRunLeft == k = 0 /\ runs = MaxRuns /\ UNCHANGED vars

Next ==
  \/ \E f \in Files : AddFile(f)
  \/ \E m \in Modes : Start(m)
  \/ PassOver \/ RewriteFile \/ SplitFile \/ OverwriteFile \/ PrintResult
  \/ Finish \/ WriteFails \/ Kill \/ NoRunLeft

Spec == Init /\ [][Next]_vars

-----------------------------------------------------------------------------
(* -w puts the simd version in the place of the source, on purpose.        *)
Overwritten == \E f \in Files : disk[<<f, "go">>] # Absent /\ disk[<<f, "go">>].code = "lanes"

(* "The scalar version builds by default" (README.md): -split keeps it so  *)
(* on every system, in the middle of a run, after a kill and after any     *)
(* number of runs, unless a file that build takes is cut short itself, or  *)
(* addBuildTag cuts a comment short.                                       *)
CutsNoComment == \A f \in Files : pkg.mention[f] # "package"
ScalarBuilds ==
  (CutsNoComment /\ ~Overwritten) =>
    \A s \in Systems : (\A p \in Takes(s, FALSE) : disk[p].whole) => Builds(s, FALSE)

(* "The simd version builds when GOEXPERIMENT=simd is set" (README.md), on *)
(* the system loopvec ran on, once a run has ended well: after a first run *)
(* whatever the mode, and after splits that ended anyhow, with files added *)
(* in between, where no loop needs the helper of an earlier run.  Files    *)
(* that mention what addBuildTag looks for are not guarded as they should. *)
GuardsAll == \A f \in Files : pkg.mention[f] = "nothing"
SimdBuilds ==
  (/\ GuardsAll /\ outcome = "ok" /\ mode # "print"
   /\ runs = 1 \/ (pkg.checks = {} /\ ~Overwritten)) => Builds(Host, TRUE)

(* -split empties a source only with its simd version on the disk, whole:  *)
(* wherever a run is stopped there is a version of every function.         *)
SourceKept ==
  (GuardsAll /\ ~Overwritten) =>
    \A f \in Files :
      (disk[<<f, "go">>] # Absent /\ ~disk[<<f, "go">>].whole) =>
        disk[<<f, "_simd.go">>] # Absent /\ disk[<<f, "_simd.go">>].whole

(* A simd version that was cut short is written again: none is left once a *)
(* run that writes has ended well.                                         *)
SimdWhole ==
  (GuardsAll /\ ~Overwritten /\ outcome = "ok" /\ mode # "print") =>
    \A f \in Files : disk[<<f, "_simd.go">>] # Absent => disk[<<f, "_simd.go">>].whole
=============================================================================
