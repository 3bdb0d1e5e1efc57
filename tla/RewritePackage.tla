--------------------------- MODULE RewritePackage ---------------------------
(***************************************************************************)
(* What tryRewrite and verify (cmd/loopvec-toolexec/compile.go) do with    *)
(* the files of one package: each is rewritten in turn, then the package   *)
(* is type-checked with the rewritten files in place.  Files that cause    *)
(* errors go back to their source, once; if the package still does not     *)
(* check all of it is left alone.                                          *)
(***************************************************************************)
EXTENDS Naturals, FiniteSets

CONSTANTS
  MaxFiles  \* bound: files of the package

(* loops: rewrite.File has something to rewrite; checks: what it writes    *)
(* calls _loopvecOverlap; path: filepath.Abs can name it; fault: what is   *)
(* wrong with what it writes, an error the parser or the type checker      *)
(* reports in the file, or one the checker reports in no file (importing   *)
(* simd, say, from export data it cannot read).                            *)
Fault == {"none", "syntax", "types", "nowhere"}
File == [loops : BOOLEAN, checks : BOOLEAN, path : BOOLEAN, fault : Fault]

ASSUME FilesAssumption == MaxFiles \in Nat

VARIABLES
  files,      \* the files of the package
  i,          \* the file tryRewrite is at
  helper,     \* helperDefined
  rewritten,  \* the files with a rewritten source
  definer,    \* those whose rewritten source defines the helper
  attempt,    \* rounds of verify behind it
  bad,        \* the files the round reports errors in
  failed,     \* whether the round reports an error at all
  verdict     \* "open", then "kept" or "rewritten"

vars == <<files, i, helper, rewritten, definer, attempt, bad, failed, verdict>>
verifyVars == <<attempt, bad, failed>>

N == Cardinality(DOMAIN files)

Init ==
  /\ files \in UNION {[1..n -> File] : n \in 1..MaxFiles}
  /\ i = 1 /\ helper = FALSE /\ rewritten = {} /\ definer = {}
  /\ attempt = 0 /\ bad = {} /\ failed = FALSE
  /\ verdict = "open"

(* A slip: what an earlier file defines is not passed on.                  *)
DefinesItsOwn(f) == files[f].checks

DefinesHelper(f) == files[f].checks /\ ~helper

(* The helper counts as defined even when the file is then passed over for *)
(* want of its absolute path.                                              *)
RewriteFile ==
  /\ verdict = "open" /\ i \in DOMAIN files
  /\ i' = i + 1
  /\ IF ~files[i].loops
     THEN UNCHANGED <<helper, rewritten, definer>>
     ELSE /\ helper' = (helper \/ DefinesHelper(i))
          /\ rewritten' = IF files[i].path THEN rewritten \union {i} ELSE rewritten
          /\ definer' = IF files[i].path /\ DefinesHelper(i) THEN definer \union {i} ELSE definer
  /\ UNCHANGED <<files, verifyVars, verdict>>

NothingToRewrite ==
  /\ verdict = "open" /\ i > N /\ attempt = 0 /\ ~failed /\ rewritten = {}
  /\ verdict' = "kept"
  /\ UNCHANGED <<files, i, helper, rewritten, definer, verifyVars>>

-----------------------------------------------------------------------------
(* One round: the parser first, and the checker only if every file parses. *)
(* A call of a helper nobody defines is an error where it is called, a     *)
(* second definition one where it is defined.                              *)
Unparsed == {f \in rewritten : files[f].fault = "syntax"}
Undefined == IF definer \intersect rewritten = {} THEN {f \in rewritten : files[f].checks} ELSE {}
Redefined == {f \in definer \intersect rewritten : \E g \in definer \intersect rewritten : g < f}
Mistyped == {f \in rewritten : files[f].fault = "types"} \union Undefined \union Redefined
Errors == IF Unparsed # {} THEN Unparsed ELSE Mistyped
Fails == Errors # {} \/ \E f \in rewritten : files[f].fault = "nowhere"

Check ==
  /\ verdict = "open" /\ i > N /\ ~failed
  /\ rewritten # {} \/ attempt > 0
  /\ bad' = Errors /\ failed' = Fails
  /\ verdict' = IF Fails THEN "open" ELSE IF rewritten = {} THEN "kept" ELSE "rewritten"
  /\ UNCHANGED <<files, i, helper, rewritten, definer, attempt>>

(* A slip: what is left after the first round is not checked again.        *)
RevertAndTake ==
  /\ verdict = "open" /\ failed
  /\ rewritten' = rewritten \ bad
  /\ verdict' = IF attempt >= 1 \/ bad = {} THEN "kept" ELSE "rewritten"
  /\ attempt' = attempt + 1 /\ failed' = FALSE /\ bad' = {}
  /\ UNCHANGED <<files, i, helper, definer>>

Revert ==
  /\ verdict = "open" /\ failed
  /\ rewritten' = rewritten \ bad
  /\ verdict' = IF attempt >= 1 \/ bad = {} THEN "kept" ELSE "open"
  /\ attempt' = attempt + 1 /\ failed' = FALSE /\ bad' = {}
  /\ UNCHANGED <<files, i, helper, definer>>

Decided == verdict # "open" /\ UNCHANGED vars

Next == RewriteFile \/ NothingToRewrite \/ Check \/ Revert \/ Decided

Spec == Init /\ [][Next]_vars

-----------------------------------------------------------------------------
(* "The rewritten package still type-checks" (compile.go, compile): what   *)
(* the compiler is handed parses, calls no helper nobody defines, and      *)
(* defines it once, whichever files were reverted or passed over on the    *)
(* way.                                                                    *)
HandsOverWhatChecks ==
  verdict = "rewritten" =>
    /\ \A f \in rewritten : files[f].fault = "none"
    /\ (\E f \in rewritten : files[f].checks) => Cardinality(definer \intersect rewritten) = 1

(* One bad file does not cost the others their loops, unless they need the *)
(* helper it defines: the wrapper leaves a package alone for a reason.     *)
Rewritable == {f \in DOMAIN files : files[f].loops /\ files[f].path}
Faulty == {f \in Rewritable : files[f].fault # "none"}
First == {f \in DOMAIN files : files[f].loops /\ files[f].checks /\ \A g \in 1..f - 1 : ~(files[g].loops /\ files[g].checks)}
KeptForAReason ==
  verdict = "kept" =>
    \/ Rewritable \subseteq Faulty
    \/ \E f \in Faulty : files[f].fault = "nowhere"
    \/ Cardinality({files[f].fault : f \in Faulty}) > 1
    \/ \E f \in First : f \in Faulty \/ ~files[f].path
=============================================================================
