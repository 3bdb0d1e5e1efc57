------------------------ MODULE RewritePackageProofs ------------------------
(***************************************************************************)
(* Theorems about RewritePackage for packages of any number of files: what *)
(* the compiler is handed checks, and what is left alone is for a reason.  *)
(***************************************************************************)
EXTENDS RewritePackage, FiniteSetTheorems, WellFoundedInduction, TLAPS

(* A nonempty set of naturals has a least element: the first file that     *)
(* calls the helper.                                                       *)
LEMMA LeastNatural == ASSUME NEW S \in SUBSET Nat, S # {} PROVE \E x \in S : \A y \in S : x <= y
<1> DEFINE R == OpToRel(<, Nat)
<1>1. IsWellFoundedOn(R, Nat)
  BY NatLessThanWellFounded
<1>2. \A x, y \in S : y < x => <<y, x>> \in R
  BY DEF OpToRel
<1> HIDE DEF R
<1>3. PICK x \in S : \A y \in S : <<y, x>> \notin R
  BY <1>1, WFMin
<1>4. \A y \in S : ~(y < x)
  BY <1>2, <1>3, Zenon
<1> QED
  BY <1>4

(* The files before the one tryRewrite is at.                              *)
Seen == {f \in DOMAIN files : f < i}
CallsHelper(f) == files[f].loops /\ files[f].checks

TypeOK ==
  /\ \E n \in Nat : files \in [1..n -> File] /\ N = n
  /\ i \in 1..(N + 1) /\ helper \in BOOLEAN /\ failed \in BOOLEAN
  /\ attempt \in 0..2 /\ verdict \in {"open", "kept", "rewritten"}

(* Who defines the helper: the first file seen that calls it, if it has a  *)
(* path.                                                                   *)
DefinerInv ==
  /\ helper <=> \E f \in Seen : CallsHelper(f)
  /\ definer = {f \in Seen : CallsHelper(f) /\ files[f].path /\ \A g \in Seen : CallsHelper(g) => f <= g}

(* The errors a round would report were these files rewritten.             *)
ErrorsIn(R) ==
  LET unparsed == {f \in R : files[f].fault = "syntax"}
      undefined == IF definer \intersect R = {} THEN {f \in R : files[f].checks} ELSE {}
  IN IF unparsed # {} THEN unparsed ELSE {f \in R : files[f].fault = "types"} \union undefined

(* What is still rewritten: every file seen that can be, less, after a     *)
(* round that failed, those it reported.                                   *)
RoundInv ==
  /\ rewritten \subseteq {f \in Seen : f \in Rewritable}
  /\ attempt = 0 => rewritten = {f \in Seen : f \in Rewritable}
  /\ attempt > 0 => i = N + 1
  /\ (attempt = 1 /\ verdict # "rewritten") => rewritten = Rewritable \ ErrorsIn(Rewritable)
  /\ attempt = 2 => verdict # "open"
  /\ failed => i = N + 1 /\ verdict = "open" /\ bad = Errors /\ Fails

Inv == TypeOK /\ DefinerInv /\ RoundInv /\ HandsOverWhatChecks /\ KeptForAReason

-----------------------------------------------------------------------------
(* A package has files 1 to N.                                             *)
LEMMA FilesOf ==
  ASSUME NEW n \in Nat, files \in [1..n -> File]
  PROVE  N = n
<1>1. DOMAIN files = 1..n
  OBVIOUS
<1> QED
  BY <1>1, FS_Interval DEF N

(* At most one file defines the helper, so no round reports a second one.  *)
LEMMA OneDefiner ==
  ASSUME TypeOK, DefinerInv
  PROVE  /\ definer \subseteq Nat
         /\ \A f, g \in definer : f = g
         /\ Redefined = {}
<1>1. PICK n \in Nat : files \in [1..n -> File] /\ N = n
  BY DEF TypeOK
<1>2. definer \subseteq 1..n
  BY <1>1 DEF DefinerInv, Seen
<1>3. \A f, g \in definer : f <= g /\ g <= f
  BY DEF DefinerInv
<1>4. \A f, g \in definer : f = g
  BY <1>2, <1>3
<1>5. \A f, g \in definer : ~(g < f)
  BY <1>2, <1>4
<1>6. Redefined = {}
  BY <1>5 DEF Redefined
<1> QED
  BY <1>2, <1>4, <1>6

LEMMA ErrorsAre ==
  ASSUME TypeOK, DefinerInv
  PROVE  Errors = ErrorsIn(rewritten)
  BY OneDefiner DEF Errors, Mistyped, Unparsed, Undefined, ErrorsIn

LEMMA InvInit == Init => Inv
<1> SUFFICES ASSUME Init PROVE Inv
  OBVIOUS
<1>1. PICK n \in 1..MaxFiles : files \in [1..n -> File]
  BY DEF Init
<1>2. n \in Nat /\ N = n
  BY <1>1, FilesOf
<1>3. TypeOK
  <2>1. \E m \in Nat : files \in [1..m -> File] /\ N = m
    BY <1>1, <1>2
  <2>2. i \in 1..(N + 1)
    BY <1>2 DEF Init
  <2>3. /\ helper \in BOOLEAN /\ failed \in BOOLEAN
        /\ attempt \in 0..2 /\ verdict \in {"open", "kept", "rewritten"}
    <3>1. helper = FALSE /\ failed = FALSE /\ attempt = 0 /\ verdict = "open"
      BY DEF Init
    <3>2. helper \in BOOLEAN /\ failed \in BOOLEAN
      BY <3>1, Zenon
    <3>3. attempt \in 0..2 /\ verdict \in {"open", "kept", "rewritten"}
      BY <3>1
    <3> QED
      BY <3>2, <3>3
  <2> QED
    BY <2>1, <2>2, <2>3, Zenon DEF TypeOK
<1>4. Seen = {}
  BY <1>1 DEF Init, Seen
<1> QED
  BY <1>3, <1>4, <1>2 DEF Init, Inv, DefinerInv, RoundInv, HandsOverWhatChecks, KeptForAReason

-----------------------------------------------------------------------------
(* One more file is rewritten.                                             *)
LEMMA RewriteFileKeeps == ASSUME Inv, RewriteFile PROVE Inv'
<1> USE DEF Inv
<1>1. PICK n \in Nat : files \in [1..n -> File] /\ N = n
  BY DEF TypeOK
<1>2. files' = files /\ N' = N /\ i' = i + 1 /\ i \in 1..n /\ Seen' = Seen \union {i} /\ Rewritable' = Rewritable
  BY <1>1 DEF RewriteFile, N, Seen, TypeOK, Rewritable
<1>3. attempt = 0 /\ verdict = "open" /\ ~failed
  BY <1>1, <1>2 DEF RoundInv, RewriteFile, TypeOK
<1>4. UNCHANGED <<attempt, bad, failed, verdict>>
  BY DEF RewriteFile, verifyVars
<1>5. TypeOK'
  <2>1. helper' \in BOOLEAN
    BY <1>1, <1>2 DEF RewriteFile, TypeOK, DefinesHelper, File
  <2> QED
    BY <2>1, <1>1, <1>2, <1>4 DEF TypeOK
<1>6. DefinerInv'
  <2> USE <1>1, <1>2
  <2>1. \A f \in Seen : f < i /\ f \in 1..n
    BY DEF Seen
  <2>2. helper' <=> helper \/ CallsHelper(i)
    BY DEF RewriteFile, DefinesHelper, CallsHelper, TypeOK, File
  <2>3. definer' = IF CallsHelper(i) /\ ~helper /\ files[i].path THEN definer \union {i} ELSE definer
    BY DEF RewriteFile, DefinesHelper, CallsHelper
  <2>4. helper' <=> \E f \in Seen' : CallsHelper(f)'
    BY <2>2 DEF DefinerInv, CallsHelper
  <2>5. definer' = {f \in Seen \union {i} : CallsHelper(f) /\ files[f].path /\ \A g \in Seen \union {i} : CallsHelper(g) => f <= g}
    <3>1. CASE helper
      <4>1. PICK h \in Seen : CallsHelper(h)
        BY <3>1 DEF DefinerInv
      <4>2. ~(i <= h)
        BY <4>1, <2>1
      <4> QED
        BY <4>1, <4>2, <2>1, <2>3, <3>1 DEF DefinerInv
    <3>2. CASE ~helper
      <4>1. \A f \in Seen : ~CallsHelper(f)
        BY <3>2 DEF DefinerInv
      <4>2. definer = {}
        BY <4>1 DEF DefinerInv
      <4> QED
        BY <4>1, <4>2, <2>3, <3>2
    <3> QED
      BY <3>1, <3>2
  <2> QED
    BY <2>4, <2>5 DEF DefinerInv, CallsHelper
<1>7. RoundInv'
  <2>1. rewritten' = {f \in Seen \union {i} : f \in Rewritable}
    BY <1>1, <1>2, <1>3 DEF RoundInv, RewriteFile, Rewritable
  <2> QED
    BY <2>1, <1>2, <1>3, <1>4 DEF RoundInv
<1>8. HandsOverWhatChecks' /\ KeptForAReason'
  BY <1>3, <1>4 DEF HandsOverWhatChecks, KeptForAReason
<1> QED
  BY <1>5, <1>6, <1>7, <1>8

LEMMA NothingToRewriteKeeps == ASSUME Inv, NothingToRewrite PROVE Inv'
<1> USE DEF Inv
<1>1. PICK n \in Nat : files \in [1..n -> File] /\ N = n
  BY DEF TypeOK
<1>2. UNCHANGED <<files, i, helper, rewritten, definer, attempt, bad, failed>> /\ verdict' = "kept" /\ verdict = "open"
  BY DEF NothingToRewrite, verifyVars
<1>3. N' = N /\ Seen' = Seen /\ Rewritable' = Rewritable
  BY <1>2 DEF N, Seen, Rewritable
<1>4. attempt = 0 /\ ~failed
  BY DEF NothingToRewrite
<1>5. Rewritable = {}
  <2>1. \A f \in DOMAIN files : f < i
    BY <1>1 DEF NothingToRewrite, TypeOK
  <2> QED
    BY <2>1, <1>4 DEF NothingToRewrite, RoundInv, Seen, Rewritable
<1>6. TypeOK'
  BY <1>1, <1>2, <1>3 DEF TypeOK
<1>7. DefinerInv'
  BY <1>2, <1>3 DEF DefinerInv, CallsHelper
<1>8. RoundInv'
  BY <1>2, <1>3, <1>4 DEF RoundInv
<1>9. HandsOverWhatChecks' /\ KeptForAReason'
  BY <1>2, <1>3, <1>5 DEF HandsOverWhatChecks, KeptForAReason
<1> QED
  BY <1>6, <1>7, <1>8, <1>9

(* With every file seen, the first that calls the helper defines it, or    *)
(* has no path.                                                            *)
LEMMA DefinerIsFirst ==
  ASSUME TypeOK, DefinerInv, i = N + 1,
         NEW f \in Rewritable, CallsHelper(f), definer = {}
  PROVE  \E g \in First : ~files[g].path
<1>1. PICK n \in Nat : files \in [1..n -> File] /\ N = n
  BY DEF TypeOK
<1>2. \A g \in DOMAIN files : g \in Seen
  BY <1>1 DEF Seen
<1> DEFINE C == {g \in 1..n : CallsHelper(g)}
<1>3. C # {} /\ C \subseteq Nat
  BY <1>1 DEF Rewritable
<1>4. PICK g \in C : \A h \in C : g <= h
  BY <1>3, LeastNatural
<1>5. g \in First
  <2>1. \A h \in 1..(g - 1) : ~CallsHelper(h)
    BY <1>3, <1>4
  <2> QED
    BY <1>1, <1>4, <2>1 DEF First, CallsHelper
<1>6. ~files[g].path
  BY <1>1, <1>2, <1>4 DEF DefinerInv, Seen
<1> QED
  BY <1>5, <1>6

(* A file that is reported has a fault of its own, or nobody defines the   *)
(* helper it calls.                                                        *)
LEMMA ReportedFor ==
  ASSUME NEW R, NEW f \in ErrorsIn(R)
  PROVE  f \in R /\ (files[f].fault # "none" \/ (definer \intersect R = {} /\ files[f].checks))
<1>1. CASE {g \in R : files[g].fault = "syntax"} # {}
  BY <1>1 DEF ErrorsIn
<1>2. CASE {g \in R : files[g].fault = "syntax"} = {} /\ definer \intersect R = {}
  BY <1>2 DEF ErrorsIn
<1>3. CASE {g \in R : files[g].fault = "syntax"} = {} /\ definer \intersect R # {}
  BY <1>3 DEF ErrorsIn
<1> QED
  BY <1>1, <1>2, <1>3

(* A round in which nothing fails leaves a package that checks.            *)
LEMMA CheckKeeps == ASSUME Inv, Check PROVE Inv'
<1> USE DEF Inv
<1>1. PICK n \in Nat : files \in [1..n -> File] /\ N = n
  BY DEF TypeOK
<1>2. UNCHANGED <<files, i, helper, rewritten, definer, attempt>> /\ bad' = Errors /\ failed' = Fails
      /\ verdict = "open"
  BY DEF Check
<1>3. N' = N /\ Seen' = Seen /\ Rewritable' = Rewritable /\ Errors' = Errors /\ Fails' = Fails
  BY <1>2 DEF N, Seen, Rewritable, Errors, Fails, Unparsed, Mistyped, Undefined, Redefined
<1>4. i = N + 1
  BY <1>1 DEF Check, TypeOK
<1>5. Fails \in BOOLEAN
  BY DEF Fails
<1>6. TypeOK'
  <2>1. verdict' \in {"open", "kept", "rewritten"}
    BY DEF Check
  <2> QED
    BY <2>1, <1>1, <1>2, <1>3, <1>5 DEF TypeOK
<1>7. DefinerInv'
  BY <1>2, <1>3 DEF DefinerInv, CallsHelper
<1>8. attempt \in {0, 1}
  BY <1>2 DEF RoundInv, TypeOK
<1>9. RoundInv'
  <2>1. ErrorsIn(Rewritable)' = ErrorsIn(Rewritable)
    BY <1>2, <1>3 DEF ErrorsIn
  <2>2. Fails => verdict' = "open"
    BY DEF Check
  <2> QED
    BY <2>1, <2>2, <1>2, <1>3, <1>4, <1>8 DEF RoundInv
<1>10. HandsOverWhatChecks'
  <2> SUFFICES ASSUME verdict' = "rewritten"
               PROVE  /\ \A f \in rewritten : files[f].fault = "none"
                      /\ (\E f \in rewritten : files[f].checks) => Cardinality(definer \intersect rewritten) = 1
    BY <1>2 DEF HandsOverWhatChecks
  <2>1. ~Fails
    BY DEF Check
  <2>2. Errors = {} /\ \A f \in rewritten : files[f].fault # "nowhere"
    BY <2>1 DEF Fails
  <2>3. Unparsed = {} /\ Mistyped = {}
    BY <2>2 DEF Errors
  <2>4. ASSUME NEW f \in rewritten PROVE files[f].fault = "none"
    <3>1. files[f].fault \in Fault
      BY <1>1 DEF RoundInv, Seen, File
    <3> QED
      BY <3>1, <2>2, <2>3 DEF Unparsed, Mistyped, Fault
  <2>5. ASSUME NEW f \in rewritten, files[f].checks PROVE Cardinality(definer \intersect rewritten) = 1
    <3>1. definer \intersect rewritten # {}
      BY <2>3, <2>5 DEF Mistyped, Undefined
    <3>2. PICK d : definer \intersect rewritten = {d}
      BY <3>1, OneDefiner
    <3> QED
      BY <3>2, FS_Singleton
  <2> QED
    BY <2>4, <2>5
<1>11. KeptForAReason'
  <2> SUFFICES ASSUME verdict' = "kept" PROVE KeptForAReason'
    BY DEF KeptForAReason
  <2>1. ~Fails /\ rewritten = {} /\ attempt = 1
    BY <1>8 DEF Check
  <2>2. \A f \in Rewritable : f \in ErrorsIn(Rewritable)
    BY <2>1, <1>2 DEF RoundInv
  <2>3. CASE \A f \in Rewritable : files[f].fault # "none"
    <3>1. Rewritable \subseteq Faulty
      BY <2>3 DEF Faulty
    <3> QED
      BY <3>1, <1>2 DEF KeptForAReason, Faulty, Rewritable
  <2>4. CASE \E f \in Rewritable : files[f].fault = "none"
    <3>1. PICK f \in Rewritable : files[f].checks /\ definer \intersect Rewritable = {}
      BY <2>2, <2>4, ReportedFor
    <3>2. definer \subseteq Rewritable
      BY DEF DefinerInv, Seen, CallsHelper, Rewritable
    <3>3. CallsHelper(f) /\ definer = {}
      BY <3>1, <3>2 DEF CallsHelper, Rewritable
    <3>4. \E g \in First : ~files[g].path
      BY <3>3, <1>4, DefinerIsFirst
    <3> QED
      BY <3>4, <1>2 DEF KeptForAReason, First
  <2> QED
    BY <2>3, <2>4
<1> QED
  BY <1>6, <1>7, <1>9, <1>10, <1>11

(* Two kinds of fault are more than one.                                   *)
LEMMA TwoKinds ==
  ASSUME \A h \in Faulty : files[h].fault \in Fault,
         NEW f \in Faulty, files[f].fault = "types",
         NEW g \in Faulty, files[g].fault = "syntax"
  PROVE  Cardinality({files[h].fault : h \in Faulty}) > 1
<1> DEFINE S == {files[h].fault : h \in Faulty}
<1>1. IsFiniteSet({"syntax"}) /\ Cardinality({"syntax"}) = 1
  BY FS_Singleton
<1>2. IsFiniteSet({"syntax"} \union {"types"}) /\ Cardinality({"syntax"} \union {"types"}) = 2
  <2>1. "types" \notin {"syntax"}
    OBVIOUS
  <2>2. /\ IsFiniteSet({"syntax"} \union {"types"})
        /\ Cardinality({"syntax"} \union {"types"}) = Cardinality({"syntax"}) + 1
    BY <1>1, <2>1, FS_AddElement, Zenon
  <2> QED
    BY <1>1, <2>2
<1>3. IsFiniteSet({"none"} \union {"nowhere"})
  BY FS_Singleton, FS_AddElement
<1>4. IsFiniteSet(({"syntax"} \union {"types"}) \union ({"none"} \union {"nowhere"}))
  BY <1>2, <1>3, FS_Union
<1>5. S \subseteq ({"syntax"} \union {"types"}) \union ({"none"} \union {"nowhere"})
  BY DEF Fault
<1>6. IsFiniteSet(S) /\ Cardinality(S) \in Nat
  BY <1>4, <1>5, FS_Subset, FS_CardinalityType
<1>7. {"syntax"} \union {"types"} \subseteq S
  OBVIOUS
<1>8. Cardinality({"syntax"} \union {"types"}) <= Cardinality(S)
  BY <1>6, <1>7, FS_Subset
<1> QED
  BY <1>2, <1>6, <1>8

(* A round that fails a second time: the faults are of two kinds, or the   *)
(* first round took out the file with the helper.                          *)
LEMMA SecondRound ==
  ASSUME Inv, i = N + 1, attempt = 1, verdict = "open", Fails
  PROVE  \/ \E f \in Faulty : files[f].fault = "nowhere"
         \/ Cardinality({files[f].fault : f \in Faulty}) > 1
         \/ \E f \in First : f \in Faulty \/ ~files[f].path
<1> USE DEF Inv
<1>1. PICK n \in Nat : files \in [1..n -> File] /\ N = n
  BY DEF TypeOK
<1>2. rewritten = Rewritable \ ErrorsIn(Rewritable)
  BY DEF RoundInv
<1>3. \A f \in Rewritable : files[f].fault \in Fault
  BY <1>1 DEF Rewritable, File
<1>4. \A f \in Rewritable : files[f].fault # "none" => f \in Faulty
  BY DEF Faulty
<1>5. definer \subseteq Rewritable
  BY DEF DefinerInv, Seen, CallsHelper, Rewritable
<1>6. \A d \in definer : d \in First
  <2> SUFFICES ASSUME NEW d \in definer PROVE d \in First
    OBVIOUS
  <2>1. d \in 1..n /\ CallsHelper(d) /\ \A g \in Seen : CallsHelper(g) => d <= g
    BY <1>1 DEF DefinerInv, Seen
  <2>2. \A g \in 1..(d - 1) : g \in Seen
    BY <1>1, <2>1 DEF Seen
  <2> QED
    BY <1>1, <2>1, <2>2 DEF First, CallsHelper
<1>7. CASE \E f \in rewritten : files[f].fault = "nowhere"
  BY <1>2, <1>4, <1>7
<1>8. CASE \A f \in rewritten : files[f].fault # "nowhere"
  <2>1. PICK f \in ErrorsIn(rewritten) : TRUE
    BY <1>8, ErrorsAre DEF Fails
  <2>2. f \in rewritten /\ f \in Rewritable /\ f \notin ErrorsIn(Rewritable)
    BY <1>2, <2>1, ReportedFor
  <2>3. CASE files[f].fault # "none"
    <3>1. f \in Faulty /\ files[f].fault = "types"
      <4>1. files[f].fault # "syntax"
        BY <2>2 DEF ErrorsIn
      <4> QED
        BY <4>1, <1>3, <1>4, <1>8, <2>2, <2>3 DEF Fault
    <3>2. PICK g \in Rewritable : files[g].fault = "syntax"
      BY <2>2, <3>1 DEF ErrorsIn
    <3>3. g \in Faulty
      BY <1>4, <3>2
    <3>4. \A h \in Faulty : files[h].fault \in Fault
      BY <1>3 DEF Faulty
    <3> QED
      BY <3>1, <3>2, <3>3, <3>4, TwoKinds
  <2>4. CASE files[f].fault = "none"
    <3>1. files[f].checks /\ definer \intersect rewritten = {}
      BY <2>1, <2>4, ReportedFor
    <3>2. CallsHelper(f)
      BY <2>2, <3>1 DEF CallsHelper, Rewritable
    <3>3. CASE definer = {}
      BY <2>2, <3>2, <3>3, DefinerIsFirst
    <3>4. CASE definer # {}
      <4>1. PICK d \in definer : d \in ErrorsIn(Rewritable)
        BY <1>2, <1>5, <3>1, <3>4
      <4>2. files[d].fault # "none"
        BY <1>5, <4>1, ReportedFor
      <4> QED
        BY <1>4, <1>5, <1>6, <4>1, <4>2
    <3> QED
      BY <3>3, <3>4
  <2> QED
    BY <2>3, <2>4
<1> QED
  BY <1>7, <1>8

(* Files that are reported go back to their source, once.                  *)
LEMMA RevertKeeps == ASSUME Inv, Revert PROVE Inv'
<1> USE DEF Inv
<1>1. PICK n \in Nat : files \in [1..n -> File] /\ N = n
  BY DEF TypeOK
<1>2. UNCHANGED <<files, i, helper, definer>> /\ rewritten' = rewritten \ bad /\ attempt' = attempt + 1
      /\ failed' = FALSE /\ verdict = "open"
  BY DEF Revert
<1>3. N' = N /\ Seen' = Seen /\ Rewritable' = Rewritable
  BY <1>2 DEF N, Seen, Rewritable
<1>4. i = N + 1 /\ bad = Errors /\ Fails
  BY DEF Revert, RoundInv
<1>5. attempt \in {0, 1} /\ verdict' \in {"open", "kept"}
  BY DEF Revert, RoundInv, TypeOK
<1>6. TypeOK'
  <2>1. attempt' \in 0..2 /\ (i \in 1..(N + 1))' /\ verdict' \in {"open", "kept", "rewritten"}
    BY <1>2, <1>3, <1>5 DEF TypeOK
  <2>2. (\E m \in Nat : files \in [1..m -> File] /\ N = m)'
    BY <1>1, <1>2, <1>3
  <2>3. helper' \in BOOLEAN /\ failed' \in BOOLEAN
    BY <1>2, Zenon DEF TypeOK
  <2> QED
    BY <2>1, <2>2, <2>3, Zenon DEF TypeOK
<1>7. DefinerInv'
  BY <1>2, <1>3 DEF DefinerInv, CallsHelper
<1>8. RoundInv'
  <2>1. ErrorsIn(Rewritable)' = ErrorsIn(Rewritable)
    BY <1>2, <1>3 DEF ErrorsIn
  <2>2. bad = ErrorsIn(rewritten)
    BY <1>4, ErrorsAre
  <2>3. attempt = 0 => rewritten = Rewritable
    BY <1>1, <1>4 DEF RoundInv, Seen, Rewritable
  <2>4. attempt = 1 => verdict' = "kept"
    BY DEF Revert
  <2>5. rewritten' \subseteq {f \in Seen : f \in Rewritable}
    BY <1>2 DEF RoundInv
  <2>6. attempt' = 1 => rewritten' = Rewritable \ ErrorsIn(Rewritable)
    BY <2>2, <2>3, <1>2, <1>5
  <2>7. attempt' # 0 /\ (attempt' = 2 => verdict' # "open") /\ i' = N' + 1 /\ ~failed'
    BY <2>4, <1>2, <1>3, <1>4, <1>5
  <2> QED
    BY <2>1, <2>5, <2>6, <2>7, <1>3 DEF RoundInv
<1>9. HandsOverWhatChecks'
  BY <1>5 DEF HandsOverWhatChecks
<1>10. KeptForAReason'
  <2> SUFFICES ASSUME verdict' = "kept" PROVE KeptForAReason'
    BY DEF KeptForAReason
  <2>1. CASE attempt = 1
    <3>1. \/ \E f \in Faulty : files[f].fault = "nowhere"
          \/ Cardinality({files[f].fault : f \in Faulty}) > 1
          \/ \E f \in First : f \in Faulty \/ ~files[f].path
      BY <2>1, <1>2, <1>4, SecondRound
    <3>2. Faulty' = Faulty /\ First' = First
      BY <1>2, <1>3 DEF Faulty, First
    <3> QED
      BY <3>1, <3>2, <1>2 DEF KeptForAReason
  <2>2. CASE attempt = 0
    <3>1. bad = {}
      BY <2>2 DEF Revert
    <3>2. PICK f \in rewritten : files[f].fault = "nowhere"
      BY <3>1, <1>4 DEF Fails
    <3>3. f \in Faulty
      BY <3>2 DEF Faulty, RoundInv
    <3> QED
      BY <3>2, <3>3, <1>2 DEF KeptForAReason, Faulty, Rewritable
  <2> QED
    BY <2>1, <2>2, <1>5
<1> QED
  BY <1>6, <1>7, <1>8, <1>9, <1>10

LEMMA InvStep == ASSUME Inv, [Next]_vars PROVE Inv'
<1>1. CASE UNCHANGED vars
  BY <1>1, SMTT(30) DEF vars, Inv, TypeOK, DefinerInv, RoundInv, HandsOverWhatChecks, KeptForAReason, N, Seen,
     CallsHelper, Rewritable, ErrorsIn, Errors, Fails, Unparsed, Mistyped, Undefined, Redefined, Faulty, First
<1> QED
  BY <1>1, RewriteFileKeeps, NothingToRewriteKeeps, CheckKeeps, RevertKeeps DEF Next, Decided

(* Whatever is wrong with the rewritten files of a package, however many   *)
(* there are, what the compiler is handed checks: HandsOverWhatChecks.     *)
THEOREM HandedOverChecked == Spec => []HandsOverWhatChecks
<1>1. Inv => HandsOverWhatChecks
  BY DEF Inv
<1> QED
  BY <1>1, InvInit, InvStep, PTL DEF Spec

(* tryRewrite leaves a package alone only where no file could stay         *)
(* rewritten, or verify was right to give up: KeptForAReason.              *)
THEOREM AlwaysKeptForAReason == Spec => []KeptForAReason
<1>1. Inv => KeptForAReason
  BY DEF Inv
<1> QED
  BY <1>1, InvInit, InvStep, PTL DEF Spec
=============================================================================
