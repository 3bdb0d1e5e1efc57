-------------------------- MODULE TestTargetProofs --------------------------
(***************************************************************************)
(* Theorems about TestTarget for command lines of any length: a named test *)
(* of a package simd depends on is noticed, and rewrites are given up only *)
(* for a word that names such a package.                                   *)
(***************************************************************************)
EXTENDS TestTarget, TLAPS

LineInv == rest \in Seq(Argument) /\ LineOK(rest)

Cover(k) == rest[k].kind = "flag" /\ rest[k].name = "coverpkg"

(* testPatterns stops at -args, so it passes none; the value of -coverpkg  *)
(* is passed together with the flag.                                       *)
PassedInv ==
  /\ i \in 1..(Len(rest) + 1)
  /\ \A k \in 1..(i - 1) :
       /\ rest[k].kind # "args"
       /\ (Cover(k) /\ rest[k].value = "none") => k + 1 < i

(* The patterns are the words and the values of -coverpkg it passed.       *)
Taken(k) == rest[k].kind = "word" \/ (Cover(k) /\ rest[k].value # "none")
PatternsInv ==
  /\ \A k \in 1..(i - 1) : Taken(k) => rest[k].value \in patterns
  /\ \A w \in patterns : \E k \in 1..(i - 1) : Taken(k) /\ rest[k].value = w

(* The answer was given at the end of the line or at -args.                *)
Stopped == i \in DOMAIN rest => rest[i].kind = "args"
AnswerInv ==
  /\ answer = "yes" => Stopped /\ \E w \in Listed : Resolve(w) \in SkipSet
  /\ (answer = "no" /\ readable /\ command = "test") =>
       Stopped /\ \A w \in Listed : Resolve(w) \notin SkipSet

Inv == LineInv /\ PassedInv /\ PatternsInv /\ AnswerInv

-----------------------------------------------------------------------------
(* A flag that asks for a value is followed by a word.                     *)
LEMMA ValueIsWord ==
  ASSUME LineInv, NEW k \in 1..Len(rest), AsksValue(rest[k])
  PROVE  k + 1 \in 1..Len(rest) /\ rest[k + 1].kind = "word"
  BY DEF LineInv, LineOK

(* An argument is of one of three kinds.                                   *)
LEMMA Kinds ==
  ASSUME LineInv, NEW k \in 1..Len(rest)
  PROVE  /\ rest[k].kind \in {"word", "flag", "args"}
         /\ rest[k].kind = "word" => rest[k].value \in Words
         /\ Cover(k) /\ rest[k].value = "none" => AsksValue(rest[k])
<1>1. rest[k] \in Argument
  BY DEF LineInv
<1> QED
  BY <1>1 DEF Argument, Word, Flag, FlagWith, EndOfFlags, Cover, AsksValue, Valued

LEMMA InvInit == Init => Inv
<1> SUFFICES ASSUME Init PROVE Inv
  OBVIOUS
<1>1. LineInv
  <2>1. PICK n \in 0..MaxLine : rest \in [1..n -> Argument]
    BY DEF Init
  <2>2. n \in Nat
    BY <2>1, TargetAssumption
  <2> QED
    BY <2>1, <2>2 DEF Init, LineInv
<1>2. PassedInv /\ PatternsInv /\ AnswerInv
  BY <1>1 DEF Init, LineInv, PassedInv, PatternsInv, AnswerInv
<1> QED
  BY <1>1, <1>2 DEF Inv

LEMMA InvStep == Inv /\ [Next]_vars => Inv'
<1> SUFFICES ASSUME Inv, [Next]_vars PROVE Inv'
  OBVIOUS
<1>0. rest' = rest /\ command' = command /\ readable' = readable
  BY DEF Next, vars, line, NotATest, TakeWord, PassFlag, TakeCoverpkg, Answer, Answered
<1>1. LineInv'
  BY <1>0 DEF Inv, LineInv, LineOK, AsksValue, Valued
<1>2. rest \in Seq(Argument) /\ DOMAIN rest = 1..Len(rest) /\ Len(rest) \in Nat
  BY DEF Inv, LineInv
<1>3. CASE NotATest
  BY <1>0, <1>1, <1>3 DEF Inv, NotATest, PassedInv, PatternsInv, AnswerInv, Taken, Cover
<1>4. CASE TakeWord
  <2>1. i \in 1..Len(rest) /\ rest[i].kind = "word" /\ i' = i + 1 /\ answer' = answer /\ answer = "open"
    BY <1>2, <1>4 DEF TakeWord, At, Scanning
  <2>2. PassedInv'
    BY <1>0, <1>2, <2>1 DEF Inv, PassedInv, Cover
  <2>3. PatternsInv'
    <3>1. patterns' = patterns \union {rest[i].value}
      BY <1>4 DEF TakeWord
    <3>2. \A k \in 1..i : Taken(k) => rest[k].value \in patterns'
      BY <1>2, <2>1, <3>1 DEF Inv, PatternsInv, PassedInv
    <3>3. \A w \in patterns' : \E k \in 1..i : Taken(k) /\ rest[k].value = w
      <4>1. Taken(i)
        BY <2>1 DEF Taken
      <4> QED
        BY <2>1, <3>1, <4>1 DEF Inv, PatternsInv, PassedInv
    <3> QED
      BY <1>0, <1>2, <2>1, <3>2, <3>3 DEF PatternsInv, Taken, Cover
  <2> QED
    BY <1>1, <2>1, <2>2, <2>3 DEF Inv, AnswerInv
<1>5. CASE PassFlag
  <2>1. i \in 1..Len(rest) /\ rest[i].kind = "flag" /\ ~Cover(i) /\ i' = i + 1 /\ patterns' = patterns
        /\ answer' = answer /\ answer = "open"
    BY <1>2, <1>5 DEF PassFlag, At, Scanning, Cover
  <2>2. PassedInv'
    BY <1>0, <1>2, <2>1 DEF Inv, PassedInv, Cover
  <2>3. PatternsInv'
    BY <1>0, <1>2, <2>1 DEF Inv, PatternsInv, Taken, Cover
  <2> QED
    BY <1>1, <2>1, <2>2, <2>3 DEF Inv, AnswerInv
<1>6. CASE TakeCoverpkg
  <2>1. i \in 1..Len(rest) /\ Cover(i) /\ answer' = answer /\ answer = "open"
    BY <1>2, <1>6 DEF TakeCoverpkg, At, Scanning, Cover
  <2>2. CASE rest[i].value = "none"
    <3>1. i + 1 \in 1..Len(rest) /\ rest[i + 1].kind = "word"
      BY <2>1, <2>2, Kinds, ValueIsWord DEF Inv
    <3>2. i' = i + 2 /\ patterns' = patterns \union {rest[i + 1].value}
      BY <1>2, <1>6, <2>1, <2>2, <3>1 DEF TakeCoverpkg
    <3>3. PassedInv'
      BY <1>0, <1>2, <2>1, <3>1, <3>2 DEF Inv, PassedInv, Cover
    <3>4. Taken(i + 1) /\ ~Taken(i)
      BY <2>1, <2>2, <3>1 DEF Taken, Cover
    <3>5. \A k \in 1..(i + 1) : Taken(k) => rest[k].value \in patterns'
      BY <1>2, <2>1, <3>2, <3>4 DEF Inv, PatternsInv, PassedInv
    <3>6. \A w \in patterns' : \E k \in 1..(i + 1) : Taken(k) /\ rest[k].value = w
      BY <2>1, <3>2, <3>4 DEF Inv, PatternsInv, PassedInv
    <3>7. PatternsInv'
      BY <1>0, <2>1, <3>2, <3>5, <3>6 DEF PatternsInv, Taken, Cover
    <3> QED
      BY <1>1, <2>1, <3>3, <3>7 DEF Inv, AnswerInv
  <2>3. CASE rest[i].value # "none"
    <3>1. i' = i + 1 /\ patterns' = patterns \union {rest[i].value}
      BY <1>2, <1>6, <2>1, <2>3 DEF TakeCoverpkg
    <3>2. PassedInv'
      BY <1>0, <1>2, <2>1, <2>3, <3>1 DEF Inv, PassedInv, Cover
    <3>3. Taken(i)
      BY <2>1, <2>3 DEF Taken
    <3>4. \A k \in 1..i : Taken(k) => rest[k].value \in patterns'
      BY <1>2, <2>1, <3>1 DEF Inv, PatternsInv, PassedInv
    <3>5. \A w \in patterns' : \E k \in 1..i : Taken(k) /\ rest[k].value = w
      BY <2>1, <3>1, <3>3 DEF Inv, PatternsInv, PassedInv
    <3>6. PatternsInv'
      BY <1>0, <2>1, <3>1, <3>4, <3>5 DEF PatternsInv, Taken, Cover
    <3> QED
      BY <1>1, <2>1, <3>2, <3>6 DEF Inv, AnswerInv
  <2> QED
    BY <2>2, <2>3
<1>7. CASE Answer
  <2>1. Stopped /\ i' = i /\ patterns' = patterns
    BY <1>7 DEF Answer, Stopped
  <2>2. AnswerInv'
    BY <1>0, <1>7, <2>1 DEF Answer, AnswerInv, Stopped, Listed, Resolve
  <2> QED
    BY <1>0, <1>1, <2>1, <2>2 DEF Inv, PassedInv, PatternsInv, Taken, Cover
<1>8. CASE Answered \/ UNCHANGED vars
  BY <1>0, <1>1, <1>8 DEF Inv, Answered, vars, PassedInv, PatternsInv, AnswerInv, Taken, Cover, Stopped,
     Listed, Resolve
<1> QED
  BY <1>3, <1>4, <1>5, <1>6, <1>7, <1>8 DEF Next

THEOREM Invariance == Spec => []Inv
<1> QED
  BY InvInit, InvStep, PTL DEF Spec

-----------------------------------------------------------------------------
(* Nothing before the place where the scan stops ends the flags, and       *)
(* nothing the go command tests comes after it.                            *)
LEMMA BeforeStop ==
  ASSUME Inv, Stopped, NEW k \in 1..Len(rest)
  PROVE  Before(k) <=> k <= i
<1>0. i \in 1..(Len(rest) + 1) /\ DOMAIN rest = 1..Len(rest) /\ Len(rest) \in Nat
  BY DEF Inv, LineInv, PassedInv
<1>1. CASE k <= i
  BY <1>0, <1>1 DEF Inv, PassedInv, Before
<1>2. CASE k > i
  <2>1. i \in 1..(k - 1) /\ rest[i].kind = "args"
    BY <1>0, <1>2 DEF Stopped
  <2>2. ~GoTakes(i)
    <3> SUFFICES ASSUME GoTakes(i) PROVE FALSE
      OBVIOUS
    <3>1. i - 1 \in 1..Len(rest) /\ AsksValue(rest[i - 1])
      BY <1>0 DEF GoTakes
    <3>2. rest[(i - 1) + 1].kind = "word"
      BY <3>1, ValueIsWord DEF Inv
    <3> QED
      BY <1>0, <2>1, <3>2
  <2> QED
    BY <1>2, <2>1, <2>2 DEF Before
<1> QED
  BY <1>0, <1>1, <1>2

(* What the go command takes for a package or a value of -coverpkg is      *)
(* among the patterns.                                                     *)
LEMMA NamedAreTaken ==
  ASSUME Inv, Stopped
  PROVE  Named \subseteq patterns /\ Covered \subseteq patterns
<1>0. i \in 1..(Len(rest) + 1) /\ DOMAIN rest = 1..Len(rest) /\ Len(rest) \in Nat
  BY DEF Inv, LineInv, PassedInv
<1>1. ASSUME NEW k \in 1..Len(rest), Before(k), rest[k].kind # "args"
      PROVE  k \in 1..(i - 1)
  <2>1. k <= i
    BY <1>1, BeforeStop
  <2> QED
    BY <1>0, <1>1, <2>1 DEF Stopped
<1>2. ASSUME NEW k \in DOMAIN rest, PackageAt(k) PROVE rest[k].value \in patterns
  BY <1>0, <1>1, <1>2 DEF PackageAt, Candidate, Inv, PatternsInv, Taken
<1>3. ASSUME NEW k \in DOMAIN rest, CoverAt(k), rest[k].value # "none" PROVE rest[k].value \in patterns
  BY <1>0, <1>1, <1>3 DEF CoverAt, Inv, PatternsInv, Taken, Cover
<1>4. ASSUME NEW k \in DOMAIN rest, CoverAt(k), rest[k].value = "none" PROVE rest[k + 1].value \in patterns
  <2>1. k \in 1..(i - 1) /\ k + 1 < i
    BY <1>0, <1>1, <1>4 DEF CoverAt, Inv, PassedInv, Cover
  <2>2. rest[k + 1].kind = "word"
    BY <1>0, <1>4, Kinds, ValueIsWord DEF Inv, CoverAt, Cover
  <2> QED
    BY <1>0, <2>1, <2>2 DEF Inv, PatternsInv, Taken
<1> QED
  BY <1>2, <1>3, <1>4 DEF Named, Covered

(* testPatterns (testtarget.go): on a line that names its packages, or has *)
(* nothing that could be taken for a name, no test of a package simd       *)
(* depends on goes unnoticed, however long the line is.                    *)
THEOREM NamedTestsNoticed == Spec => []NoticesNamedTests
<1>1. Inv => NoticesNamedTests
  <2> SUFFICES ASSUME Inv, answer = "no", readable, command = "test", PlainLine
               PROVE  Tested \intersect SkipSet = {}
    BY DEF NoticesNamedTests
  <2>1. Stopped /\ \A w \in Listed : Resolve(w) \notin SkipSet
    BY DEF Inv, AnswerInv
  <2>2. Named \subseteq patterns /\ Covered \subseteq patterns
    BY <2>1, NamedAreTaken
  <2>3. CASE Named # {}
    BY <2>1, <2>2, <2>3 DEF Tested, Listed
  <2>4. CASE Named = {}
    <3>1. \A k \in DOMAIN rest : rest[k].kind # "word" /\ rest[k].name # "coverpkg"
      BY <2>4 DEF PlainLine
    <3>2. patterns = {}
      BY <3>1 DEF Inv, LineInv, PassedInv, PatternsInv, Taken, Cover
    <3>3. Covered = {}
      BY <2>2, <3>2
    <3> QED
      BY <2>1, <2>4, <3>2, <3>3 DEF Tested, Listed
  <2> QED
    BY <2>3, <2>4
<1> QED
  BY <1>1, Invariance, PTL

(* A line costs the rewrites only for a word on it, before -args, that     *)
(* names a package simd depends on, or for a test of one.                  *)
THEOREM YesOnlyForAReason == Spec => []YesForAReason
<1>1. Inv => YesForAReason
  <2> SUFFICES ASSUME Inv, answer = "yes", Tested \intersect SkipSet = {}
               PROVE  \E k \in DOMAIN rest : rest[k].kind = "word" /\ Before(k) /\ Resolve(rest[k].value) \in SkipSet
    BY DEF YesForAReason
  <2>0. i \in 1..(Len(rest) + 1) /\ DOMAIN rest = 1..Len(rest) /\ Len(rest) \in Nat
    BY DEF Inv, LineInv, PassedInv
  <2>1. Stopped
    BY DEF Inv, AnswerInv
  <2>2. PICK w \in Listed : Resolve(w) \in SkipSet
    BY DEF Inv, AnswerInv
  <2>3. patterns # {}
    <3> SUFFICES ASSUME patterns = {} PROVE FALSE
      OBVIOUS
    <3>1. Named = {} /\ Resolve(".") \in SkipSet
      BY <2>1, <2>2, NamedAreTaken DEF Listed
    <3> QED
      BY <3>1 DEF Tested
  <2>4. PICK k \in 1..(i - 1) : Taken(k) /\ rest[k].value = w
    BY <2>2, <2>3 DEF Listed, Inv, PatternsInv
  <2>5. k \in 1..Len(rest) /\ Before(k)
    BY <2>0, <2>1, <2>4, BeforeStop
  <2>6. CASE rest[k].kind = "word"
    BY <2>0, <2>2, <2>4, <2>5, <2>6
  <2>7. CASE Cover(k) /\ rest[k].value # "none"
    <3>1. ~GoTakes(k)
      <4> SUFFICES ASSUME GoTakes(k) PROVE FALSE
        OBVIOUS
      <4>1. k - 1 \in 1..Len(rest) /\ AsksValue(rest[k - 1])
        BY <2>0 DEF GoTakes
      <4>2. rest[(k - 1) + 1].kind = "word"
        BY <4>1, ValueIsWord DEF Inv
      <4> QED
        BY <2>5, <2>7, <4>2 DEF Cover
    <3>2. w \in Covered
      BY <2>0, <2>4, <2>5, <2>7, <3>1 DEF Covered, CoverAt, Cover
    <3> QED
      BY <2>2, <3>2 DEF Tested
  <2> QED
    BY <2>4, <2>6, <2>7 DEF Taken
<1> QED
  BY <1>1, Invariance, PTL
=============================================================================
