----------------------------- MODULE TestTarget -----------------------------
(***************************************************************************)
(* How a wrapper process finds out whether the go command that started it  *)
(* tests a package simd depends on (cmd/loopvec-toolexec/testtarget.go):   *)
(* it reads that command's line from the process table, picks what may be  *)
(* package patterns, and has go list resolve them.                         *)
(***************************************************************************)
EXTENDS Integers, Sequences

CONSTANTS
  Words,     \* arguments that are no flag
  Names,     \* the package a word names in the directory go test runs in
  NoPackage, \* what a word that names none comes to
  Here,      \* the package of that directory
  SkipSet,   \* the packages simd depends on
  MaxLine    \* bound: arguments after "go test"

(* An argument: a word, the flag -args, or a flag of which a word may be   *)
(* the value, in the same argument or in the next.  "switch" stands for    *)
(* the flags that take no value, "run" for those that do, of which         *)
(* -coverpkg alone names packages.                                         *)
FlagName == {"switch", "run", "coverpkg"}
Word(w) == [kind |-> "word", name |-> "none", value |-> w]
Flag(f) == [kind |-> "flag", name |-> f, value |-> "none"]
FlagWith(f, w) == [kind |-> "flag", name |-> f, value |-> w]
EndOfFlags == [kind |-> "args", name |-> "none", value |-> "none"]
Argument ==
  {Word(w) : w \in Words} \union {Flag(f) : f \in FlagName} \union
  {FlagWith(f, w) : f \in {"run", "coverpkg"}, w \in Words} \union {EndOfFlags}

ASSUME TargetAssumption ==
  /\ "none" \notin Words /\ "." \notin Words
  /\ DOMAIN Names = Words /\ NoPackage \notin SkipSet
  /\ MaxLine \in Nat

VARIABLES
  command,   \* what the go command was asked: "test", or another of its commands
  readable,  \* parentCommand reads the line and NO_TARGET_CHECK is unset
  rest,      \* the arguments after it
  i,         \* the argument testPatterns looks at
  patterns,  \* what it took for patterns so far
  answer     \* "open", then what the lookup comes to

vars == <<command, readable, rest, i, patterns, answer>>
line == <<command, readable, rest>>

(* Every flag has the value it takes, and values are words.                *)
Valued(f) == f \in {"run", "coverpkg"}
AsksValue(a) == a.kind = "flag" /\ Valued(a.name) /\ a.value = "none"
LineOK(s) ==
  \A k \in DOMAIN s : AsksValue(s[k]) => k < Len(s) /\ s[k + 1].kind = "word"

Init ==
  /\ command \in {"test", "build"} /\ readable \in BOOLEAN
  /\ rest \in {s \in UNION {[1..n -> Argument] : n \in 0..MaxLine} : LineOK(s)}
  /\ i = 1 /\ patterns = {} /\ answer = "open"

(* Nothing to read, or not go test: nothing is said to be tested.          *)
NotATest ==
  /\ answer = "open" /\ (~readable \/ command # "test")
  /\ answer' = "no"
  /\ UNCHANGED <<line, i, patterns>>

Scanning == answer = "open" /\ readable /\ command = "test"
At(k) == Scanning /\ k \in DOMAIN rest /\ i = k

TakeWord ==
  /\ At(i) /\ rest[i].kind = "word"
  /\ patterns' = patterns \union {rest[i].value}
  /\ i' = i + 1
  /\ UNCHANGED <<line, answer>>

(* A slip: -args is a flag like the others.                                *)
PassAnyFlag ==
  /\ At(i) /\ rest[i].kind # "word" /\ rest[i].name # "coverpkg"
  /\ i' = i + 1
  /\ UNCHANGED <<line, patterns, answer>>

(* The value of such a flag, when it is the next argument, is looked at    *)
(* like any other.                                                         *)
PassFlag ==
  /\ At(i) /\ rest[i].kind = "flag" /\ rest[i].name # "coverpkg"
  /\ i' = i + 1
  /\ UNCHANGED <<line, patterns, answer>>

(* A slip: -coverpkg is a flag like the others where its value is its own. *)
TakeCoverpkgInline ==
  /\ At(i) /\ rest[i].kind = "flag" /\ rest[i].name = "coverpkg"
  /\ i' = i + (IF rest[i].value = "none" THEN 2 ELSE 1)
  /\ patterns' = IF rest[i].value = "none" THEN patterns ELSE patterns \union {rest[i].value}
  /\ UNCHANGED <<line, answer>>

TakeCoverpkg ==
  /\ At(i) /\ rest[i].kind = "flag" /\ rest[i].name = "coverpkg"
  /\ LET separate == rest[i].value = "none" /\ i < Len(rest)
     IN /\ i' = IF separate THEN i + 2 ELSE i + 1
        /\ patterns' = patterns \union {IF separate THEN rest[i + 1].value ELSE rest[i].value}
  /\ UNCHANGED <<line, answer>>

(* No pattern means the package of the working directory.                  *)
Listed == IF patterns = {} THEN {"."} ELSE patterns

(* go list -e: a word that names nothing is no error.                      *)
Resolve(w) == IF w = "." THEN Here ELSE IF w \in Words THEN Names[w] ELSE NoPackage

Answer ==
  /\ Scanning /\ (i \in DOMAIN rest => rest[i].kind = "args")
  /\ answer' = IF \E w \in Listed : Resolve(w) \in SkipSet THEN "yes" ELSE "no"
  /\ UNCHANGED <<line, i, patterns>>

Answered == answer # "open" /\ UNCHANGED vars

Next == NotATest \/ TakeWord \/ PassFlag \/ TakeCoverpkg \/ Answer \/ Answered

Spec == Init /\ [][Next]_vars

-----------------------------------------------------------------------------
(* What cmd/go makes of the line.  A flag that takes a value takes the     *)
(* next argument, which is no flag (LineOK); the packages are the first    *)
(* words that are neither values nor after -args, up to the flag that ends *)
(* them.                                                                   *)
GoTakes(k) == k > 1 /\ k - 1 \in DOMAIN rest /\ AsksValue(rest[k - 1])
Before(k) == \A j \in 1..k - 1 : rest[j].kind = "args" => GoTakes(j)
Candidate(k) == rest[k].kind = "word" /\ ~GoTakes(k) /\ Before(k)
PackageAt(k) ==
  /\ Candidate(k)
  /\ \A j \in 1..k - 1 : Candidate(j) => \A m \in j..k : Candidate(m)
CoverAt(k) == rest[k].kind = "flag" /\ rest[k].name = "coverpkg" /\ ~GoTakes(k) /\ Before(k)
Covered == {IF rest[k].value = "none" THEN rest[k + 1].value ELSE rest[k].value :
              k \in {k \in DOMAIN rest : CoverAt(k)}}
Named == {rest[k].value : k \in {k \in DOMAIN rest : PackageAt(k)}}
Tested == {Resolve(w) : w \in Covered \union (IF Named = {} THEN {"."} ELSE Named)}

(* "The build tests a package simd depends on ... the wrapper reads the go *)
(* command's command line to notice" (toolexec.md).  That fails where only *)
(* the value of a flag looks like a package, go test -run TestX: so        *)
(* NoticesNamedTests says it of the lines where it holds.                  *)
NoticesTests ==
  (answer = "no" /\ readable /\ command = "test") => Tested \intersect SkipSet = {}

(* The line names the packages it tests, or has nothing on it that could   *)
(* be taken for a name.                                                    *)
PlainLine ==
  Named # {} \/ \A k \in DOMAIN rest : rest[k].kind # "word" /\ rest[k].name # "coverpkg"

(* On such a line, -coverpkg and loose values included, no test of a       *)
(* package simd depends on goes unnoticed.                                 *)
NoticesNamedTests ==
  (answer = "no" /\ readable /\ command = "test" /\ PlainLine) => Tested \intersect SkipSet = {}

(* "A value that does name one only costs the rewrites" (testtarget.go),   *)
(* and so does a word for the test binary, but nothing after -args.        *)
YesForAReason ==
  answer = "yes" =>
    \/ Tested \intersect SkipSet # {}
    \/ \E k \in DOMAIN rest : rest[k].kind = "word" /\ Before(k) /\ Resolve(rest[k].value) \in SkipSet
=============================================================================
