---------------------------- MODULE PublicExports ---------------------------
(***************************************************************************)
(* Where the compiler writes export data only it can read, the wrapper     *)
(* asks the go command for the export data tools read, and shares what it  *)
(* is told with the other processes of the build through a file of lines   *)
(* path=file (exports.go: publicExports).  The file is read under a lock,  *)
(* the go command runs without it, and the lines are appended under it     *)
(* again; text is a sequence of tokens, so that an append can be cut short *)
(* inside a line, though not inside a path.  The package is then           *)
(* type-checked from those files.                                          *)
(***************************************************************************)
EXTENDS Naturals, Sequences, FiniteSets, FiniteSetsExt

CONSTANTS
  Processes,  \* the compiles of the build
  NoProcess,  \* "nobody holds the lock"
  Config,     \* for each its imports and its importcfg: what that provides and maps
  Listed,     \* the paths go list -export names a file for
  Faults      \* what may go wrong, a subset of FaultKind

FaultKind == {"open", "list", "append", "kill"}

Paths == UNION {Config[p].provides : p \in Processes}

ASSUME ExportsAssumption ==
  /\ NoProcess \notin Processes /\ Faults \subseteq FaultKind
  /\ \A p \in Processes :
       DOMAIN Config[p] = {"imports", "provides", "map"} /\ IsFiniteSet(Config[p].provides)
  /\ "=" \notin Paths /\ "\n" \notin Paths

(* A path is one token; the name of a file is two, its directory and rest. *)
PathToken(x) == <<x>>
DirToken(x) == <<x, "dir">>
RestToken(x) == <<x, "rest">>
Equals == <<"=">>
Newline == <<"\n">>
FileOf(x) == <<DirToken(x), RestToken(x)>>
Files == {FileOf(x) : x \in Paths}
OwnerOf(file) == CHOOSE x \in Paths : FileOf(x) = file
Line(x) == <<PathToken(x), Equals, DirToken(x), RestToken(x), Newline>>
Width == 5

(* Lines, one for each of a sequence of paths.                             *)
Spread(paths) ==
  [n \in 1..Width * Len(paths) |-> Line(paths[((n - 1) \div Width) + 1])[((n - 1) % Width) + 1]]

(* Where the lines that have path x before the first equals sign begin.    *)
LinesOf(content, x) ==
  {l \in 1..Len(content) - 1 :
     /\ l = 1 \/ content[l - 1] = Newline
     /\ content[l] = PathToken(x) /\ content[l + 1] = Equals}

(* What a text says of a path: the last such line counts.                  *)
Known(content) ==
  [x \in {y \in Paths : LinesOf(content, y) # {}} |->
     LET start == Max(LinesOf(content, x)) + 2
         end == Min({n \in start..Len(content) : content[n] = Newline} \union {Len(content) + 1})
     IN SubSeq(content, start, end - 1)]

-----------------------------------------------------------------------------
VARIABLES
  private,   \* whether the archives are in the compiler's own format
  pc,        \* where each process is
  holder,    \* who holds the lock of the file
  text,      \* the file
  known,     \* for each process a function from paths to files
  found,     \* the paths each process is to append lines for
  outcome,   \* of the type check: "none", "types" or "fails"
  read,      \* whose export data each process read for each import
  \* history
  recorded,  \* paths some process has appended a whole line for
  before,    \* what was recorded when a process came to read the file
  troubled   \* processes something went wrong for

history == <<recorded, before, troubled>>
vars == <<private, pc, holder, text, known, found, outcome, read, history>>

Provides(p) == Config[p].provides
Missing(p) == Provides(p) \ DOMAIN known[p]

Init ==
  /\ private \in BOOLEAN
  /\ pc = [p \in Processes |-> "start"]
  /\ holder = NoProcess /\ text = <<>>
  /\ known = [p \in Processes |-> <<>>]
  /\ found = [p \in Processes |-> {}]
  /\ outcome = [p \in Processes |-> "none"]
  /\ read = [p \in Processes |-> <<>>]
  /\ recorded = {} /\ before = [p \in Processes |-> {}] /\ troubled = {}

Goto(p, label) == pc' = [pc EXCEPT ![p] = label]
Learn(p, files) == known' = [known EXCEPT ![p] = files]

(* Archives tools can read are read themselves.                            *)
FromArchives(p) ==
  /\ pc[p] = "start" /\ ~private
  /\ Learn(p, [x \in Provides(p) |-> FileOf(x)])
  /\ Goto(p, "import")
  /\ UNCHANGED <<private, holder, text, found, outcome, read, history>>

LockToRead(p) ==
  /\ pc[p] = "start" /\ private
  /\ holder = NoProcess /\ holder' = p
  /\ before' = [before EXCEPT ![p] = recorded]
  /\ Goto(p, "read")
  /\ UNCHANGED <<private, text, known, found, outcome, read, recorded, troubled>>

(* A slip: the lock is kept when nothing is missing.                       *)
ReadAndKeep(p) ==
  /\ pc[p] = "read"
  /\ Learn(p, Known(text))
  /\ IF Provides(p) \subseteq DOMAIN Known(text)
     THEN Goto(p, "import") /\ UNCHANGED holder
     ELSE Goto(p, "lookup") /\ holder' = NoProcess
  /\ UNCHANGED <<private, text, found, outcome, read, history>>

(* readPublic; a file that is not there says nothing.                      *)
Read(p) ==
  /\ pc[p] = "read" /\ holder' = NoProcess
  /\ Learn(p, Known(text))
  /\ Goto(p, IF Provides(p) \subseteq DOMAIN Known(text) THEN "import" ELSE "lookup")
  /\ UNCHANGED <<private, text, found, outcome, read, history>>

(* A slip: what the file said is forgotten.                                *)
LookUpAnew(p) ==
  /\ pc[p] = "lookup"
  /\ found' = [found EXCEPT ![p] = Missing(p) \intersect Listed]
  /\ Learn(p, [x \in found'[p] |-> FileOf(x)])
  /\ Goto(p, "lock")
  /\ UNCHANGED <<private, holder, text, outcome, read, history>>

(* go list -e leaves the file out of a line where a package has none.      *)
LookUp(p) ==
  /\ pc[p] = "lookup"
  /\ found' = [found EXCEPT ![p] = Missing(p) \intersect Listed]
  /\ Learn(p, [x \in DOMAIN known[p] \union found'[p] |->
                 IF x \in found'[p] THEN FileOf(x) ELSE known[p][x]])
  /\ Goto(p, "lock")
  /\ UNCHANGED <<private, holder, text, outcome, read, history>>

LockToAppend(p) ==
  /\ pc[p] = "lock"
  /\ holder = NoProcess /\ holder' = p
  /\ Goto(p, "append")
  /\ UNCHANGED <<private, text, known, found, outcome, read, history>>

(* The go command names the files in some order.                           *)
InOrder(paths) ==
  CHOOSE order \in [1..Cardinality(paths) -> paths] : {order[j] : j \in 1..Cardinality(paths)} = paths
Written(p) == Spread(InOrder(found[p]))

(* A slip: the file is created anew.                                       *)
AppendAnew(p) ==
  /\ pc[p] = "append" /\ holder' = NoProcess
  /\ text' = Written(p)
  /\ recorded' = recorded \union found[p]
  /\ Goto(p, "import")
  /\ UNCHANGED <<private, known, found, outcome, read, before, troubled>>

AppendLines(p) ==
  /\ pc[p] = "append" /\ holder' = NoProcess
  /\ text' = text \o Written(p)
  /\ recorded' = recorded \union found[p]
  /\ Goto(p, "import")
  /\ UNCHANGED <<private, known, found, outcome, read, before, troubled>>

(* A slip: paths are not mapped.                                           *)
SourceFor(p, i) == i

(* An import is the path the importcfg maps it to.                         *)
Mapped(p, i) == IF i \in DOMAIN Config[p].map THEN Config[p].map[i] ELSE i

(* Reads the export data of every import, from a file that is there.       *)
Import(p) ==
  /\ pc[p] = "import"
  /\ LET imports == Config[p].imports
         Opens(i) == Mapped(p, i) \in DOMAIN known[p] /\ known[p][Mapped(p, i)] \in Files
     IN IF \A i \in imports : Opens(i)
        THEN /\ read' = [read EXCEPT ![p] = [i \in imports |-> OwnerOf(known[p][Mapped(p, i)])]]
             /\ outcome' = [outcome EXCEPT ![p] = "types"]
        ELSE outcome' = [outcome EXCEPT ![p] = "fails"] /\ UNCHANGED read
  /\ Goto(p, "end")
  /\ UNCHANGED <<private, holder, text, known, found, history>>

-----------------------------------------------------------------------------
(* The lock file cannot be opened: to read, there is no importer; to       *)
(* append, what was found is not shared.                                   *)
OpenFails(p) ==
  /\ "open" \in Faults
  /\ \/ /\ pc[p] = "start" /\ private
        /\ outcome' = [outcome EXCEPT ![p] = "fails"] /\ Goto(p, "end")
     \/ /\ pc[p] = "lock"
        /\ Goto(p, "import") /\ UNCHANGED outcome
  /\ troubled' = troubled \union {p}
  /\ UNCHANGED <<private, holder, text, known, found, read, recorded, before>>

ListFails(p) ==
  /\ "list" \in Faults /\ pc[p] = "lookup"
  /\ outcome' = [outcome EXCEPT ![p] = "fails"] /\ Goto(p, "end")
  /\ troubled' = troubled \union {p}
  /\ UNCHANGED <<private, holder, text, known, found, read, recorded, before>>

(* The disk is full after part of the lines; the error is ignored.         *)
AppendFails(p) ==
  /\ "append" \in Faults /\ pc[p] = "append" /\ holder' = NoProcess
  /\ \E n \in 0..Len(Written(p)) - 1 : text' = text \o SubSeq(Written(p), 1, n)
  /\ Goto(p, "import")
  /\ troubled' = troubled \union {p}
  /\ UNCHANGED <<private, known, found, outcome, read, recorded, before>>

(* The process dies, and the system drops its lock.                        *)
Kill(p) ==
  /\ "kill" \in Faults /\ pc[p] # "end"
  /\ holder' = IF holder = p THEN NoProcess ELSE holder
  /\ Goto(p, "end")
  /\ troubled' = troubled \union {p}
  /\ UNCHANGED <<private, text, known, found, outcome, read, recorded, before>>

AllEnded == (\A p \in Processes : pc[p] = "end") /\ UNCHANGED vars

Step(p) ==
  \/ FromArchives(p) \/ LockToRead(p) \/ Read(p) \/ LookUp(p)
  \/ LockToAppend(p) \/ AppendLines(p) \/ Import(p)
Fault(p) == OpenFails(p) \/ ListFails(p) \/ AppendFails(p) \/ Kill(p)

Next == (\E p \in Processes : Step(p) \/ Fault(p)) \/ AllEnded

(* The system schedules every process.                                     *)
Spec == Init /\ [][Next]_vars
FairSpec == Spec /\ \A p \in Processes : WF_vars(Step(p))

-----------------------------------------------------------------------------
(* The package the compiler takes an import for.                           *)
Imported(p, i) == IF i \in DOMAIN Config[p].map THEN Config[p].map[i] ELSE i

(* A package is never type-checked against the export data of another than *)
(* it imports, wherever a line was cut short in the file, between its      *)
(* tokens: what publicExports reads back from the lines of other processes *)
(* names the right file or no file at all.                                 *)
ReadsItsImports ==
  \A p \in Processes :
    outcome[p] = "types" => \A i \in Config[p].imports : read[p][i] = Imported(p, i)

(* Where nothing goes wrong, every package whose imports have export data  *)
(* is type-checked: publicExports returns a file for each.                 *)
FindsEveryImport ==
  (troubled = {}) =>
    \A p \in Processes :
      (pc[p] = "end" /\ \A i \in Config[p].imports : Imported(p, i) \in Listed \intersect Provides(p)) =>
         outcome[p] = "types"

(* The go command runs "for the paths no earlier wrapper process of this   *)
(* build looked up" (publicExports), where nothing goes wrong: a line cut  *)
(* short takes the one after it along.                                     *)
LooksUpOnce ==
  (troubled = {}) => \A p \in Processes : pc[p] = "lookup" => Missing(p) \intersect before[p] = {}

(* Every process comes to its type check: nobody waits for the lock for    *)
(* ever.                                                                   *)
AllReturn == \A p \in Processes : <>(pc[p] = "end")
=============================================================================
