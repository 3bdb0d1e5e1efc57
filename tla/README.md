# A formal model of loopvec

loopvec rewrites counted Go loops over slices into code that works a vector at
a time with package `simd`. It runs as a command on source files (`main.go`)
or inside a build (`cmd/loopvec-toolexec`). A rewritten loop has to do what the
source loop does: leave the same elements and accumulators behind, and panic
when the source loop panics. A build with the wrapper has to succeed where the
build without it does. This directory states that as TLA+, checks it with TLC on
small instances, and proves parts of it for every instance with TLAPS.

## 1. The system

| part | source | state it keeps | operations | talks to | what makes it correct |
|---|---|---|---|---|---|
| Lowering | `internal/loopir/lower.go`, `ir.go`, `reason.go` | per loop: temporaries, folded locals, slices reached through fields | `rangeLoop`, `forLoop`, `body`, one method per statement and expression | the type checker's `types.Info`; yields a `Loop` or a `Reason` | it accepts only loops in which running a chunk statement by statement cannot be told from running it element by element |
| Planning | `internal/loopir/plan.go` | a `Plan` | `NewPlan`, `Normalize`, `Leaves` | takes a `Loop`, feeds the emitter | the limit, the slices to check and the pairs that may overlap are complete; every operation has a method |
| Capabilities | `internal/loopir/caps*.go`, `gen/` | a generated table | `supports` | consulted by `NewPlan` | agrees with package `simd` |
| Emission | `internal/rewrite/emit.go` | names given out in one loop | `generateReplacement`, `loop`, `fullLoop`, `copyCall`, `checked` | prints the code that runs later | the printed code keeps the promise above |
| Guards | `internal/rewrite/rewriter.go` | - | `hoistSlices`, `wrapWithOverlapCheck`, `window`, `_loopvecOverlap` | wrap the emitted loop | a loop whose operands share memory falls back to the source; nothing is evaluated the source would not evaluate |
| File rewriting | `internal/rewrite/rewriter.go` `File` | whether the package has the overlap helper | one call per file | `main.go`, toolexec | exactly one helper per package |
| Analysis | `internal/analysis` | - | visits loops, explains refusals | lowering, planning | - |
| Command | `main.go` | files on disk | in place, `-split`, `-d` | file rewriting | a package never ends up with two definitions, or none |
| Toolexec, compile | `cmd/loopvec-toolexec/main.go`, `compile.go` | `variants` file, object directory | `tryRewrite`, `verify`, `recordVariant` | go command, compiler, nested go command | a build that works without it works with it |
| Toolexec, nested build | `simd.go`, `lock_*.go` | files and locks in the build's directory | `cached`, `skipSet`, `exports` | concurrent tool processes, nested go command | computed once, never half a result |
| Toolexec, link | `link.go`, `importcfg.go`, `exports.go` | import configurations, the listing of public export data | add what rewritten packages import, read export data | linker, type checker | every package found, each in one version |
| Toolexec, test targets | `testtarget.go`, `parent_*.go` | - | read the go command's arguments | operating system | a test of what `simd` depends on is noticed |

Three kinds of behaviour are hard here. The emitted code is sequential, but it
replaces the order of the source (element by element) with another one
(statement by statement over a chunk, several accumulators, forward instead of
backward), over slices that may alias and ints that wrap: what must be right is
a reordering. The build tool is a set of processes the go command starts
concurrently, which share files, locks and a build cache and may be killed
between two writes. And what loopvec writes outlives the run: it is compiled in
other builds, where constants have other values, and met again by later runs.
`PROJECT.json` lists the hazards one by one, at the line where each bites.

## 2. The modules

| module | models | as |
|---|---|---|
| `LoopIR` | `lower.go`, `ir.go`, `plan.go`, `window` | what lowering (`Lowers`) and the plan (`Planned`) demand of a loop's dependences, and the plan's decisions |
| `LoopSemantics` | the Go language; `emit.go` `expr` | what the source loop means: `Run`, `ScalarResult` |
| `LoopContract` | - | the abstract specification: the loop ends in the state of the source loop, or panics where it does |
| `VectorLoop` | `emit.go`, guards of `rewriter.go` | the emitted code as a state machine, its refinement of `LoopContract` |
| `Expressions` | `lower.go` `lower`, `cond`; `plan.go` `Normalize`, `checkOps`; `emit.go` `broadcastNames`, `expr` | one statement's value from source tree to method calls |
| `Locals` | `lower.go` `let`, `reduce`, `ifLet`, `assignedIn`, `deadOutsideLoop` | what becomes of the variables a body assigns, over several visits to a loop |
| `Bounds` | `lower.go` `forLoop`, `bound`, `plusOne`, `spell`, `indexAt`; `emit.go`, `plan.go` | header and offset as source text, read by a machine whose ints wrap, in another build |
| `SplitMode` | `main.go`; `rewriter.go` `File` | runs of the command on the files of a package |
| `RewritePackage` | `compile.go` `tryRewrite`, `verify` | which files of a package the compiler is handed |
| `OnceResult` | - | the abstract specification of `cached`: one lookup per build that succeeds or fails once |
| `BuildCache` | `simd.go` `cached`, `lock_*.go` | the processes of a build looking one listing up, with faults |
| `PublicExports` | `exports.go` | the shared listing of export data, and the type check that reads it |
| `TestTarget` | `testtarget.go` | the go command's arguments scanned for packages |
| `ToolexecBuild` | `main.go`, `compile.go`, `simd.go`, `link.go`, `importcfg.go` | builds under the wrapper: compiles in any order, the cache, the linker |
| `VectorLoopMC`, `BoundsMC`, `ExpressionsMC`, `LocalsMC`, `SplitModeMC`, `BuildCacheMC`, `PublicExportsMC`, `TestTargetMC`, `ToolexecBuildMC` | - | the instances TLC checks |
| `VectorLoopProofs`, `BuildCacheProofs`, `RewritePackageProofs`, `ToolexecBuildProofs`, `SplitModeProofs`, `PublicExportsProofs`, `TestTargetProofs`, `LoopContractProofs` | - | theorems |

How they fit together: `Expressions`, `Locals` and `Bounds` justify what
`VectorLoop` takes for granted of a loop (a value is a function of its leaves,
temporaries and accumulators are what `LoopIR` says, the indexes are those of
the header). `ToolexecBuild` takes each lookup of a build for one step with one
outcome, which is `OnceResult`, which `BuildCache` implements; it takes the
verdict on a package for a choice, which `RewritePackage` makes from its files,
and what the wrapper says of the build's tests for the answer `TestTarget`
computes.

### The emitted loop

A **job** is one source loop with the values it meets at run time. Its body is
a sequence of statements (`store`, `let`, `reduce`); a statement has the arms of
an if chain (none for an assignment) and the value of its else or of its right
side. An expression is the list of its leaves in the order the emitter loads
them (`Leaves`) under an uninterpreted function symbol: which element a leaf
reads is what goes wrong here. A load names its slice, its offset, how the
source writes the offset (`a[i]`, `a[i+1]`, `a[i+n]`), and whether it is the
range value variable. A header says where the loop starts and ends, whether
these are constants, whether the start is written `0` and whether the limit is
the length of a slice (`trip`), and in which direction the source counts. Slices
are windows of one memory, so they may be apart, equal, nested or shifted; a
slice may be a field whose pointer is nil.

`Lowers` and `Planned` translate the rejections of `lower.go` and `plan.go`
that depend on the dependences, conditions, temporaries and constants of the
loop. `Init` starts every job either in the emitted code (it is planned) or in
its own loop (it is not). `VectorLoop` then takes one step per decision and
per statement of the emitted code:

| action | emitted code |
|---|---|
| `Hoist` | `if limit > start { _sx := x.f` (`hoistSlices`) |
| `OverlapCheck` | `if _loopvecOverlap(...) { source } else {` |
| `LengthCheck` | `_ = a[limit+off-1]` (`checked`) |
| `CopyCall` | `copy(dst[start:limit], src[start+off:])` |
| `ChunkTest`, `Advance` | `for _i := start; _i < limit; { ... _i += _n }` |
| `CountTest`, `MainTest`, `SingleTest`, `NextCopy` | the loops of whole vectors of a reduction, unrolled and not |
| `LoadAhead` | loads of stored slices at an offset, before every store |
| `VectorLet`, `VectorFold`, `VectorStore`, `VectorPanic` | one statement over a vector, with the loads not yet held |
| `MergeCopy`, `FoldLane`, `NextFold` | accumulators merged, lanes folded into the local |
| `Remainder`, `ScalarBegin`, `ScalarStatement`, `ScalarAdvance` | the scalar loop after a reduction, or the source's own loop |

`loaded` is the emitter's map of the same name together with the vectors the
generated variables hold; a store removes the unshifted key, as the emitter
does, and the rest is whatever it is at run time. `n` is `_n`: set by the first
load of a chunk, or the first store when nothing was loaded.

Package `simd` and the Go language are modelled from how the emitted code uses
them and are marked external in the map: a partial load takes the elements that
are there and zeroes the other lanes, a partial store writes the elements that
are there, both report how many, a whole load or store panics on a slice
shorter than the vector, and an index or a slice expression out of range
panics.

### Values, variables and headers

`Expressions` has a tree with types for every value: elements of slices of four
types, variables, literals, operations, conversions, `math` calls, comparisons
and if chains. `Lower` is `lower`, `cond` and the statement around them (what is
an invariant, what is narrowed to the type of the element, which comparisons are
turned round); `NewPlan` is `Normalize` and `checkOps`; `Emit` is `broadcastNames`
and `expr`. A value means the tree of operations over its operands, in which
the operands of a commutative operation have no order and a fused multiply-add
is the two operations it fuses.

`Locals` has the variables instead: each declared in the body, before the loop,
as a result of the function or in the package, mentioned outside the loop or
not. `Body` lowers the statements with what lowering knows at each: the
statement holding each temporary and the accumulators. The function reaches the
loop several times; each time the source program runs it in `Reach` and the
emitted code runs it in `Vector`, `Combine` and `Remainder`, on variables and
elements of its own.

`Bounds` has start, limit and offset as expression trees over literals, named
constants, variables and lengths, all ints of `Width` bits. `Lower` is done in
the build `Here`; `Enter` picks the build the emitted file is compiled in, the
lengths and the variables. The source loop runs first (`SourceStep`,
`SourceEnds`, `SourcePanics`), then the emitted one (`Check`, `Chunk`, `Vector`,
`Remainder`, `Single`, `LoopEnds`), which records the indexes it reached.

### Files

`SplitMode` has the directory of one package. A run (`Start`) loads what the
scalar build takes on the host, goes through the files in order (`PassOver`,
`RewriteFile`), and writes. `os.WriteFile` is two steps, as it empties a file, or
creates it, before it writes: `CreateSimd`, `WriteSimd`, `EmptyOriginal` and
`GuardOriginal` with `-split`, `EmptySource` and `WriteBack` with `-w`, and
`PrintResult` otherwise. A write fails (`WriteFails`) or the process is killed
(`Kill`) at any step; within a write that leaves the file empty or with a
beginning of what it was to hold (`CutShort`). A file is added between runs
(`AddFile`). A file is its constraint, the version of the code in it, whether it
defines `_loopvecOverlap`, whether it parses and whether it is whole. `Compiles`
and `Builds` are the go command: constraints, systems in file names, functions
declared twice.
`WellFormed` says what a package is before loopvec sees it: one that builds, so
that no system takes two files that declare the same, and lists each file once.

`RewritePackage` is the same loop over files in the wrapper, followed by
`verify`: `Check` is a round (parser, then type checker), `Revert` takes the files
with errors back and goes on to the second and last.

### The build

`BuildCache` is `cached` for one name. An action is one system call (`Lock`,
`ReadErr`, `ReadResult`, `Create`, `Write`, `Unlock`), the nested go command
(`Compute`), a failure of one of them that `Faults` allows (`LockFails`,
`CreateFails`, `WriteFails`, the last disjuncts of `Compute`, `Fail`, `ReadErr`
and `ReadResult`), a further call of the process (`CallAgain`: `tryRewrite` and
`recordVariant` both look the skip set up) or its death (`Kill`), which gives the lock back and
leaves the files. `os.WriteFile` is two steps because the file is there, empty
or short, before it is whole, and that is all `ReadResult` looks at. A read that
fails counts as no file: the listing is computed again and written over the one
that is there. `missed` is a history variable, who could not read a listing that
is there, and `mishaps` another, what has gone wrong so far beside the lookup
itself: properties speak of them, no guard looks at them. `HasFlock`
selects `lock_unix.go` or `lock_other.go`. The build's directory is new in every
build, so the files do not survive it. The content of the listing is `whole` or
`part`; the content of `.err` and a short read of it are left out, since any
`.err` file counts.

`PublicExports` keeps the text of its file as a sequence of tokens, a path, an
equals sign, two tokens of a file name and a newline (`Line`), so that an append
can be cut short inside a line and the next one continue it. A line reads as
what stands before its first equals sign and all that stands behind it, whatever
that is. `Read`, `LookUp` and
`AppendLines` are the three parts of `publicExports`; `Import` is the type
checker's importer with the mapping of the import configuration. The lookup
happens between two holds of the lock, so two processes may ask for the same
path and both append it.

`TestTarget` scans the arguments one by one (`TakeWord`, `PassFlag`,
`TakeCoverpkg`) and answers (`Answer`). What the go command makes of the same
line is `GoTakes`, `Named`, `Covered` and `Tested`.

`ToolexecBuild` has a **unit** for every package of a build, and one more for
each package the go command rebuilds against the test variant of another. A unit
becomes ready when what it imports is there (`Ready`), is taken from the cache
(`UseCached`) or compiled in a process of its own, whose steps are those of
`compile`: `RecordVariant`, `Consider` (`tryRewrite` up to the test target),
`CheckTarget`, `Rewrite`, `Compile`. Processes interleave as the go command lets
them. `LookUp` is a lookup of the build with the outcome all processes share;
the one of `simd`'s archives runs a nested build that goes through the same
cache. An archive is tied to the archives it was compiled against; `Link` extends
the import configuration and takes a program when every tie of what it loads is
met. Several builds, each with its settings, share the cache, and a package may
be edited between two (`Edit`). The go command's cache (`Hits`), its test
variants (`UnitOf`) and the linker (`Accepts`) are external: they are modelled
as far as the wrapper relies on them.

### Abstractions

- In `LoopIR` and `VectorLoop` ints are unbounded; `Bounds` has the wrapping.
  There, elements are an abstract set, and folds abstract operations. `Fold` is
  associative and commutative and folding an identity changes nothing
  (`FoldAssumption`), also where `float` is set:
  float sums may be regrouped only with permission (`FoldsAllowed`) and then
  the result may differ in the last bits, which the model does not show.
- Loop invariants are evaluated once, before the loop, and cannot panic.
- Two offsets with different variables of the same value are one offset.
- After a panic nothing is promised about memory: the source loop stops between
  two elements, the emitted code between two chunks or before the loop.
- The capability table stands as the methods of four element types.
- An import configuration is the set of archives it names, a source file of
  `SplitMode` the facts the go command looks at.
- In `PublicExports` a path is one token: an append is cut short between a path
  and its equals sign, inside the name of a file or before the newline, but not
  inside a path.
- What a stopped write of `main.go` leaves parses only if its constraint is kept,
  which comes first in the file; then whether it does is a free choice. In a file
  whose text mentions the constraint, which therefore gets none, a cut between two
  declarations that would still parse is left out.
- `min` and `max` of two constants are operations over broadcasts in
  `Expressions`, where Go makes them a constant (`lower.go:1358`).
- `ToolexecBuild` leaves out a failing open of the file of variants
  (`compile.go:265-268`), after which nothing is noted, and the
  `runtime` the skip set is listed with (`simd.go:104`), which every package
  depends on whether it imports it or not.
- Package `simd` does what its documentation says. `BUGS.md` names an exception:
  under `GODEBUG=simd=0` the emulated `Load{Float64,Int64,Uint64}sPart` return
  `len(s)` (#82001), and the emitted loops, which advance by that number, go
  wrong. The properties of the loops are about the documented behaviour.
- A lookup that fails does so for every process of the build, as `cached`
  intends; a failed write of its result is in `BuildCache` only.

## 3. What is checked

| run | module, configuration | properties | distinct states |
|---|---|---|---|
| `loops` | `VectorLoopMC`, `Loops.cfg` | `TypeOK`, `ShortSliceWritesNothing`, `ScalarPrefix`, `FoldedOnce`, `OperandsApart`, `HeldCurrent`, `StoresInTrip`, `KeepsContract`, `Terminates` | 131881 |
| `expressions` | `ExpressionsMC`, `Expressions.cfg` | `SameValues`, `Compiles` | 65496 |
| `locals` | `LocalsMC`, `Locals.cfg` | `SameOutcome` | 79718 |
| `headers` | `BoundsMC`, `Headers.cfg` | `SameIndexes`, `EmittedEnds` | 519605 |
| `bounds_less` | `BoundsMC`, `BoundsLess.cfg` | `SameIndexes`, violated | stops there |
| `split_mode` | `SplitModeMC`, `SplitMode.cfg` | `ScalarBuilds`, `SimdBuilds`, `SourceKept`, `SimdWhole` | 542229 |
| `rewrite_package` | `RewritePackage`, `RewritePackage.cfg` | `HandsOverWhatChecks`, `KeptForAReason` | 197814 |
| `cache` | `BuildCacheMC`, `Cache.cfg` | `ComputedOnce`, `WholeAnswers`, `ResultStays`, `FailureRemembered`, `ImplementsOnce`, `Returns` | 534725 |
| `exports` | `PublicExportsMC`, `Exports.cfg` | `ReadsItsImports`, `FindsEveryImport`, `LooksUpOnce`, `AllReturn` | 362509 |
| `test_target` | `TestTargetMC`, `TestTarget.cfg` | `NoticesNamedTests`, `YesForAReason` | 204781 |
| `builds` | `ToolexecBuildMC`, `Builds.cfg` | `NoImportCycle`, `LinksUnlessUntold`, `LinksFromCache`, `ProtectsVariants`, `RegroupsOnRequest` | 193881 |
| `builds_crypto` | `ToolexecBuildMC`, `BuildsCrypto.cfg` | `CryptoLeftAlone`, violated | stops there |

### Loops

The contract is `KeepsContract`: `VectorLoop` with the end of the run as the
only visible step implements `LoopContract`, so the elements and accumulators
at the end are those of the source loop and a panic happens exactly where the
source panics. The other properties say why, at steps the contract does not
see:

- `ScalarPrefix`: between two chunks memory is what the source loop run forward
  up to `_i` leaves, and that run did not panic. This is the loop invariant of
  the emitted code; it is about a forward run even if the source counts down,
  which is the claim that direction cannot matter.
- `FoldedOnce`: between two rounds of a reduction, and while its copies and then
  its lanes are combined, the lanes of all copies of an accumulator and the
  accumulator together hold every element below `_i` exactly once.
- `OperandsApart`: after the overlap check no element a store may touch belongs
  to another slice of the loop at any offset it is read at.
- `HeldCurrent`: a vector that stays in a variable across statements is what
  memory holds.
- `ShortSliceWritesNothing`: a slice too short for the loop is noticed before
  anything is written.
- `StoresInTrip`: no step writes outside the indexes of the loop.
- `Terminates`: the emitted code ends.
- `SameValues`, `Compiles`: every statement computes what the source statement
  does, and what is emitted has no name twice and calls no method that is not
  there.
- `SameOutcome`: the variables the rest of the program can see, and the
  elements, are those of the source each time the loop is reached.
- `SameIndexes`: what is emitted compiles in every build, panics when the source
  does, and otherwise reaches the same indexes. `EmittedEnds`: it ends.

### Files and builds

- `ScalarBuilds`: wherever a split is, or was stopped, the package builds without
  `GOEXPERIMENT=simd` on every system, unless that build takes a file that is
  itself cut short. `SourceKept`: while a source is empty or cut short, its simd
  version is on the disk, whole, so no function is lost.
- `SimdBuilds`: once a run has ended well the package builds with
  `GOEXPERIMENT=simd` on the system loopvec ran on. `SimdWhole`: such a run leaves
  no simd version that is cut short, whichever earlier run did not finish it.
- `HandsOverWhatChecks`: what the compiler is handed type-checks.
  `KeptForAReason`: a package is left alone only when no rewritten file is good,
  when the checker blames no file, when two rounds do not see every error, or
  when the file with the helper is a bad one.
- `ImplementsOnce`: `BuildCache` implements `OnceResult`, so every call of every
  process gets what the one lookup came to. This holds for every step up to the
  first open, read or write that fails (`Harmless`): the lookup itself may fail and
  processes may be killed, except in the middle of a write. Up to there
  `FailureRemembered`: once a call failed no call returns a listing. `ComputedOnce`:
  until anything goes wrong the nested go command runs at most once; a process
  killed after it ran leaves it to be run again.
- `WholeAnswers`: until a write is stopped half way, no call is given a listing
  that is cut short, also where one that could not be read is written over in
  place and processes are killed elsewhere.
- `ResultStays`: with any system call failing and any process killed, a listing
  that is whole is cut only by a process inside that could not read it, never by
  one that had looked for it before it was there. `Returns`: every call returns
  unless its process is killed.
- `ReadsItsImports`: no package is type-checked against the export data of
  another than it imports, whatever was cut short. `FindsEveryImport`,
  `LooksUpOnce`: where nothing fails every import is found, and no path is asked
  for that was in the file when it was read; two processes may still both ask.
  `AllReturn`: nobody waits for the lock for ever.
- `NoticesNamedTests`: a command line that names the packages it tests does not
  hide one `simd` depends on. `YesForAReason`: rewrites are given up only for a
  word that names such a package.
- `NoImportCycle`: no rewritten package that `simd` depends on is in the cache.
  `LinksUnlessUntold`, `LinksFromCache`: the linker takes every program, in a
  cache of its own unless the wrapper could not know of a test, in a shared
  cache where nothing `simd` depends on is tested. `ProtectsVariants`,
  `RegroupsOnRequest`: what is rewritten is what may be. `CryptoLeftAlone`: a
  build that does not ask for it links no rewritten cryptographic package. It is
  violated, see the findings.

Every property is known to fail when the code is changed in a plausible way:
`PROJECT.json` pairs each with such a slip. Most are stated next to the
definition they change (a load that is not taken ahead, a window without
offsets, a vector kept after a store, `x - k + 1` taken for `x - k`, a local
that is returned without its name forgotten, a file guarded before its other
version is written, a lock kept where nothing is missing, a line read after its
last equals sign, a setting that is not part of the tool's identity).

### Bounds

`loops` runs 36 bodies that store (elementwise, copies, fills, shifts ahead
and back, stencils, rows at a variable offset, stores read again, temporaries,
range values, selects with and without else, chains, `&&` and `||`) over slices
of four or five elements at seven distances to either side of the destination,
with eleven headers: counting up and down, from a literal, a variable or a
negative start, to a literal, a variable or the length of a slice, not running
at all. Vectors have two lanes: a loop of four or five iterations is then two
or three chunks, the last one partial, and every way two slices can overlap
within a chunk, across one chunk boundary and not at all occurs. `MinTrip` is 3
instead of 8 so that loops between two constants are long enough at this size.
Eight bodies fold, with one to three accumulators, sums and minima, over five to
twelve iterations, where the plan counts on at most four lanes (`MaxLanes`), so
the vector loop is skipped below eight; unrolling by 4 and by 2 gives one
unrolled round, one or no single vector and a remainder. `MinReduceVectors` is 2
instead of 4. Elements are residues mod 31 under a function that mixes its
operands, so a value taken from the wrong place or the wrong moment shows in the
result; comparisons hold for half of them. Nothing depends on the value 31.

`expressions` has all trees up to two operations deep over an element, a
variable and a number of one type, and over operands of other types where the
language or the narrowing allows one: two is the depth at which names are given
by operand, operands are swapped below the top, and a product meets a sum.
Statements come alone, after a temporary, or with a second store. `locals` has
bodies of up to three statements over two variables declared in every place,
which is a use before, a use after and an assignment between; the loop is
reached twice, so that what it leaves behind is read again, and runs no or three
iterations of vectors of two.

`headers` has ints of five bits, so that the largest and smallest int, and
`-15`, `-9`, `9` and `14` next to a vector or half the range away from them, are values
a variable takes, along with -1 to 5, against lengths up to 4: a limit that
wraps, a product that wraps and an offset that leaves the slice on either side
all occur. `MemoryAssumption` says that no slice comes within two vectors of the
largest int. The constant is 3 where loopvec runs and 2 or 4 elsewhere.

`split_mode` has three files: one between two others is enough for a run cut
off before, at and after it, and for a helper defined by one file and called by
two. Three runs are one cut short, anywhere and with anything a stopped write may
leave, one to repair it and one more.
`rewrite_package` has packages of up to three files, each with any combination
of loops, overlap check, path and fault, for the two rounds of `verify`.

`cache` has three processes, so that two can wait while a third works, dies or
fails, and two calls each, so that a process meets what it left behind itself.
`exports` has three compiles that need a path in
common, more than another asked for, and a path that is mapped; an append may be
cut short after any token. `test_target` has every line of up to
four arguments, a flag and its value on either side of a package and a flag in
front. `builds` has eight packages: two `simd` depends on, one that depends on
them and is edited, one that does not, a cryptographic one, a program and a
test; two builds, since a build takes from the cache what one build left there.
`builds_crypto` is the same without failing lookups and edits, which the
violation does not need.
`MaxBuilds`, `MaxCalls`, `MaxRuns`, `MaxFiles`, `MaxLine`, `Rounds` and `MaxLen`
are all the bounds on counters.

### Deadlock and fairness

Deadlock is checked except where processes simply end, in `BuildCache`
(`Returns` says that none is left waiting); elsewhere the end of a run is a
stutter of its own (`Terminated`, `Done`, `Ended`, `AllBuilt`, `AllEnded`,
`Decided`, `Answered`, `NoRunLeft`), so that a process that waits for something
that never comes is found.

Fairness is only in the `FairSpec` of a module. In `VectorLoop` and `Bounds` it
is weak fairness of the next step: one goroutine runs the code, and while it can
take a step it does. In `BuildCache` it is weak fairness of each process inside
`cached`, which `flock` justifies only in part: a waiter may be overtaken, but
each process calls at most `MaxCalls` times, so the lock is free for good once
the others are through. No system call is made to fail (the fair part is
`Progress`), so a waiter is not let off by an error, and no process is made to
call again or to die. In `PublicExports` it is weak fairness of each process's
own steps, for the same reason: each takes the lock at most twice.

### Findings

`bounds_less`: `lower.go:330-333` says a bound "that names a constant keeps the
name, since the emitted file is compiled for every build and the name can stand
for another value in another one", and `testdata/bound_arch_constant.txt`
shows such a constant. For `i <= n - width`, `plusOne` writes `n - 2` where
`width` is 3 in the build loopvec runs in (`lower.go:319`). Where it is 2 or 4
the emitted loop ends elsewhere than the source loop.

`builds_crypto`: `toolexec.md:23-36` says "Packages are left alone when: [...]
They are cryptographic [...] Set `LOOPVEC_TOOLEXEC_CRYPTO=1` to rewrite them
anyway", and `cmd/loopvec-toolexec/main.go:19` that such packages "are otherwise
left alone". `printVersion` makes only the variable for float sums part of the
identity the go command caches archives under (`main.go:93-95`). After a build
with `LOOPVEC_TOOLEXEC_CRYPTO=1` the cache holds a rewritten `crypto/md5`, which a
later build without it takes and links. The same code keeps the promise for
float sums (`RegroupsOnRequest`), because there the setting is in the identity.

### Known limits

These come out of the models too. Each property above holds with the condition
named here; without it TLC finds the case.

| case | source | to see it |
|---|---|---|
| a constant offset is written as its value, a limit is taken for positive and a loop for one that runs where the constant is so here | `lower.go:1335`, `plan.go:180` | `SameIndexes` with `At(Up(Lit(0), d), w)`, or with `Up(Lit(0), w)` and a build where `w` is 0 |
| `i <= n - 1` becomes `i < n`, and `n - 1` wraps for the smallest `n`: the source panics, the emitted loop does not run | `lower.go:303-305` | `SameIndexes` with `UpTo(Lit(0), Less(n, 1))` |
| a condition that divides two `float64` variables, compared with a number, is broadcast as `float64` into `float32` vectors | `plan.go:159` | `Compiles` with such a comparison in `Compared` |
| "package " in a comment before the clause cuts the comment short; the text of the constraint elsewhere in the file leaves it unguarded | `main.go:301-310` | `ScalarBuilds` without `CutsNoComment`, `SimdBuilds` without `GuardsAll` |
| a second split of a package with overlap checks skips the files guarded by the first and defines the helper again | `main.go:192` | `SimdBuilds` without `runs = 1` and `checks = {}` |
| `a_linux.go` becomes `a_linux_simd.go`, which every system takes | `main.go:218` | `SimdBuilds` with `Builds` for every system |
| `go test -run TestX` in the directory of a package `simd` depends on: the value is taken for the only pattern | `testtarget.go:93` | `NoticesTests` as an invariant, `MaxLine = 2` |
| a test of something `simd` depends on after a build in the same cache links rewritten packages with two versions of it | `compile.go:139` | `LinksFromCache` without its condition on tests |
| a variant that comes from the cache is not noted, as no process compiles it | `compile.go:255-271` | `ProtectsVariants` without `builds = 1` |
| a rewritten package from the cache is linked in a build in which the lookup of `simd`'s archives fails | `link.go` | `LinksFromCache` without its condition on the lookup |
| an append of export data cut short inside a path leaves a part that may be another path, and the equals sign of the next append may follow it | `exports.go:75` | not in the model, whose paths are whole; `ReadsItsImports` speaks of the cuts that are |
| systems without `flock`: a listing may be read while it is written | `lock_other.go:5-7` | `WholeAnswers` with `HasFlock = FALSE` |
| a listing cut short by a full disk or a kill is taken for the listing by whoever comes next, and the failure is not remembered | `simd.go:174-175,194` | `WholeAnswers` without its condition on what was stopped |
| a listing that cannot be read is computed again, and cut to nothing to be written: it is torn for good if that write is stopped | `simd.go:186,194` | `ResultStays` without its exception |
| a run killed, or out of disk, within a write leaves a source or a simd version empty or cut short; the scalar build that takes the file is broken, and unless the file kept its constraint the next run cannot load the package and repairs nothing | `main.go:220,224,228` | `ScalarBuilds` without its condition on what is whole |

## 4. What is proved

| theorem | under | statement |
|---|---|---|
| `VectorLoopProofs!TypeCorrect` | | `Spec => []TypeOK` |
| `VectorLoopProofs!OverlapCheckSound` | | `Spec => []OperandsApart` |
| `VectorLoopProofs!WritesStayInTrip` | | `Spec => StoresInTrip` |
| `VectorLoopProofs!ShortSlicesNoticed` | | `Spec => []ShortSliceWritesNothing` |
| `VectorLoopProofs!LoadedStaysCurrent` | | `Spec => []HeldCurrent` |
| `VectorLoopProofs!ChunksKeepOrder` | | `Spec => []ScalarPrefix` |
| `LoopContractProofs!FoldedExactlyOnce` | | `Spec => []FoldedOnce` |
| `LoopContractProofs!EndsAsSource` | | `Spec => []EndInv` |
| `LoopContractProofs!ImplementsContract` | | `Spec => KeepsContract` |
| `BuildCacheProofs!ResultTornByItsReader` | `HasFlock` | `Spec => ResultStays` |
| `BuildCacheProofs!NeverCutShort` | `HasFlock` | `Spec => []WholeAnswers` |
| `BuildCacheProofs!ComputesOnce` | `HasFlock` | `Spec => []ComputedOnce` |
| `BuildCacheProofs!FailuresStay` | `HasFlock` | `Spec => FailureRemembered` |
| `BuildCacheProofs!OneLookup` | `HasFlock` | `Spec => ImplementsOnce` |
| `RewritePackageProofs!HandedOverChecked` | | `Spec => []HandsOverWhatChecks` |
| `RewritePackageProofs!AlwaysKeptForAReason` | | `Spec => []KeptForAReason` |
| `ToolexecBuildProofs!TypeCorrect` | | `Spec => []TypeOK` |
| `ToolexecBuildProofs!NeverACycle` | | `Spec => []NoImportCycle` |
| `ToolexecBuildProofs!NeverRegroupsUnasked` | | `Spec => []RegroupsOnRequest` |
| `ToolexecBuildProofs!WorkingBuildsLink` | | `Spec => []LinksUnlessUntold` |
| `ToolexecBuildProofs!VariantsProtected` | | `Spec => []ProtectsVariants` |
| `ToolexecBuildProofs!CachedBuildsLink` | | `Spec => []LinksFromCache` |
| `SplitModeProofs!OnlyTornFilesBreakScalar` | | `Spec => []ScalarBuilds` |
| `SplitModeProofs!SourceNeverLost` | | `Spec => []SourceKept` |
| `SplitModeProofs!SimdVersionsWhole` | | `Spec => []SimdWhole` |
| `SplitModeProofs!SimdBuildsAfterARun` | | `Spec => []SimdBuilds` |
| `PublicExportsProofs!NoOtherImport` | | `Spec => []ReadsItsImports` |
| `PublicExportsProofs!EveryImportFound` | | `Spec => []FindsEveryImport` |
| `PublicExportsProofs!LookedUpOnce` | | `Spec => []LooksUpOnce` |
| `TestTargetProofs!NamedTestsNoticed` | | `Spec => []NoticesNamedTests` |
| `TestTargetProofs!YesOnlyForAReason` | | `Spec => []YesForAReason` |

The assumptions are those the modules name (`NamesAssumption`,
`PlanAssumption`, `JobsAssumption`, `ValueAssumption`, `OperationsAssumption`,
`FoldAssumption`, `LanesAssumption`, `CacheAssumption`, `BuildAssumption`, `FilesAssumption`,
`SplitAssumption`, `ExportsAssumption`, `TargetAssumption`). TLC
evaluates each in the runs of its module.

**`VectorLoopProofs`**, for every set of jobs that satisfies `JobOK`, every
memory, every vector length up to `MaxLanes`, every interpretation of the
function symbols and folds. `TypeOK` is not inductive by itself. A fold writes
to the accumulator of its copy, `_i += _n` needs a number of lanes, and a scalar
loop reads the range value from the slice it ranges over. `Inv` therefore adds
to it

- `JobOK(job)`: the loop that runs is one of the jobs;
- `ControlInv`: the program counter fits the kind of loop that was emitted, and
  only the scalar loops run outside mode `vector`;
- `IndexInv`: `_i` is never below the start where the code counts up;
- `ChunkInv`: inside a body `copy` is below `Copies`, and while the number of
  lanes of the chunk is unknown nothing was loaded or stored, so when the
  chunk ends it is known (`ChunkKnown`; a plan without a reduction has a store,
  because a temporary nobody reads is rejected);
- `ApartInv`: past the overlap check no pair overlaps in the sense of
  `_loopvecOverlap`.

`Invariance` is `Spec => []Inv`; `InvStep` has one lemma per conjunct, each with
one case per action. `OverlapCheckSound` is then an argument about intervals:
`TouchedInWindow` puts every element the loop touches between `Low` and `High`
of its slice (which rests on `IntsBounded`, the least and greatest of a set of
ints, by `LeastNatural`), and `ApartSound` concludes from two half-open
intervals of addresses that do not meet. `WritesStayInTrip` rests on
`TargetHigh`, the operand of a store ends at the limit whether the plan capped
it or the slice's length is the limit, and on `StoreVectorWithin`. A copy is
`CopyCallWithin`.

`ShortSlicesNoticed` adds `ShortInv`: nothing was written or every access is
inside its slice (`InTrip`), and past the length checks it is the latter, unless
the loop does not run (`ChecksSuffice`: the checks, the cap and the limit that is
a slice's own length together cover every access). `LoadedStaysCurrent` adds
`HeldInv`: in every lane of the loop `loaded` holds what a load at `_i` would
give now, except for a stored slice at an offset, whose vector is of before the
chunk. A store removes the unshifted key of its own slice; that it leaves the
other slices' vectors current is `OperandsApart`.

`ChunksKeepOrder` is the reordering itself: statements over a chunk against
iterations one after the other. `After(job, x)` is the state of the source loop
run forward up to index `x`, `During(job, x, q)` the one after `q` statements
more, those of iteration `x`. `LaneInv` says where a chunk is after `q`
statements:

- `MemoryAt`: an element some lane stores to holds what it holds in `During` of
  that lane, and any other what it held before the chunk, though in the source
  whole iterations lie between one lane's statement and the next one's;
- `TempsAt`: each temporary defined so far holds, lane by lane, what it holds in
  `During` of that lane;
- `AheadAt`: the vectors read ahead of the stores hold what memory held before
  the chunk;
- the source did not panic before the chunk, and a chunk with fewer lanes than
  a vector reaches the limit (`LengthAt`).

The last but one is what a lane needs there: a stored slice is read at an offset
only ahead of the index (`DependencesForward`), so the element is one of a later
iteration, which no iteration of the chunk up to that lane has stored
(`NotStoredYet`). Everywhere else two lanes do not meet, by `SameElement`: an
element one iteration stores and another touches is the same element of the
same slice, or the slices are set apart by the overlap check. `LaneReads` and
`LaneAssigns` conclude that a statement gives each lane the value it assigns in
that iteration, `ChunkEnds` that a whole body is the iterations of its lanes.

All this holds if the rest of the loop is inside its slices (`Inside`). If it is
not, `NotBelow` still says that no statement so far reached below a slice, so a
body that comes to its end was inside after all (`DoneInside`, where `ShortInv`
gives the upper end). The invariant leans on the others: `Inv`, `ShortInv`,
`HeldInv` for the vectors in variables, and `StartInv`, nothing is written
before the first chunk. `Run` and `BodyRun` are functions defined by recursion
over numbers; `RunIs` and `BodyRunIs` give their equations without an induction
theorem, from `SequenceExists`, which rests on `StepByStep`: a set of numbers
that has 0 and the successor of each member misses none, because what it missed
would have a least number.

**`LoopContractProofs`** goes from the loop invariant to the contract, under the
same assumptions and that the order of a fold does not matter
(`FoldAssumption`). `AllInv` is what `VectorLoopProofs` keeps and

- `FreshInv`: the vector code leaves the scalar state alone until it combines
  the lanes, and then folds only into accumulators that have lanes;
- `FoldInv`: `FoldedOnce`, and the same between two statements of a chunk, where
  the folds already done count up to its end and the others up to its start.
  `Folded` is a fold of folds: the copies of each lane, then the lanes
  (`FoldOver`). A chunk of a reduction is a whole vector (`FullChunk`) and adds
  one value to each lane of one copy (`LaneTotal`, `VectorTotal`); merging a copy
  and folding a lane move a value from one fold to the other (`MergeTotal`,
  `FoldOverFront`);
- `RestInv`: the remainder goes on where the vector loop stopped, not knowing
  the temporaries of the iterations before, which no statement reads;
- `OriginalInv`: the loop kept for slices that overlap is where the source loop
  is, counting as it counts;
- `EndInv`: the code ends as the source loop does, or panics and so does that
  one. This is the contract; `ImplementsContract` only adds that a step that
  does not end the run is invisible and that nothing follows the end.

Two things make `EndInv` more than `ScalarPrefix` at the last index. The code may
panic before the loop or at a chunk, the source at some element: `RunPanics` says
that an index outside a slice anywhere in the loop makes the source loop panic
whichever way it counts, so it is enough that each check of the code (a length
check, the slice expression of a load, of a store or of a `copy`) fails only if
there is such an index (`EndLength`, `AccessEnd`, `EndCopyPanic`). And the source
may count down where the emitted code counts up: a body that may be rewritten
for a loop that counts down reads no element another iteration stores, so each
iteration does what it would do alone (`OnlyOwn`), and by `DoneRun` the
iterations done so far have left what they leave alone, in either order, and
the accumulators the fold of their values. `EitherWay` concludes that both runs end
in the same state. `CopyElement` is the same for a loop that is a `copy`, which
moves every element as it was before.

**`BuildCacheProofs`**, for any number of processes that call any number of
times, and any faults. `LockInv` is inductive under all of them: the process
between `Lock` and `Unlock` is the one that holds the lock (`HolderInv`), and one
that looks the listing up found none or could not read it (`LookupInv`), which is
`ResultTornByItsReader`. `NoneTornInv` adds that until a write is stopped a
listing that is cut short has a process writing it, which is inside, so a reader
is not: `NeverCutShort`, whatever cannot be read or opened. `FullInv` adds what
holds as long as nothing does harm but the lookup itself (`HarmlessInv`): nobody
works on a listing once a failure is recorded, and none that is there was missed
(`OnceInv`); nobody has an answer early (`AnswerInv`), and none is an error unless
the failure is on file (`AnsweredInv`); and, until anything goes wrong, that what
was computed is in a file or on its way into one (`CountInv`). `OneLookup` maps
`Fail` and `Write` to the answer that settles the lookup, the two reads to later
answers, and the rest, a kill among it, to stutters. What has gone wrong is not
forgotten (`MishapsGrow`), so each condition is one on the past of a step.

**`RewritePackageProofs`**, for any number of files. The invariant says which
file defines the helper (`DefinerInv`: the first seen that calls it, if its path
is known, and no other) and what is still rewritten (`RoundInv`: every file seen
that can be, less, after the first round that failed, those it blamed, which are
`ErrorsIn`). A second round then finds an error only where the first stopped at
the parser, where the file with the helper went, or where the checker blamed no
file: the reasons `KeptForAReason` lists.

**`ToolexecBuildProofs`**, for every import graph, every set of builds and any
number of them. `GeneralInv` is `TypeOK`, `PlaceInv` (a process that may rewrite
is at a package `simd` does not depend on, and a unit's imports are compiled
before it), `CacheInv` (what the cache holds) and `ArchiveInv` (an archive of the
build is of its unit and tied to the archives of its imports). It gives
`NeverACycle` and `NeverRegroupsUnasked`. `OneBuildInv` is about the first build
of a cache: nothing in it comes from elsewhere, so what was noted of variants is
complete before a package that was compiled against one is considered
(`VariantsNoted`: the note is made in the process that compiles the variant, which
ends before its importers start), which gives `WorkingBuildsLink`
and `VariantsProtected`. `SharedInv` is about any number of builds:
an archive of what `simd` depends on that is not of a test is source, tied to
source (`TiedToSources`), so the archives a program gets from its own units and
those added from the nested build are the same ones, whichever build made them;
that is `CachedBuildsLink`. The facts about the import graph are
`ReachesSelf` and `ReachesClosed`: what a package reaches is the least set
closed under imports, so nothing is proved by induction over paths.

**`SplitModeProofs`**, for every package, any set of systems, any number of
runs with a kill or a failed write at any step, within a write too. No property
is inductive: a build is a matter of all files, and a run changes one. The
invariant says

- `DiskInv`: what a file may be (a source, guarded or not, `ScalarFile`; rewritten
  code, `LanesFile`; the beginning of such, `TornFile`), and that a source that is
  guarded or cut short has its whole simd version beside it;
- `RunInv`: what the run under way keeps in memory and on disk (`StepInv`). From
  `WriteSimd` to `EmptyOriginal` the simd version on disk is the result in
  memory; then the result is the guarded source, of which the disk has nothing
  (`HoldsGuarded`);
- `PendingInv`: a file whose two versions the simd build would both take (a
  run was cut short between the two writes) lies ahead of the run, never behind
  it, so a run that ends well has guarded them all. That is where the guard's
  condition (`GuardsAll`) is needed;
- `FirstInv`: what the first run wrote lies behind it, and is of the kind its
  mode writes;
- `HelperInv`: in that run the helper is in exactly one file once a file that
  calls it was written, or in the result that is about to be.

`OnlyTornFilesBreakScalar` follows without the last three: what the scalar build
takes declares what the package declared (`TakenFiles`, `DeclaredOnce`), whichever
step came last, and what is whole parses. `SourceNeverLost` is part of `DiskInv`:
the source is emptied only in the step after its simd version was written.
`SimdVersionsWhole` needs `PendingInv`: a simd version that is cut short is one of
a source that is still unguarded (`NotBoth`), so a later run rewrites it, and one
that ends well has met them all. `SimdBuildsAfterARun` needs the whole invariant:
by `OneVersion` the simd build takes each file once, by `WholeVersions` a whole
one, and by `HelperInv` one of them has the helper if any calls it.

**`PublicExportsProofs`**, for any number of compiles of any packages, any listing
and any faults. The text is what several processes appended, some of it cut
short, so nothing is known of its lines. `OwnNames` is local instead: where a
path, an equals sign and the directory of a file stand in a row, the file is
that of the path. Appending any prefix of whole lines keeps it (`CutLines`),
as a line begins with a path, whatever it is cut to. From it `KnownIsOwn`: what
the text says of a path is the name of its own file or of none, which is
`NoOtherImport`. Where nothing went wrong the text is whole lines (`SharedInv`,
with `SpreadIs` for the arithmetic of positions), so that it says exactly what
was recorded (`KnownOfLines`); the other two theorems are about who knew what
when. `Max` and `Min` in `Known` are given meaning by `LeastNatural`.

**`TestTargetProofs`**, for command lines of any length. The invariant relates the
patterns to the part of the line that was passed: they are its words and the
values of `-coverpkg` (`PatternsInv`), `-args` is not among what was passed and no
`-coverpkg` is passed without its value (`PassedInv`), and an answer was given
at the end of the line or at `-args` (`AnswerInv`). What the go command takes
for a package (`GoTakes`) is defined without the scan; `NamedAreTaken` says that
it is among the patterns, also where the scan takes the value of a flag for a
package too.

Only model-checked: `Terminates`, `Returns`, `EmittedEnds` and `AllReturn`, which
need fairness, which the prover does not handle; and `SameValues`, `Compiles`,
`SameOutcome` and `SameIndexes` of `Expressions`, `Locals` and `Bounds`, which are
built from recursive operators over trees, which the prover cannot be used on.

## 5. Not modelled, and what is left

- `caps_gen.go` and its generator: a table; a wrong entry does not compile.
- `internal/analysis`: a walk over the tree without decisions of its own, and
  the reasons lowering reports (`reason.go`).
- The identity a fold starts from, per element type and width (`emit.go`
  `identity`); `VectorLoop` assumes it is one (`FoldAssumption`).
- Which two expressions are one slice, and the names of hoisted slices and
  generated variables; a name that is taken is a matter of the text.
- The edits inside a file: imports, the place of declarations, comments, labels
  and gotos.
- Reading the compiler's flags and the process table (`parseCompileArgs`,
  `parent_*.go`), positions in error messages, the directory of rewritten
  sources.
- `bench/` and `tsvc/`: inputs of measurements and tests.

Next would be, in this order: the identities and folds of every type against the
fold over bounded inputs, which would discharge `FoldAssumption` for ints; and
which expressions name one slice.

## 6. Running it

    tlc -workers 2 -config Loops.cfg VectorLoopMC
    tlc -workers 2 -config Expressions.cfg ExpressionsMC
    tlc -workers 2 -config Locals.cfg LocalsMC
    tlc -workers 2 -config Headers.cfg BoundsMC
    tlc -workers 2 -config BoundsLess.cfg BoundsMC
    tlc -workers 2 -config SplitMode.cfg SplitModeMC
    tlc -workers 2 -config RewritePackage.cfg RewritePackage
    tlc -workers 2 -config Cache.cfg BuildCacheMC
    tlc -workers 2 -config Exports.cfg PublicExportsMC
    tlc -workers 2 -config TestTarget.cfg TestTargetMC
    tlc -workers 2 -config Builds.cfg ToolexecBuildMC
    tlc -workers 2 -config BuildsCrypto.cfg ToolexecBuildMC
    tlapm VectorLoopProofs.tla
    tlapm LoopContractProofs.tla
    tlapm BuildCacheProofs.tla
    tlapm RewritePackageProofs.tla
    tlapm ToolexecBuildProofs.tla
    tlapm SplitModeProofs.tla
    tlapm PublicExportsProofs.tla
    tlapm TestTargetProofs.tla
