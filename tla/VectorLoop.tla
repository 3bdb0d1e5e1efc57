------------------------------ MODULE VectorLoop ------------------------------
(***************************************************************************)
(* The code loopvec emits for one loop, executed step by step:             *)
(*                                                                         *)
(*   hoistSlices( wrapWithOverlapCheck( checked( loop | fullLoop | copy )))*)
(*                                                                         *)
(* of internal/rewrite/rewriter.go and emit.go.  One action is one         *)
(* decision, one statement of the vector body over a whole vector, or one  *)
(* statement of the scalar body.  mode tells which code is running: the    *)
(* original loop ("original": the loop was not rewritten, or the overlap   *)
(* check fell back to it), the vector loop ("vector") or the scalar        *)
(* remainder of a reduction ("rest").                                      *)
(***************************************************************************)
EXTENDS LoopSemantics

CONSTANTS
  Lanes,        \* Len() of a vector on the machine the code runs on
  NoLanes       \* "nothing was loaded or stored in this chunk yet"

ASSUME LanesAssumption == Lanes \in 1..MaxLanes /\ NoLanes \notin Int

VARIABLES
  job,      \* the loop being run; never changes
  mode, pc, \* which code runs, and where it is
  mem, acc, \* the memory behind the slices, the scalar accumulators
  i,        \* _i, or the index variable of a scalar loop
  k,        \* the statement of the body that runs next
  copy,     \* which of the unrolled bodies runs
  n,        \* _n
  loaded,   \* the vectors loaded in this body: a function of their keys
  temps,    \* the vectors the temporaries hold
  accs,     \* the vector accumulators of each fold, one per unrolled body
  lane,     \* the lane folded next into the scalar accumulator
  locals,   \* the temporaries of the scalar loop
  value     \* its range value variable

vars == <<job, mode, pc, mem, acc, i, k, copy, n, loaded, temps, accs, lane, locals, value>>
scalarVars == <<locals, value>>
vectorVars == <<copy, n, loaded, temps, accs, lane>>

Lane == 0..(Lanes - 1)
Vector == [Lane -> Value]
ZeroVector == [l \in Lane |-> Zero]
Empty == [x \in {} |-> ZeroVector]

-----------------------------------------------------------------------------
(***************************************************************************)
(* Slices of slices.  Below Bound the emitter writes ref[pos:Bound], and   *)
(* ref[pos+off:] otherwise.                                                *)
(***************************************************************************)
OperandHigh(key) == IF Capped(job) /\ key[2] = "none" THEN job.limit ELSE job.slices[key[1]].len
OperandLow(key, pos) == pos + key[3]
OperandOK(key, pos) ==
  0 <= OperandLow(key, pos) /\ OperandLow(key, pos) <= OperandHigh(key)
  /\ OperandHigh(key) <= job.slices[key[1]].len
OperandLen(key, pos) == OperandHigh(key) - OperandLow(key, pos)

(* Lanes a partial load or store of the operand covers.                    *)
Covered(key, pos) == IF OperandLen(key, pos) < Lanes THEN OperandLen(key, pos) ELSE Lanes

(* A whole vector panics on an operand shorter than it.                    *)
AccessOK(key, pos) ==
  OperandOK(key, pos) /\ (Full(job.body) => OperandLen(key, pos) >= Lanes)

LoadVector(key, pos) ==
  [l \in Lane |-> IF l < Covered(key, pos)
                  THEN mem[ElementAddr(job, key[1], OperandLow(key, pos)) + l]
                  ELSE Zero]

StoreVector(key, pos, vec) ==
  [a \in Addr |->
     LET l == a - ElementAddr(job, key[1], OperandLow(key, pos))
     IN  IF l \in 0..(Covered(key, pos) - 1) THEN vec[l] ELSE mem[a]]

(* Where copy number copy of the body works.                               *)
Pos == i + copy * Lanes

(* unroll.                                                                 *)
Copies ==
  LET fit == 8 \div Cardinality(Folds(job.body))
  IN  IF ~job.float \/ ~Full(job.body) THEN 1
      ELSE IF fit \in 1..4 THEN fit ELSE IF fit > 4 THEN 4 ELSE 1
Copy == 0..(Copies - 1)

(* emitLoad for each of loads in turn: what is loaded stays loaded.        *)
LoadsOK(loads) == \A key \in Keys(loads) \ DOMAIN loaded : AccessOK(key, Pos)
WithLoads(loads) ==
  [key \in DOMAIN loaded \cup Keys(loads) |->
     IF key \in DOMAIN loaded THEN loaded[key] ELSE LoadVector(key, Pos)]

(* The first load of a chunk says how many lanes the chunk has.            *)
LanesAfter(leaves) ==
  IF n = NoLanes /\ leaves # <<>> THEN Covered(Key(leaves[1]), Pos) ELSE n

-----------------------------------------------------------------------------
(***************************************************************************)
(* The checks before the loop.                                             *)
(***************************************************************************)
Whole == ~Capped(job) /\ job.startZero
Low(ref) == IF Whole THEN 0 ELSE WindowLow(job, ref)
High(ref) == IF Whole THEN job.slices[ref].len ELSE WindowHigh(job, ref)

(* _loopvecOverlap(a, b, window...)                                        *)
LoopvecOverlap(a, b) ==
  /\ Low(a) < High(a)
  /\ Low(b) < High(b)
  /\ ElementAddr(job, a, Low(a)) < ElementAddr(job, b, High(b))
  /\ ElementAddr(job, b, Low(b)) < ElementAddr(job, a, High(a))

SomeOverlap == \E pair \in Overlaps(job.body) : LoopvecOverlap(pair[1], pair[2])

(* Slips: a store needs no check when its slice limits the loop, and so    *)
(* neither do the loads; the check is one element short.                   *)
LengthChecksBoundOnly == IF Capped(job) THEN Checked(job.body) ELSE {}
LengthOKOneShort(access) == (job.limit + access[3] - 2) \in 0..(job.slices[access[1]].len - 1)

(* The accesses whose length is checked, and the check limit+off-1 < len.  *)
LengthChecks ==
  {access \in Checked(job.body) :
     ~(~Capped(job) /\ access[2] = "none" /\ access[1] = job.trip)}
LengthOK(access) == (job.limit + access[3] - 1) \in 0..(job.slices[access[1]].len - 1)

Runs == job.limit > job.start

-----------------------------------------------------------------------------
Init ==
  /\ job \in Jobs
  /\ mode = IF Planned(job) THEN "vector" ELSE "original"
  /\ pc = IF Planned(job) THEN "hoist" ELSE "begin"
  /\ i = IF Planned(job) THEN job.start ELSE FirstIndex(job)
  /\ mem = Mem0
  /\ acc = Acc0
  /\ k = 1 /\ copy = 0 /\ n = NoLanes
  /\ loaded = Empty
  /\ temps = [t \in TempNames |-> ZeroVector]
  /\ accs = [s \in Folds(job.body) |-> [c \in Copy |-> ZeroVector]]
  /\ lane = 0
  /\ locals = [t \in TempNames |-> Zero]
  /\ value = Zero

Goto(label) == pc' = label
Stop(label) == Goto(label) /\ UNCHANGED <<mode, mem, acc, i, k, vectorVars, scalarVars>>

(* The block that assigns the hoisted slices is entered only when the loop *)
(* runs; reading a field of a nil pointer panics.                          *)
Hoist ==
  /\ pc = "hoist"
  /\ IF Hoists(job) # {} /\ ~NonEmpty(job) /\ ~Runs THEN Stop("done")
     ELSE IF Hoists(job) # {} /\ job.nilRoot THEN Stop("panic")
     ELSE Stop("overlap")
  /\ UNCHANGED job

(* Fall back to the source's own loop when two operands may share memory.  *)
OverlapCheck ==
  /\ pc = "overlap"
  /\ IF SomeOverlap
     THEN /\ mode' = "original"
          /\ i' = FirstIndex(job)
          /\ Goto("begin")
          /\ UNCHANGED <<mem, acc, k, vectorVars, scalarVars>>
     ELSE Stop("check")
  /\ UNCHANGED job

LoopLabel == IF IsCopy(job.body) THEN "copy" ELSE IF Full(job.body) THEN "count" ELSE "test"

(* checked: an operand too short for the limit panics here.                *)
LengthCheck ==
  /\ pc = "check"
  /\ IF LengthChecks # {} /\ ~NonEmpty(job) /\ ~Runs THEN Stop("done")
     ELSE IF \E access \in LengthChecks : ~LengthOK(access) THEN Stop("panic")
     ELSE Stop(LoopLabel)
  /\ UNCHANGED job

-----------------------------------------------------------------------------
(* copyCall: copy(dst[start:bound], src[start+off:]).                      *)
CopyCall ==
  /\ pc = "copy"
  /\ LET dst == AtIndex(job.body[1].target)
         src == Key(job.body[1].other[1].loads[1])
         high == IF Capped(job) THEN job.limit ELSE job.slices[dst[1]].len
         from == OperandLow(src, job.start)
         moved == job.slices[src[1]].len - from
     IN  IF /\ 0 <= job.start /\ job.start <= high /\ high <= job.slices[dst[1]].len
            /\ 0 <= from /\ from <= job.slices[src[1]].len
         THEN /\ mem' = [a \in Addr |->
                           LET x == a - ElementAddr(job, dst[1], job.start)
                           IN  IF x \in 0..(high - job.start - 1) /\ x < moved
                               THEN mem[ElementAddr(job, src[1], from) + x] ELSE mem[a]]
              /\ Goto("done")
              /\ UNCHANGED <<mode, acc, i, k, vectorVars, scalarVars>>
         ELSE Stop("panic")
  /\ UNCHANGED job

-----------------------------------------------------------------------------
(***************************************************************************)
(* The vector loop.  In the loop of partial vectors a chunk is one body;   *)
(* a reduction runs Copies bodies per iteration while so many whole        *)
(* vectors remain, then one, and leaves the rest to the scalar loop.       *)
(***************************************************************************)
StartBody(c) ==
  /\ copy' = c /\ k' = 1 /\ loaded' = Empty
  /\ Goto("load")

(* for _i := start; _i < limit                                             *)
ChunkTest ==
  /\ pc = "test"
  /\ IF i < job.limit
     THEN StartBody(0) /\ n' = NoLanes /\ UNCHANGED <<mode, mem, acc, i, temps, accs, lane, scalarVars>>
     ELSE Stop("done")
  /\ UNCHANGED job

(* A slip: only the first copy of an accumulator is set up.                *)
FirstAccs == [s \in Folds(job.body) |-> [c \in {0} |-> [l \in Lane |-> Identity(job.body[s].op)]]]

FreshAccs == [s \in Folds(job.body) |-> [c \in Copy |-> [l \in Lane |-> Identity(job.body[s].op)]]]

(* if limit-start >= MinReduceVectors*MaxLanes, with accumulators that     *)
(* start at the identity.                                                  *)
CountTest ==
  /\ pc = "count"
  /\ IF job.limit - job.start >= MinReduceVectors * MaxLanes
     THEN /\ accs' = FreshAccs
          /\ Goto("main")
          /\ UNCHANGED mode
     ELSE mode' = "rest" /\ Goto("begin") /\ UNCHANGED accs
  /\ UNCHANGED <<job, mem, acc, i, k, copy, n, loaded, temps, lane, scalarVars>>

(* The unrolled loop, and the loop of one vector after it.                 *)
MainTest ==
  /\ pc = "main"
  /\ Copies > 1 /\ i + Copies * Lanes <= job.limit
  /\ StartBody(0)
  /\ n' = Copies * Lanes
  /\ UNCHANGED <<job, mode, mem, acc, i, temps, accs, lane, scalarVars>>

SingleTest ==
  /\ pc = "main"
  /\ ~(Copies > 1 /\ i + Copies * Lanes <= job.limit)
  /\ IF i + Lanes <= job.limit
     THEN StartBody(0) /\ n' = Lanes
     ELSE /\ Goto("combine")
          /\ k' = 1 /\ copy' = 1
          /\ UNCHANGED <<loaded, n>>
  /\ UNCHANGED <<job, mode, mem, acc, i, temps, accs, lane, scalarVars>>

(* The loads a stored slice is read ahead with come before every store.    *)
LoadAhead ==
  /\ pc = "load"
  /\ IF LoadsOK(LoadsAhead(job.body))
     THEN /\ loaded' = WithLoads(LoadsAhead(job.body))
          /\ n' = LanesAfter(LeavesAhead(job.body))
          /\ Goto("statement")
          /\ UNCHANGED <<mode, mem, acc, i, k, copy, temps, accs, lane, scalarVars>>
     ELSE Stop("panic")
  /\ UNCHANGED job

(* One statement of the body, over a whole vector.                         *)
LaneValue(s, held, l) ==
  SelectValue(s, [ld \in LoadsOf(s) |-> held[Key(ld)][l]], [t \in TempNames |-> temps[t][l]])
StatementVector(s, held) == [l \in Lane |-> LaneValue(s, held, l)]

Running(kind) ==
  /\ pc = "statement" /\ k <= Len(job.body)
  /\ job.body[k].kind = kind

CanLoad == LoadsOK(LoadsOf(job.body[k]))
Held == WithLoads(LoadsOf(job.body[k]))

VectorLet ==
  /\ Running("let") /\ CanLoad
  /\ temps' = [temps EXCEPT ![job.body[k].target] = StatementVector(job.body[k], Held)]
  /\ loaded' = Held
  /\ n' = LanesAfter(Leaves(job.body[k]))
  /\ k' = k + 1
  /\ UNCHANGED <<job, mode, pc, mem, acc, i, copy, accs, lane, scalarVars>>

VectorFold ==
  /\ Running("reduce") /\ CanLoad
  /\ LET vec == StatementVector(job.body[k], Held)
     IN  accs' = [accs EXCEPT ![k][copy] = [l \in Lane |-> Fold(job.body[k].op, @[l], vec[l])]]
  /\ loaded' = Held
  /\ k' = k + 1
  /\ UNCHANGED <<job, mode, pc, mem, acc, i, copy, n, temps, lane, scalarVars>>

(* A slip: a store leaves the loaded vectors as they are.                  *)
LoadedAnyway(held, key) == held

(* A store makes the loaded vector of its slice stale.                     *)
LoadedAfterStore(held, key) == [x \in DOMAIN held \ {key} |-> held[x]]

VectorStore ==
  /\ Running("store") /\ CanLoad
  /\ LET key == AtIndex(job.body[k].target)
         lanes == LanesAfter(Leaves(job.body[k]))
     IN  /\ AccessOK(key, Pos)
         /\ mem' = StoreVector(key, Pos, StatementVector(job.body[k], Held))
         /\ loaded' = LoadedAfterStore(Held, key)
         /\ n' = IF lanes = NoLanes THEN Covered(key, Pos) ELSE lanes
  /\ k' = k + 1
  /\ UNCHANGED <<job, mode, pc, acc, i, copy, temps, accs, lane, scalarVars>>

(* A load or store of the statement panics.                                *)
VectorPanic ==
  /\ pc = "statement" /\ k <= Len(job.body)
  /\ ~CanLoad \/ (job.body[k].kind = "store" /\ ~AccessOK(AtIndex(job.body[k].target), Pos))
  /\ Stop("panic")
  /\ UNCHANGED job

(* A slip: the last of the unrolled bodies is passed over.                 *)
UnrolledButOne == n = Copies * Lanes /\ copy < Copies - 2

(* The end of a body: the next unrolled one, or _i moves on.               *)
Unrolled == n = Copies * Lanes /\ copy < Copies - 1
NextCopy ==
  /\ pc = "statement" /\ k > Len(job.body)
  /\ Full(job.body) /\ Unrolled
  /\ StartBody(copy + 1)
  /\ UNCHANGED <<job, mode, mem, acc, i, n, temps, accs, lane, scalarVars>>

Advance ==
  /\ pc = "statement" /\ k > Len(job.body)
  /\ ~(Full(job.body) /\ Unrolled)
  /\ i' = i + n
  /\ copy' = 0
  /\ Goto(IF Full(job.body) THEN "main" ELSE "test")
  /\ UNCHANGED <<job, mode, mem, acc, k, n, loaded, temps, accs, lane, scalarVars>>

(***************************************************************************)
(* After the vector loop, fold by fold: the copies of an accumulator are   *)
(* merged into the first, and its lanes folded into the scalar one.        *)
(***************************************************************************)
Combining == pc = "combine" /\ k \in Folds(job.body)

MergeCopy ==
  /\ Combining /\ copy < Copies
  /\ accs' = [accs EXCEPT ![k][0] = [l \in Lane |-> Fold(job.body[k].op, @[l], accs[k][copy][l])]]
  /\ copy' = copy + 1
  /\ UNCHANGED <<job, mode, pc, mem, acc, i, k, n, loaded, temps, lane, scalarVars>>

FoldLane ==
  /\ Combining /\ copy >= Copies /\ lane < Lanes
  /\ acc' = [acc EXCEPT ![job.body[k].target] = Fold(job.body[k].op, @, accs[k][0][lane])]
  /\ lane' = lane + 1
  /\ UNCHANGED <<job, mode, pc, mem, i, k, copy, n, loaded, temps, accs, scalarVars>>

NextFold ==
  /\ pc = "combine" /\ k <= Len(job.body)
  /\ k \in Folds(job.body) => copy >= Copies /\ lane = Lanes
  /\ k' = k + 1 /\ copy' = 1 /\ lane' = 0
  /\ UNCHANGED <<job, mode, pc, mem, acc, i, n, loaded, temps, accs, scalarVars>>

Remainder ==
  /\ pc = "combine" /\ k > Len(job.body)
  /\ mode' = "rest"
  /\ Goto("begin")
  /\ UNCHANGED <<job, mem, acc, i, k, vectorVars, scalarVars>>

-----------------------------------------------------------------------------
(***************************************************************************)
(* The scalar loops: the original, which counts as the source does, and    *)
(* the remainder of a reduction, which counts up from _i.                  *)
(***************************************************************************)

Step == IF mode = "rest" THEN 1 ELSE job.step
MoreIterations == IF Step = 1 THEN i < job.limit ELSE i >= job.start

ScalarBegin ==
  /\ pc = "begin"
  /\ IF MoreIterations
     THEN /\ value' = RangeValue(job, i, mem)
          /\ k' = 1
          /\ Goto("scalar")
          /\ UNCHANGED <<mode, mem, acc, i, vectorVars, locals>>
     ELSE Stop("done")
  /\ UNCHANGED job

Now == [mem |-> mem, acc |-> acc, locals |-> locals, value |-> value, panicked |-> FALSE]

ScalarStatement ==
  /\ pc = "scalar" /\ k <= Len(job.body)
  /\ LET next == ExecStatement(job, job.body[k], i, Now)
     IN  IF next.panicked THEN Stop("panic")
         ELSE /\ mem' = next.mem /\ acc' = next.acc /\ locals' = next.locals
              /\ k' = k + 1
              /\ UNCHANGED <<mode, pc, i, vectorVars, value>>
  /\ UNCHANGED job

ScalarAdvance ==
  /\ pc = "scalar" /\ k > Len(job.body)
  /\ i' = i + Step
  /\ Goto("begin")
  /\ UNCHANGED <<job, mode, mem, acc, k, vectorVars, scalarVars>>

Terminated == pc \in {"done", "panic"} /\ UNCHANGED vars

Next ==
  \/ Hoist \/ OverlapCheck \/ LengthCheck \/ CopyCall
  \/ ChunkTest \/ CountTest \/ MainTest \/ SingleTest
  \/ LoadAhead \/ VectorLet \/ VectorFold \/ VectorStore \/ VectorPanic
  \/ NextCopy \/ Advance
  \/ MergeCopy \/ FoldLane \/ NextFold \/ Remainder
  \/ ScalarBegin \/ ScalarStatement \/ ScalarAdvance
  \/ Terminated

Spec == Init /\ [][Next]_vars

(* One goroutine runs the code: while it can take a step, it does.         *)
FairSpec == Spec /\ WF_vars(Next)
-----------------------------------------------------------------------------
(***************************************************************************)
(* What the code has to get right.                                         *)
(***************************************************************************)

(* The state is well formed: vectors have Lanes lanes, a chunk knows its   *)
(* length, memory and accumulators hold elements.                          *)
TypeOK ==
  /\ mode \in {"original", "vector", "rest"}
  /\ pc \in {"hoist", "overlap", "check", "copy", "count", "test", "main", "load", "statement",
             "combine", "begin", "scalar", "done", "panic"}
  /\ mem \in [Addr -> Value]
  /\ acc \in [AccNames -> Value]
  /\ i \in Int
  /\ k \in 1..(Len(job.body) + 1)
  /\ copy \in 0..Copies
  /\ n \in Nat \cup {NoLanes}
  /\ lane \in 0..Lanes
  /\ \A key \in DOMAIN loaded : loaded[key] \in Vector
  /\ temps \in [TempNames -> Vector]
  /\ accs \in [Folds(job.body) -> [Copy -> Vector]]
  /\ locals \in [TempNames -> Value]
  /\ value \in Value

(* The promise of the rewrite: when the code ends, memory and accumulators *)
(* are what the source loop leaves, and it panics when that loop does.     *)
Contract == INSTANCE LoopContract WITH
  mem <- IF pc = "done" THEN mem ELSE Mem0,
  acc <- IF pc = "done" THEN acc ELSE Acc0,
  outcome <- IF pc \in {"done", "panic"} THEN pc ELSE "running"

KeepsContract == Contract!Spec

(* The source loop run forward up to _i, or to its end.                    *)
Prefix ==
  LET done == i - job.start
  IN  Run(job, 1)[IF done < Iterations(job) THEN done ELSE Iterations(job)]

(* Whatever the slices share and however the loop counts, between two      *)
(* chunks memory is what the source loop run forward up to _i leaves,      *)
(* which did not panic: a chunk done statement by statement is the         *)
(* iterations done one by one.                                             *)
ScalarPrefix ==
  mode = "vector" /\ pc \in {"test", "main"} => ~Prefix.panicked /\ mem = Prefix.mem

(* x, then vals[first], ..., vals[last - 1], folded one after another.      *)
FoldOver(op, x, vals, first, last) ==
  LET sum[m \in 0..(last - first)] ==
        IF m = 0 THEN x ELSE Fold(op, sum[m - 1], vals[first + m - 1])
  IN  sum[last - first]

(* Everything folded for s so far, wherever it is: in the accumulator, in  *)
(* the lanes of the copies not merged yet, in those not folded yet.        *)
Merging(s) == pc = "combine" /\ k = s
Merged(s) ==
  [l \in Lane |->
     FoldOver(job.body[s].op, accs[s][0][l], [c \in Copy |-> accs[s][c][l]],
              IF Merging(s) THEN copy ELSE 1, Copies)]
Folded(s) ==
  IF pc = "combine" /\ s < k THEN acc[job.body[s].target]
  ELSE FoldOver(job.body[s].op, acc[job.body[s].target], Merged(s), IF Merging(s) THEN lane ELSE 0, Lanes)

(* Between two rounds of a reduction, and while its lanes are combined,    *)
(* every index below _i is folded exactly once, into some lane of some     *)
(* copy of an accumulator or into the accumulator itself.                  *)
FoldedOnce ==
  mode = "vector" /\ pc \in {"main", "combine"} =>
    \A s \in Folds(job.body) : Folded(s) = Prefix.acc[job.body[s].target]

(* Once the overlap check passed, no element a store may touch is an       *)
(* element of another slice the loop touches, at any offset it reads.      *)
Touched(ref) ==
  {ElementAddr(job, ref, index) :
     index \in {x \in 0..(job.slices[ref].len - 1) :
                  \E off \in Offsets(job.body, ref) : x - off \in job.start..(job.limit - 1)}}
OperandsApart ==
  mode = "vector" /\ pc \notin {"hoist", "overlap", "panic", "done"} =>
    \A pair \in Overlaps(job.body) : Touched(pair[1]) \cap Touched(pair[2]) = {}

(* In every lane of the loop a vector kept in a register across statements *)
(* still is what memory holds, unless it was read ahead of a store on      *)
(* purpose.                                                                *)
Current(key) ==
  \A l \in Lane : Pos + l < job.limit => loaded[key][l] = LoadVector(key, Pos)[l]
HeldCurrent ==
  mode = "vector" /\ pc = "statement" =>
    \A key \in DOMAIN loaded : key[2] = "none" \/ key[1] \notin Stored(job.body) => Current(key)

(* The vector code never writes outside the part of a stored slice that    *)
(* the loop runs over, not even in a chunk that is longer than the rest.   *)
StoresInTrip ==
  [][mode = "vector" =>
       \A a \in Addr : mem'[a] # mem[a] =>
         \E ref \in Stored(job.body) : a - job.slices[ref].base \in job.start..(job.limit - 1)]_vars

(* A slice too short for the loop is noticed before anything is written:   *)
(* the vector code never leaves half of the work behind.                   *)
ShortSliceWritesNothing ==
  mode = "vector" /\ Runs
    /\ (\E access \in Checked(job.body) : ~InRange(job, access[1], job.limit - 1 + access[3]))
  => mem = Mem0

(* The emitted loop always makes progress.                                 *)
Terminates == <>(pc \in {"done", "panic"})
=============================================================================
