------------------------------- MODULE LoopIR -------------------------------
(***************************************************************************)
(* The loop loopvec looks at, what internal/loopir/lower.go demands of its *)
(* body before it accepts it, and the decisions internal/loopir/plan.go    *)
(* derives from it.                                                        *)
(*                                                                         *)
(* A job is one source loop together with the run-time values it meets:    *)
(* its body, the slices its names stand for and the values of its start    *)
(* and limit.  An expression is the sequence of its leaves in the order    *)
(* they are emitted, under an uninterpreted function symbol fn: which      *)
(* operation combines the leaves does not matter here, which element each  *)
(* leaf reads does.                                                        *)
(***************************************************************************)
EXTENDS Integers, Sequences, FiniteSets
LOCAL INSTANCE SequencesExt
LOCAL INSTANCE FiniteSetsExt

CONSTANTS
  SliceNames,   \* the slice variables (and field selections) of the loop
  TempNames,    \* its scalar locals
  AccNames,     \* the locals it folds into
  Fns,          \* the function symbols expressions are built with
  FoldOps,      \* the operations folds use
  MaxArity,     \* most leaves of one expression
  MaxInt,       \* the largest int
  NoSlice,      \* "the limit is not the length of a slice"
  MinTrip,      \* minTrip: fewest iterations of a constant trip worth rewriting
  MinReduceVectors, \* MinReduceVectors
  MaxLanes,     \* MaxLanes(elem): lanes of the widest vector
  MaxSlices,    \* maxSlices
  FloatReassoc, \* Options.FloatReassoc: float sums may be regrouped
  ExtremeOps    \* the folds that take a min or a max

ASSUME NamesAssumption ==
  /\ NoSlice \notin SliceNames
  /\ {"id", "zero"} \subseteq Fns
  /\ MaxArity \in Nat \ {0} /\ MaxInt \in Nat
ASSUME PlanAssumption ==
  /\ MinTrip \in Nat
  /\ MinReduceVectors \in Nat
  /\ MaxLanes \in Nat \ {0}
  /\ MaxSlices \in Nat
  /\ FloatReassoc \in BOOLEAN

(***************************************************************************)
(* A load reads ref[i+off].  kind says how the source writes the offset:   *)
(* "none" (a[i]), "const" (a[i+1]) or "var" (a[i+n]).                      *)
(***************************************************************************)
OffsetKind == {"none", "const", "var"}

Load == {ld \in [ref: SliceNames, off: -MaxInt..MaxInt, kind: OffsetKind, fromRange: BOOLEAN] :
           /\ ld.kind = "none" => ld.off = 0
           /\ ld.kind = "const" => ld.off # 0}

(* The element a load reads: a range value variable reads the element of   *)
(* the slice at the index.                                                 *)
Key(ld) == <<ld.ref, ld.kind, ld.off>>
AtIndex(ref) == <<ref, "none", 0>>
LoadAtIndex(ref) == [ref |-> ref, off |-> 0, kind |-> "none", fromRange |-> FALSE]

Keys(loads) == {Key(ld) : ld \in loads}

(***************************************************************************)
(* Statements.  arms are the branches of an if/else if chain (none for a   *)
(* plain assignment), other its else branch or the assigned value; <<>>    *)
(* when the chain has no else.  A condition is a sequence of comparisons   *)
(* joined by && ("and") or || ("or").                                      *)
(***************************************************************************)
Expr == {e \in [fn: Fns, loads: Seq(Load), temps: Seq(TempNames)] :
           Len(e.loads) + Len(e.temps) <= MaxArity}
Cond == [op: {"and", "or"}, clauses: Seq(Expr)]
Arm == [cond: Cond, val: Expr]
Statement == [kind: {"store", "let", "reduce"}, target: SliceNames \cup TempNames \cup AccNames,
              op: FoldOps, arms: Seq(Arm), other: Seq(Expr)]

ReadOf(loads) == [fn |-> "id", loads |-> loads, temps |-> <<>>]
UseOf(temp) == [fn |-> "id", loads |-> <<>>, temps |-> <<temp>>]

IsIf(s) == Len(s.arms) > 0
HasElse(s) == Len(s.other) = 1

StatementOK(s) ==
  /\ s \in Statement
  /\ s.kind = "store" => s.target \in SliceNames
  /\ s.kind = "let" => s.target \in TempNames
  /\ s.kind = "reduce" => s.target \in AccNames /\ ~IsIf(s)
  /\ ~IsIf(s) => HasElse(s)

(* The value without an else branch the lowering adds: the element or the  *)
(* temporary keeps its value.                                              *)
OtherValue(s) ==
  IF HasElse(s) THEN s.other[1]
  ELSE IF s.kind = "store" THEN ReadOf(<<LoadAtIndex(s.target)>>)
  ELSE UseOf(s.target)

Loads(e) == {e.loads[x] : x \in DOMAIN e.loads}
Temps(e) == {e.temps[x] : x \in DOMAIN e.temps}
CondLoads(c) == UNION {Loads(c.clauses[m]) : m \in DOMAIN c.clauses}
CondTemps(c) == UNION {Temps(c.clauses[m]) : m \in DOMAIN c.clauses}

LoadsOf(s) ==
  Loads(OtherValue(s))
  \cup UNION {CondLoads(s.arms[a].cond) \cup Loads(s.arms[a].val) : a \in DOMAIN s.arms}
TempsRead(s) ==
  Temps(OtherValue(s))
  \cup UNION {CondTemps(s.arms[a].cond) \cup Temps(s.arms[a].val) : a \in DOMAIN s.arms}

(* The loads of s in the order they are emitted.                           *)
CondLeaves(c) == FlattenSeq([m \in 1..Len(c.clauses) |-> c.clauses[m].loads])
Leaves(s) ==
  FlattenSeq([a \in 1..Len(s.arms) |-> CondLeaves(s.arms[a].cond) \o s.arms[a].val.loads])
  \o OtherValue(s).loads

Stores(body) == {k \in DOMAIN body : body[k].kind = "store"}
Folds(body) == {k \in DOMAIN body : body[k].kind = "reduce"}
Stored(body) == {body[k].target : k \in Stores(body)}
AllLoads(body) == UNION {LoadsOf(body[k]) : k \in DOMAIN body}

(* A slip: every load is emitted where its statement is.                   *)
AheadNever(body, ld) == FALSE

(* Loads emitted ahead of the body: a stored slice read past the index.    *)
Ahead(body, ld) == ld.ref \in Stored(body) /\ ld.kind # "none"
LoadsAhead(body) == {ld \in AllLoads(body) : Ahead(body, ld)}
LeavesAhead(body) ==
  SelectSeq(FlattenSeq([k \in 1..Len(body) |-> Leaves(body[k])]), LAMBDA ld : Ahead(body, ld))

(***************************************************************************)
(* Lowering (lower.go).                                                    *)
(***************************************************************************)

(* && and || skip the right side when the left decides, so the right may   *)
(* read only what the left reads.                                          *)
ClausesSafe(c) ==
  \A m \in DOMAIN c.clauses :
    m > 1 => Keys(Loads(c.clauses[m])) \subseteq UNION {Keys(Loads(c.clauses[p])) : p \in 1..(m - 1)}

(* A slip: a branch may read what any condition of the chain reads.        *)
BranchesReadAnyCondition(s) ==
  IsIf(s) =>
    Keys(LoadsOf(s)) \subseteq UNION {Keys(CondLoads(s.arms[a].cond)) : a \in DOMAIN s.arms}

(* Every branch is evaluated for every lane, so nothing in a branch or a   *)
(* nested condition may be read that the first condition does not read.    *)
BranchesSafe(s) ==
  IsIf(s) =>
    Keys(LoadsOf(s)) \subseteq Keys(CondLoads(s.arms[1].cond))
                                 \cup (IF s.kind = "store" THEN {AtIndex(s.target)} ELSE {})

(* An if without an else stores the element back, which nobody can see     *)
(* only if the last condition reads the element.                           *)
KeptElementRead(s) ==
  IsIf(s) /\ s.kind = "store" /\ ~HasElse(s) =>
    AtIndex(s.target) \in Keys(CondLoads(s.arms[Len(s.arms)].cond))

SelectsSafe(s) ==
  /\ \A a \in DOMAIN s.arms : ClausesSafe(s.arms[a].cond)
  /\ BranchesSafe(s)
  /\ KeptElementRead(s)

DefinedBefore(body, k, temp) == \E p \in 1..(k - 1) : body[p].kind = "let" /\ body[p].target = temp

(* A temporary is defined before it is read, once unless an if redefines   *)
(* it, and every definition of it is read; a local is folded into once.    *)
LocalsOK(body) ==
  /\ \A k \in DOMAIN body : \A t \in TempsRead(body[k]) : DefinedBefore(body, k, t)
  /\ \A k \in DOMAIN body : body[k].kind = "let" =>
       /\ DefinedBefore(body, k, body[k].target) = IsIf(body[k])
       /\ \E p \in DOMAIN body :
            /\ p > k
            /\ body[k].target \in TempsRead(body[p])
            /\ \A q \in (k + 1)..(p - 1) : body[q].kind = "let" => body[q].target # body[k].target
  /\ \A k, p \in Folds(body) : body[k].target = body[p].target => k = p

IsLoad(s) == ~IsIf(s) /\ s.other[1].fn = "id" /\ Len(s.other[1].loads) = 1
IsZero(s) == ~IsIf(s) /\ s.other[1].fn = "zero"

SelfCopy(body) ==
  \E k \in Stores(body) : IsLoad(body[k]) /\ Key(body[k].other[1].loads[1]) = AtIndex(body[k].target)
ZeroFill(body) == Len(body) = 1 /\ body[1].kind = "store" /\ IsZero(body[1])

(* The range value variable holds the element as the iteration found it;   *)
(* the vector loop loads the slice again after a store to it.              *)
RangeValueFresh(body) ==
  \A k \in DOMAIN body : \A ld \in LoadsOf(body[k]) :
    ld.fromRange => \A p \in Stores(body) : p < k => body[p].target # ld.ref

(* A slice both stored and read at an offset: only elements later          *)
(* iterations write may be read, in a loop that runs forward.              *)
DependencesForward(j) ==
  \A ld \in AllLoads(j.body) :
    ld.kind # "none" /\ ld.ref \in Stored(j.body) => ld.kind = "const" /\ j.step = 1 /\ ld.off > 0

(* A constant start is not negative, a constant limit positive, and an     *)
(* offset leaves a constant index neither negative nor past the ints.      *)
ConstantBoundsOK(j) ==
  /\ j.startConst => j.start >= 0
  /\ j.limitConst => j.limit > 0
  /\ \A ld \in AllLoads(j.body) :
       ld.kind = "const" =>
         /\ j.startConst => j.start >= -ld.off /\ j.start <= MaxInt - ld.off
         /\ j.limitConst => j.limit > -ld.off /\ j.limit <= MaxInt - ld.off

Lowers(j) ==
  /\ Len(j.body) > 0
  /\ \A k \in DOMAIN j.body : SelectsSafe(j.body[k])
  /\ LocalsOK(j.body)
  /\ ~SelfCopy(j.body) /\ ~ZeroFill(j.body)
  /\ RangeValueFresh(j.body)
  /\ DependencesForward(j)
  /\ ConstantBoundsOK(j)

(***************************************************************************)
(* The plan (plan.go).                                                     *)
(***************************************************************************)
Full(body) == Folds(body) # {}
IsCopy(body) == Len(body) = 1 /\ body[1].kind = "store" /\ IsLoad(body[1])

ShortLoop(j) ==
  /\ j.startConst /\ j.limitConst
  /\ j.limit - j.start < IF Full(j.body) THEN MinReduceVectors * MaxLanes ELSE MinTrip

(* Regrouping a float sum takes permission; simd has no float min or max.  *)
FoldsAllowed(j) ==
  j.float => \A s \in Folds(j.body) : FloatReassoc /\ j.body[s].op \notin ExtremeOps

NonEmpty(j) == j.startConst /\ j.limitConst /\ j.start < j.limit

(* A slip: only a loop limited by a slice is bounded.                      *)
CappedByTrip(j) == j.trip # NoSlice /\ \E ref \in Stored(j.body) : ref # j.trip

(* Plan.Bound is set: some stored slice is not the one that limits the     *)
(* loop, so operands are capped at the limit.                              *)
Capped(j) == \E ref \in Stored(j.body) : ref # j.trip

Checked(body) == {AtIndex(ref) : ref \in Stored(body)} \cup Keys(AllLoads(body))
Refs(body) == {access[1] : access \in Checked(body)}

(* The pairs of slices of which at least one is stored.                    *)
Overlaps(body) == {pair \in Stored(body) \X Refs(body) : pair[1] # pair[2]}
Hoists(j) == Refs(j.body) \cap j.fields

Planned(j) ==
  /\ Lowers(j)
  /\ FoldsAllowed(j)
  /\ ~ShortLoop(j)
  /\ Cardinality(Refs(j.body)) <= MaxSlices

(* A slip: the window ends at the limit whatever the offsets read.         *)
WindowHighAtLimit(j, ref) == j.limit

(* window: the indexes of ref the loop touches.                            *)
Offsets(body, ref) == {0} \cup {access[3] : access \in {c \in Checked(body) : c[1] = ref}}
WindowLow(j, ref) == j.start + Min(Offsets(j.body, ref))
WindowHigh(j, ref) == j.limit + Max(Offsets(j.body, ref))
=============================================================================
