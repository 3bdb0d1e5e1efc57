------------------------------- MODULE Bounds -------------------------------
(***************************************************************************)
(* The header of a loop at the width of an int.  loopvec runs in one build *)
(* and restates start, limit and offset as source text (lower.go: bound,   *)
(* plusOne, spell, indexAt); the file it writes is compiled in every       *)
(* build, where a named constant may stand for another value.  The source  *)
(* loop and the emitted one then run over slices d, stored at i, and a,    *)
(* read at i and an offset, in a machine whose ints wrap.                  *)
(***************************************************************************)
EXTENDS Integers, FiniteSets

CONSTANTS
  Headers,    \* the loops, a set of records, see below
  Constants,  \* named constants
  Variables,  \* int variables the body does not assign
  Builds,     \* what each build takes the constants for
  Here,       \* the build loopvec runs in
  Values,     \* what a variable may hold
  MaxLen,     \* bound: the length of a slice
  Width,      \* bits of an int
  Lanes,      \* lanes of a vector
  MaxOffset,  \* maxOffset of lower.go
  Least       \* fewest iterations worth rewriting, where both ends are constant

Half == 2^(Width - 1)
MaxInt == Half - 1
Wrap(x) == ((x + Half) % (2 * Half)) - Half

ASSUME WidthAssumption == Width \in Nat \ {0, 1} /\ {Lanes, Least} \subseteq Nat \ {0}

(* No slice comes within a vector of the largest int: memory is not that   *)
(* large.                                                                  *)
ASSUME MemoryAssumption == MaxLen \in Nat /\ MaxLen + 2 * Lanes <= MaxInt
ASSUME BuildsAssumption ==
  /\ Here \in Builds
  /\ \A b \in Builds : b \in [Constants -> -Half..MaxInt]
  /\ Values \subseteq -Half..MaxInt /\ MaxOffset \in 0..MaxInt

-----------------------------------------------------------------------------
(* Source text of type int: a literal, a name, or an operation.            *)
Lit(v) == [op |-> "lit", value |-> v]
Name(x) == [op |-> "name", name |-> x]
Op(o, x, y) == [op |-> o, x |-> x, y |-> y]
LenOf(s) == Name(s)  \* len(s): d and a name the lengths of the slices

Magnitude(x) == IF x < 0 THEN -x ELSE x
Quotient(x, y) ==
  LET q == Magnitude(x) \div Magnitude(y) IN IF (x < 0) = (y < 0) THEN q ELSE -q

RECURSIVE Value(_, _), Names(_), PureInt(_)
Value(e, env) ==
  CASE e.op = "lit" -> e.value
    [] e.op = "name" -> env[e.name]
    [] e.op = "+" -> Wrap(Value(e.x, env) + Value(e.y, env))
    [] e.op = "-" -> Wrap(Value(e.x, env) - Value(e.y, env))
    [] e.op = "*" -> Wrap(Value(e.x, env) * Value(e.y, env))
    [] e.op = "/" -> Wrap(Quotient(Value(e.x, env), Value(e.y, env)))

Names(e) ==
  CASE e.op = "lit" -> {}
    [] e.op = "name" -> {e.name}
    [] OTHER -> Names(e.x) \union Names(e.y)

Literal(e) == Names(e) = {}
Constant(e) == Names(e) \subseteq Constants
ConstantValue(e) == IF Constant(e) THEN Value(e, Here) ELSE 0

PureInt(e) ==
  CASE e.op = "lit" -> TRUE
    [] e.op = "name" -> e.name \in Constants \union Variables \union {"d", "a"}
    [] e.op = "/" -> PureInt(e.x) /\ Constant(e.y) /\ ConstantValue(e.y) # 0
    [] OTHER -> PureInt(e.x) /\ PureInt(e.y)

-----------------------------------------------------------------------------
(* A loop h is for i := h.start; i < h.limit; i++ (<= where h.closed), or, *)
(* where h.down, i > h.limit; i-- (>=).  It reads a at i + h.off, i - h.off *)
(* where h.minus, and stores d at i, unless h.fold: then it sums up a.     *)
Rejected == [ok |-> FALSE]

(* A slip: a named constant is spelled as its value here.                  *)
SpellValue(e, delta) == Lit(ConstantValue(e) + delta)

Spell(e, delta) ==
  IF Literal(e) THEN Lit(ConstantValue(e) + delta)
  ELSE IF delta = 0 THEN e ELSE Op("+", e, Lit(delta))

Bound(e) ==
  IF ~PureInt(e) THEN Rejected
  ELSE [ok |-> TRUE, const |-> Constant(e), value |-> ConstantValue(e),
        text |-> IF Constant(e) THEN Spell(e, 0) ELSE e,
        slice |-> IF e \in {LenOf("d"), LenOf("a")} THEN e.name ELSE "none"]

Stated(text, value, const) ==
  [ok |-> TRUE, const |-> const, value |-> value, text |-> text, slice |-> "none"]

(* x - k + 1 is x - (k - 1).                                               *)
LessConstant(e) ==
  e.op = "-" /\ ~Literal(e) /\ Constant(e.y) /\ ConstantValue(e.y) >= 1 /\ PureInt(e.x)
PlusOne(e) ==
  IF Constant(e) /\ ConstantValue(e) = MaxInt THEN Rejected
  ELSE IF LessConstant(e) /\ ConstantValue(e.y) = 1 THEN Bound(e.x)
  ELSE IF LessConstant(e)
  THEN Stated(Op("-", Bound(e.x).text, Lit(ConstantValue(e.y) - 1)), ConstantValue(e) + 1, Constant(e))
  ELSE IF Constant(e) THEN Stated(Spell(e, 1), ConstantValue(e) + 1, TRUE)
  ELSE Rejected

(* i > low is i >= low + 1 for a constant low.                             *)
Above(e) ==
  IF Constant(e) /\ ConstantValue(e) # MaxInt
  THEN Stated(Spell(e, 1), ConstantValue(e) + 1, TRUE)
  ELSE Rejected

From(h) == IF ~h.down THEN Bound(h.start) ELSE IF h.closed THEN Bound(h.limit) ELSE Above(h.limit)
To(h) ==
  IF h.down THEN PlusOne(h.start)
  ELSE IF h.closed THEN PlusOne(h.limit) ELSE Bound(h.limit)

RangeOK(from, to) == ~(from.const /\ from.value < 0) /\ ~(to.const /\ to.value <= 0)

OffsetOK(h) == PureInt(h.off) /\ (Constant(h.off) => Magnitude(ConstantValue(h.off)) <= MaxOffset)
OffsetText(h) ==
  IF Constant(h.off) THEN Lit(IF h.minus THEN -ConstantValue(h.off) ELSE ConstantValue(h.off))
  ELSE IF h.minus THEN Op("-", Lit(0), h.off) ELSE h.off

(* What body asks of constant offsets, and NewPlan of constant ends.       *)
ConstantsOK(from, to, off) ==
  /\ (off.op = "lit" /\ off.value < 0) =>
       ~(from.const /\ from.value < -off.value) /\ ~(to.const /\ to.value <= -off.value)
  /\ (off.op = "lit" /\ off.value > 0) =>
       ~(from.const /\ from.value > MaxInt - off.value) /\ ~(to.const /\ to.value > MaxInt - off.value)
  /\ (from.const /\ to.const) => to.value - from.value >= Least

Lowers(h) ==
  /\ From(h).ok /\ To(h).ok /\ RangeOK(From(h), To(h)) /\ OffsetOK(h)
  /\ ConstantsOK(From(h), To(h), OffsetText(h))

(* The stored slice is capped at the limit unless that is its length.      *)
Capped(h) == ~h.fold /\ To(h).slice # "d"

Plan(h) ==
  [ok |-> TRUE,
   start |-> From(h).text, limit |-> To(h).text, off |-> OffsetText(h),
   slice |-> To(h).slice, capped |-> Capped(h), fold |-> h.fold,
   nonEmpty |-> From(h).const /\ To(h).const /\ From(h).value < To(h).value]

-----------------------------------------------------------------------------
VARIABLES
  loop,    \* the loop
  plan,    \* what loopvec makes of it, Rejected if nothing
  env,     \* what every name stands for where it runs
  phase,   \* "lower", "written", then what runs: "source", "check", "vector",
           \* "single", or nothing: "done"
  i,       \* the index of the source loop
  seen,    \* the indexes it ran its body for
  verdict, \* how it came out: "none", "ends" or "panics"
  k,       \* _i, the index of the emitted loop
  reached, \* the indexes it folded or stored
  result   \* how it came out; "refused" by the compiler

vars == <<loop, plan, env, phase, i, seen, verdict, k, reached, result>>
sourceVars == <<i, seen, verdict>>
emittedVars == <<k, reached, result>>

Off == IF loop.minus THEN Wrap(-Value(loop.off, env)) ELSE Value(loop.off, env)
Inside(s, x) == x \in 0..env[s] - 1

Init ==
  /\ loop \in Headers /\ plan = Rejected /\ phase = "lower"
  /\ env = [x \in {} |-> 0]
  /\ i = 0 /\ seen = {} /\ verdict = "none"
  /\ k = 0 /\ reached = {} /\ result = "none"

(* A loop that is rejected stays as it is.                                 *)
Lower ==
  /\ phase = "lower"
  /\ IF Lowers(loop)
     THEN plan' = Plan(loop) /\ phase' = "written"
     ELSE plan' = Rejected /\ phase' = "done"
  /\ UNCHANGED <<loop, env, sourceVars, emittedVars>>

(* In some build, with some values, the loop is reached.                   *)
Enter ==
  /\ phase = "written"
  /\ \E b \in Builds, v \in [Variables -> Values], m, n \in 0..MaxLen :
       env' = [x \in Constants \union Variables \union {"d", "a"} |->
                 IF x \in Constants THEN b[x] ELSE IF x \in Variables THEN v[x] ELSE IF x = "d" THEN m ELSE n]
  /\ i' = Value(loop.start, env') /\ phase' = "source"
  /\ UNCHANGED <<loop, plan, seen, verdict, emittedVars>>

SourceGoesOn ==
  LET limit == Value(loop.limit, env)
  IN IF loop.down
     THEN i > limit \/ (loop.closed /\ i = limit)
     ELSE i < limit \/ (loop.closed /\ i = limit)

SourceEnds ==
  /\ phase = "source" /\ ~SourceGoesOn
  /\ verdict' = "ends" /\ phase' = "check"
  /\ UNCHANGED <<loop, plan, env, i, seen, emittedVars>>

BodyOK == Inside("a", Wrap(i + Off)) /\ (loop.fold \/ Inside("d", i))

SourceStep ==
  /\ phase = "source" /\ SourceGoesOn /\ BodyOK
  /\ seen' = seen \union {i}
  /\ i' = Wrap(IF loop.down THEN i - 1 ELSE i + 1)
  /\ UNCHANGED <<loop, plan, env, phase, verdict, emittedVars>>

SourcePanics ==
  /\ phase = "source" /\ SourceGoesOn /\ ~BodyOK
  /\ verdict' = "panics" /\ phase' = "check"
  /\ UNCHANGED <<loop, plan, env, i, seen, emittedVars>>

-----------------------------------------------------------------------------
Limit == Value(plan.limit, env)
First == Value(plan.start, env)
Offset == Value(plan.off, env)

(* The slices whose length is checked, and the last index read of each,    *)
(* limit + off - 1.                                                        *)
Access == {<<"a", plan.off>>} \union (IF plan.fold THEN {} ELSE {<<"d", Lit(0)>>})
Checked == {c \in Access : plan.capped \/ c[2] # Lit(0) \/ c[1] # plan.slice}
LastIndex(c) == Wrap(Limit + Value(c[2], env) - 1)

(* The compiler refuses a constant index that is negative.                 *)
Refused ==
  \E c \in Checked : Constant(plan.limit) /\ Constant(c[2]) /\ LastIndex(c) < 0

(* A slip: lengths are not checked.                                        *)
LengthsUnchecked == TRUE

LengthsOK == \A c \in Checked : Inside(c[1], LastIndex(c))

Ends(how) ==
  /\ result' = how /\ phase' = "done"
  /\ UNCHANGED <<loop, plan, env, sourceVars, k, reached>>

(* The loop is entered when it runs at all, known here or tested there.    *)
Check ==
  /\ phase = "check"
  /\ CASE Refused -> Ends("refused")
       [] ~Refused /\ ~plan.nonEmpty /\ Limit <= First -> Ends("ends")
       [] ~Refused /\ (plan.nonEmpty \/ Limit > First) /\ ~LengthsOK -> Ends("panics")
       [] OTHER ->
            /\ phase' = IF plan.fold /\ Wrap(Limit - First) < 2 * Lanes THEN "single" ELSE "vector"
            /\ k' = First
            /\ UNCHANGED <<loop, plan, env, sourceVars, reached, result>>

(* A part of a vector of a and of d, each up to the limit or to its end;   *)
(* _i moves by the lanes of the part loaded.                               *)
LoadedTo == IF plan.capped /\ plan.off = Lit(0) THEN Limit ELSE env["a"]
StoredTo == IF plan.capped THEN Limit ELSE env["d"]
Part(from, to) == IF to - from < Lanes THEN to - from ELSE Lanes
ChunkOK == Wrap(k + Offset) \in 0..LoadedTo /\ k \in 0..StoredTo

Chunk ==
  /\ phase = "vector" /\ ~plan.fold /\ k < Limit
  /\ IF ChunkOK
     THEN /\ reached' = reached \union k..k + Part(k, StoredTo) - 1
          /\ k' = Wrap(k + Part(Wrap(k + Offset), LoadedTo))
          /\ UNCHANGED <<loop, plan, env, phase, sourceVars, result>>
     ELSE Ends("panics")

(* _i+_lanes <= limit: the sum wraps where limit is close to MaxInt.       *)
Vector ==
  /\ phase = "vector" /\ plan.fold /\ Wrap(k + Lanes) <= Limit
  /\ IF Wrap(k + Offset) \in 0..env["a"] - Lanes
     THEN /\ reached' = reached \union k..k + Lanes - 1
          /\ k' = Wrap(k + Lanes)
          /\ UNCHANGED <<loop, plan, env, phase, sourceVars, result>>
     ELSE Ends("panics")

Remainder ==
  /\ phase = "vector" /\ plan.fold /\ Wrap(k + Lanes) > Limit
  /\ phase' = "single"
  /\ UNCHANGED <<loop, plan, env, sourceVars, emittedVars>>

Single ==
  /\ phase = "single" /\ k < Limit
  /\ IF Inside("a", Wrap(k + Offset))
     THEN /\ reached' = reached \union {k}
          /\ k' = Wrap(k + 1)
          /\ UNCHANGED <<loop, plan, env, phase, sourceVars, result>>
     ELSE Ends("panics")

LoopEnds ==
  /\ phase = "single" \/ (phase = "vector" /\ ~plan.fold)
  /\ k >= Limit
  /\ Ends("ends")

Done == phase = "done" /\ UNCHANGED vars

Next ==
  \/ Lower \/ Enter
  \/ SourceEnds \/ SourceStep \/ SourcePanics \/ Check
  \/ Chunk \/ Vector \/ Remainder \/ Single \/ LoopEnds \/ Done

Spec == Init /\ [][Next]_vars
FairSpec == Spec /\ WF_vars(Next)

-----------------------------------------------------------------------------
(* The emitted loop compiles, panics when the source loop does, and        *)
(* otherwise reaches exactly the indexes of the source loop, in whatever   *)
(* build it is compiled ("the emitted file is compiled for every build",   *)
(* lower.go, spell) and whatever the variables hold.                       *)
SameIndexes ==
  (phase = "done" /\ plan.ok) =>
    /\ result = verdict
    /\ result = "ends" => reached = seen

(* The emitted loop ends: no index wraps around below the limit again.     *)
EmittedEnds == <>(phase = "done")
=============================================================================
