---------------------------- MODULE LoopSemantics ----------------------------
(***************************************************************************)
(* What a job's source loop means in Go: slices are windows of one memory, *)
(* which may overlap, an index outside a slice panics, && and || and the   *)
(* arms of an if evaluate only what they reach.  The vector code is judged *)
(* against this, and falls back to it.                                     *)
(***************************************************************************)
EXTENDS LoopIR

CONSTANTS
  Value,        \* the values of an element
  Zero,         \* the value a partial load puts in the lanes it does not read
  MemSize,      \* elements of the memory all slices lie in
  Mem0, Acc0,   \* its contents, and the accumulators, before the loop
  Jobs,         \* the loops and run-time values considered
  Apply(_, _),  \* Apply(fn, values): the value of an expression
  Holds(_),     \* the truth of a comparison
  Fold(_, _, _),\* Fold(op, acc, x)
  Identity(_)   \* Identity(op)

Addr == 0..(MemSize - 1)

(* A job as the source and the caller may produce it.  The slices lie in   *)
(* memory; a slice whose length is the limit is not a field of a nil       *)
(* pointer, or evaluating the limit would have panicked; only a range loop *)
(* has a value variable.  The last two conjuncts of JobOK only say that    *)
(* Leaves and LeavesAhead are lists of the loads of the body.              *)
SlicesOK(j) ==
  \A ref \in SliceNames :
    /\ j.slices[ref].base \in Nat /\ j.slices[ref].len \in Nat
    /\ j.slices[ref].base + j.slices[ref].len <= MemSize

HeaderOK(j) ==
  /\ j.start \in Int /\ j.limit \in Int
  /\ j.step \in {-1, 1}
  /\ {j.startConst, j.limitConst, j.startZero, j.float, j.nilRoot} \subseteq BOOLEAN
  /\ j.startZero => j.start = 0
  /\ j.trip \in SliceNames \cup {NoSlice}
  /\ j.fields \subseteq SliceNames
  /\ j.trip \in SliceNames => j.limit = j.slices[j.trip].len /\ ~(j.trip \in j.fields /\ j.nilRoot)

RangeValueOK(j) ==
  \A ld \in AllLoads(j.body) :
    ld.fromRange => ld.ref = j.trip /\ ld.kind = "none" /\ j.start = 0 /\ j.step = 1

Lists(list, set) == list \in Seq(set) /\ \A e \in set : \E x \in DOMAIN list : list[x] = e

JobOK(j) ==
  /\ SlicesOK(j)
  /\ HeaderOK(j)
  /\ j.body \in Seq(Statement)
  /\ \A k \in DOMAIN j.body : StatementOK(j.body[k])
  /\ RangeValueOK(j)
  /\ \A k \in DOMAIN j.body : Lists(Leaves(j.body[k]), LoadsOf(j.body[k]))
  /\ Lists(LeavesAhead(j.body), LoadsAhead(j.body))

ASSUME JobsAssumption == \A j \in Jobs : JobOK(j)
ASSUME ValueAssumption ==
  /\ MemSize \in Nat
  /\ Zero \in Value
  /\ Mem0 \in [Addr -> Value]
  /\ Acc0 \in [AccNames -> Value]

(* Expressions and folds yield elements; "id" is a load or a local alone.  *)
ASSUME OperationsAssumption ==
  /\ \A v \in Value : Apply("id", <<v>>) = v
  /\ \A fn \in Fns, len \in 0..MaxArity : \A vals \in [1..len -> Value] : Apply(fn, vals) \in Value
  /\ \A v \in Value : Holds(v) \in BOOLEAN
  /\ \A op \in FoldOps : Identity(op) \in Value /\ \A x, y \in Value : Fold(op, x, y) \in Value

(* Sums of ints wrap, a least or greatest element is one of its operands,  *)
(* and floats are summed in another order only by permission, which gives  *)
(* up the last bits: the order of a fold does not matter, and folding an   *)
(* identity changes nothing.                                               *)
ASSUME FoldAssumption ==
  \A op \in FoldOps :
    /\ \A x, y, z \in Value : Fold(op, Fold(op, x, y), z) = Fold(op, x, Fold(op, y, z))
    /\ \A x, y \in Value : Fold(op, x, y) = Fold(op, y, x)
    /\ \A x \in Value : Fold(op, x, Identity(op)) = x

(***************************************************************************)
(* The value of a statement, given the value each load yields (reads) and  *)
(* the value of each temporary (locals).  The scalar loop and one lane of  *)
(* the vector loop differ only in where these come from.                   *)
(***************************************************************************)
ExprValue(e, reads, locals) ==
  Apply(e.fn, [x \in 1..Len(e.loads) |-> reads[e.loads[x]]]
                \o [x \in 1..Len(e.temps) |-> locals[e.temps[x]]])

ClauseHolds(c, m, reads, locals) == Holds(ExprValue(c.clauses[m], reads, locals))

CondHolds(c, reads, locals) ==
  IF c.op = "and" THEN \A m \in DOMAIN c.clauses : ClauseHolds(c, m, reads, locals)
                  ELSE \E m \in DOMAIN c.clauses : ClauseHolds(c, m, reads, locals)

TakesArm(s, a, reads, locals) ==
  /\ CondHolds(s.arms[a].cond, reads, locals)
  /\ \A b \in 1..(a - 1) : ~CondHolds(s.arms[b].cond, reads, locals)

TakesOther(s, reads, locals) ==
  \A a \in DOMAIN s.arms : ~CondHolds(s.arms[a].cond, reads, locals)

SelectValue(s, reads, locals) ==
  IF TakesOther(s, reads, locals) THEN ExprValue(OtherValue(s), reads, locals)
  ELSE LET a == CHOOSE b \in DOMAIN s.arms : TakesArm(s, b, reads, locals)
       IN  ExprValue(s.arms[a].val, reads, locals)

(***************************************************************************)
(* The scalar loop.                                                        *)
(***************************************************************************)
InRange(j, ref, index) ==
  /\ ~(ref \in j.fields /\ j.nilRoot)
  /\ index \in 0..(j.slices[ref].len - 1)

ElementAddr(j, ref, index) == j.slices[ref].base + index

(* Clause m is evaluated when the clauses before it leave c undecided.     *)
EvaluatedIn(c, reads, locals) ==
  UNION {Loads(c.clauses[m]) :
           m \in {n \in DOMAIN c.clauses :
                    \A p \in 1..(n - 1) : ClauseHolds(c, p, reads, locals) = (c.op = "and")}}

(* The loads iteration i of the scalar loop really performs for s.         *)
Performed(s, reads, locals) ==
  (IF TakesOther(s, reads, locals)
     THEN IF HasElse(s) THEN Loads(s.other[1]) ELSE {}
     ELSE UNION {Loads(s.arms[a].val) : a \in {b \in DOMAIN s.arms : TakesArm(s, b, reads, locals)}})
  \cup UNION {EvaluatedIn(s.arms[a].cond, reads, locals) :
                a \in {b \in DOMAIN s.arms :
                         \A c \in 1..(b - 1) : ~CondHolds(s.arms[c].cond, reads, locals)}}

(* A state of the scalar loop between two statements; value is the range   *)
(* value variable.                                                         *)
ScalarReads(j, s, i, mem, value) ==
  [ld \in LoadsOf(s) |->
     IF ld.fromRange THEN value
     ELSE IF InRange(j, ld.ref, i + ld.off) THEN mem[ElementAddr(j, ld.ref, i + ld.off)]
     ELSE Zero]

Assigns(s, reads, locals) == HasElse(s) \/ ~TakesOther(s, reads, locals)

StatementPanics(j, s, i, reads, locals) ==
  \/ \E ld \in Performed(s, reads, locals) : ~ld.fromRange /\ ~InRange(j, ld.ref, i + ld.off)
  \/ s.kind = "store" /\ Assigns(s, reads, locals) /\ ~InRange(j, s.target, i)

(* The state after statement s of iteration i.                             *)
ExecStatement(j, s, i, st) ==
  LET reads == ScalarReads(j, s, i, st.mem, st.value)
      value == SelectValue(s, reads, st.locals)
  IN  IF StatementPanics(j, s, i, reads, st.locals) THEN [st EXCEPT !.panicked = TRUE]
      ELSE IF ~Assigns(s, reads, st.locals) THEN st
      ELSE CASE s.kind = "store" -> [st EXCEPT !.mem[ElementAddr(j, s.target, i)] = value]
             [] s.kind = "let" -> [st EXCEPT !.locals[s.target] = value]
             [] s.kind = "reduce" -> [st EXCEPT !.acc[s.target] = Fold(s.op, @, value)]

(* for i, v := range a reads v when the iteration begins.                  *)
HasRangeValue(j) == \E ld \in AllLoads(j.body) : ld.fromRange
RangeValue(j, i, mem) == IF HasRangeValue(j) THEN mem[ElementAddr(j, j.trip, i)] ELSE Zero

Iterations(j) == IF j.limit > j.start THEN j.limit - j.start ELSE 0
IndexAt(j, step, m) == IF step = 1 THEN j.start + m - 1 ELSE j.limit - m
FirstIndex(j) == IndexAt(j, j.step, 1)

(* The states iteration i goes through from state st, one per statement.   *)
BodyRun(j, i, st) ==
  LET run[k \in 0..Len(j.body)] ==
        IF k = 0 THEN [st EXCEPT !.value = RangeValue(j, i, st.mem)]
        ELSE LET before == run[k - 1]
             IN  IF before.panicked THEN before ELSE ExecStatement(j, j.body[k], i, before)
  IN  run

ExecIteration(j, i, st) == BodyRun(j, i, st)[Len(j.body)]

InitialState == [mem |-> Mem0, acc |-> Acc0, locals |-> [t \in TempNames |-> Zero],
                 value |-> Zero, panicked |-> FALSE]

(* The states the loop goes through, one per iteration, when it counts by  *)
(* step.                                                                   *)
Run(j, step) ==
  LET run[m \in 0..Iterations(j)] ==
        IF m = 0 THEN InitialState
        ELSE LET before == run[m - 1]
             IN  IF before.panicked THEN before ELSE ExecIteration(j, IndexAt(j, step, m), before)
  IN  run

(* What the source loop does.                                              *)
ScalarResult(j) == Run(j, j.step)[Iterations(j)]
=============================================================================
