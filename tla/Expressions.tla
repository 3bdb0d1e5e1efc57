----------------------------- MODULE Expressions ----------------------------
(***************************************************************************)
(* What the statements of a loop body compute.  lower.go turns each value  *)
(* into a tree of operations over loads, temporaries and invariants;       *)
(* plan.go orders the operands and asks whether package simd has a method  *)
(* for every operation; emit.go broadcasts the invariants under names and  *)
(* writes the tree as a chain of method calls.  Which slices a condition   *)
(* may read, and when the loads happen, is in LoopIR and VectorLoop.       *)
(***************************************************************************)
EXTENDS Integers, Sequences, FiniteSets, SequencesExt, FiniteSetsExt

CONSTANTS
  Bodies,    \* the loop bodies: sequences of statements
  ElemOf,    \* the element type of every slice
  TypeOfVar, \* the type of every scalar variable
  Temps      \* those the body defines

(* A node of a tree of either kind: the source's, or loopvec's.            *)
Node(is, name, args) == [is |-> is, name |-> name, args |-> args]
Element(s) == Node("element", s, <<>>)
Variable(x) == Node("variable", x, <<>>)
Number(v) == Node("number", v, <<>>)
Operation(o, x, y) == Node("operation", o, <<x, y>>)
Negated(x) == Node("operation", "neg", <<x>>)
Shifted(x, count) == Node("shift", "<<", <<x, count>>)
MathCall(f, args) == Node("call", f, args)
Builtin(f, x, y) == Node("builtin", f, <<x, y>>)
Conversion(t, x) == Node("conversion", t, <<x>>)
Comparison(o, x, y) == Node("comparison", o, <<x, y>>)
Both(x, y) == Node("logic", "&&", <<x, y>>)
If(cond, then, else) == Node("if", "", <<cond, then, else>>)
(* dst[i] = value, or temp := value.                                       *)
Store(s, value) == [kind |-> "store", target |-> s, value |-> value]
Let(t, value) == [kind |-> "let", target |-> t, value |-> value]

Floats == {"float32", "float64"}
RECURSIVE TypeOf(_)
TypeOf(e) ==
  CASE e.is = "element" -> ElemOf[e.name]
    [] e.is = "variable" -> TypeOfVar[e.name]
    [] e.is = "number" -> "untyped"
    [] e.is = "call" -> "float64"
    [] e.is = "conversion" -> e.name
    [] e.is = "shift" -> TypeOf(e.args[1])
    [] OTHER -> IF \A n \in DOMAIN e.args : TypeOf(e.args[n]) = "untyped" THEN "untyped"
                ELSE TypeOf(e.args[CHOOSE n \in DOMAIN e.args : TypeOf(e.args[n]) # "untyped"])

-----------------------------------------------------------------------------
(* Lowering (lower.go).                                                    *)
Rejected == Node("rejected", "", <<>>)
Over(is, method, args) ==
  IF \E n \in DOMAIN args : args[n].is = "rejected" THEN Rejected ELSE Node(is, method, args)

Commutative == {"Add", "Mul", "And", "Or", "Xor", "Min", "Max"}

Method ==
  [o \in {"+", "-", "*", "/", "&^", "neg", "<<", "min", "Abs", "Sqrt", "Max", "<", "==", "&&"} |->
     CASE o = "+" -> "Add" [] o = "-" -> "Sub" [] o = "*" -> "Mul" [] o = "/" -> "Div"
       [] o = "&^" -> "AndNot" [] o = "neg" -> "Neg" [] o = "<<" -> "ShiftAllLeft" [] o = "min" -> "Min"
       [] o = "<" -> "Less" [] o = "==" -> "Equal" [] o = "&&" -> "And" [] OTHER -> o]

RECURSIVE Constant(_), Invariant(_), Lowered(_), LowerCond(_), Loads(_)
Constant(e) ==
  e.is \in {"number", "operation", "conversion"} /\ \A n \in DOMAIN e.args : Constant(e.args[n])

(* The same on every iteration, and safe to evaluate ahead of the loop.    *)
Invariant(e) ==
  \/ Constant(e)
  \/ e.is = "variable" /\ e.name \notin Temps
  \/ /\ e.is = "conversion" \/ (e.is = "operation" /\ e.name # "/")
     /\ \A n \in DOMAIN e.args : Invariant(e.args[n])

(* float32(math.F(float64(x))) of a float32 x is F of the element type.    *)
NarrowArg(e) ==
  e.is = "conversion" /\ e.name = "float64" /\ TypeOf(e.args[1]) = "float32"
Narrow(e) ==
  e.is = "conversion" /\ e.name = "float32" /\ e.args[1].is = "call"

Counts(e) == e.is = "number" \/ (e.is = "variable" /\ e.name \notin Temps /\ TypeOfVar[e.name] = "uint")

Lowered(e) ==
  LET All(args) == [n \in DOMAIN args |-> Lowered(args[n])]
  IN CASE e.is = "element" -> Node("load", e.name, <<>>)
       [] e.is = "variable" /\ e.name \in Temps -> Node("use", e.name, <<>>)
       [] Invariant(e) -> Node("invariant", "", <<e>>)
       [] e.is \in {"operation", "builtin", "call"} /\ ~Invariant(e) -> Over("value", Method[e.name], All(e.args))
       [] Narrow(e) /\ ~Invariant(e) ->
            LET args == e.args[1].args
            IN IF \A n \in DOMAIN args : NarrowArg(args[n])
               THEN Over("value", Method[e.args[1].name], [n \in DOMAIN args |-> Lowered(args[n].args[1])])
               ELSE Rejected
       [] e.is = "shift" ->
            IF Counts(e.args[2])
            THEN Over("shift", Method[e.name], <<Lowered(e.args[1]), Node("count", e.args[2].name, <<>>)>>)
            ELSE Rejected
       [] OTHER -> Rejected

Loads(v) ==
  IF v.is = "load" THEN {v.name}
  ELSE IF v.is = "invariant" THEN {} ELSE UNION {Loads(v.args[n]) : n \in DOMAIN v.args}

(* A slip: two broadcasts may be compared.                                 *)
LowerAnyComparison(c) ==
  Over("value", Method[c.name], <<Lowered(c.args[1]), Lowered(c.args[2])>>)

LowerComparison(c) ==
  IF Invariant(c.args[1]) /\ Invariant(c.args[2]) THEN Rejected
  ELSE Over("value", Method[c.name], <<Lowered(c.args[1]), Lowered(c.args[2])>>)

LowerCond(c) ==
  IF c.is = "comparison" THEN LowerComparison(c)
  ELSE LET x == LowerCond(c.args[1]) y == LowerCond(c.args[2])
       IN IF Loads(y) \subseteq Loads(x) THEN Over("logic", Method[c.name], <<x, y>>) ELSE Rejected

(* An if becomes a select; its branches read what its condition reads, or  *)
(* the element it stores.                                                  *)
LowerStatement(s) ==
  IF s.value.is # "if" THEN [s EXCEPT !.value = Lowered(@)]
  ELSE LET c == LowerCond(s.value.args[1])
           select == Over("select", "IfElse", <<c, Lowered(s.value.args[2]), Lowered(s.value.args[3])>>)
       IN [s EXCEPT !.value =
             IF Loads(select) \subseteq Loads(c) \union {s.target} THEN select ELSE Rejected]

-----------------------------------------------------------------------------
(* The plan (plan.go).                                                     *)
Compares == {"Less", "Equal"}
IsLeaf(v) == v.is \in {"load", "use", "invariant", "count"}
RECURSIVE Depth(_), Normalize(_), OpsOK(_, _)
Depth(v) == IF IsLeaf(v) THEN 0 ELSE 1 + Max({Depth(v.args[n]) : n \in DOMAIN v.args})

ShouldSwap(x, y) == (x.is = "invariant" /\ y.is # "invariant") \/ Depth(y) > Depth(x)

Normalize(v) ==
  IF IsLeaf(v) THEN v
  ELSE LET args == [n \in DOMAIN v.args |-> Normalize(v.args[n])]
           swap == v.is = "value" /\ v.name \in Commutative /\ ShouldSwap(args[1], args[2])
       IN [v EXCEPT !.args = IF swap THEN <<args[2], args[1]>> ELSE args]

(* simdMethods, for the methods the trees above can name.                  *)
Supports(t, method) ==
  method \in {"Add", "Sub", "Mul", "Neg", "Min", "Max", "Abs", "Less", "Equal", "IfElse"} \union
    (IF t \in Floats THEN {"Div", "Sqrt", "MulAdd"} ELSE {"AndNot", "ShiftAllLeft"})

OpsOK(t, v) ==
  \/ IsLeaf(v)
  \/ /\ v.is = "logic" \/ Supports(t, v.name)
     /\ t \in Floats => v.name \notin {"Min", "Max"}
     /\ \A n \in DOMAIN v.args : OpsOK(t, v.args[n])

Elem(stmts) == ElemOf[SelectSeq(stmts, LAMBDA s : s.kind = "store")[1].target]
TargetType(s) == IF s.kind = "store" THEN ElemOf[s.target] ELSE TypeOfVar[s.target]

(* Every statement is of one type, and so is every slice it reads.         *)
Expressible(stmts, planned) ==
  \A n \in DOMAIN stmts :
    /\ TargetType(stmts[n]) = Elem(stmts) /\ OpsOK(Elem(stmts), planned[n])
    /\ \A s \in Loads(planned[n]) : ElemOf[s] = Elem(stmts)

-----------------------------------------------------------------------------
(* Emission (emit.go).  An invariant is known by the path to it.           *)
RECURSIVE Invariants(_, _), At(_, _), Chain(_, _, _, _)
At(v, path) == IF path = <<>> THEN v ELSE At(v.args[path[1]], Tail(path))
ExprAt(planned, path) == At(planned[path[1]], Tail(path)).args[1]

(* The operand with more work under it comes first.                        *)
Children(v) ==
  IF v.is = "value" /\ v.name \notin Compares /\ Len(v.args) = 2 /\ Depth(v.args[2]) > Depth(v.args[1])
  THEN <<2, 1>> ELSE [n \in DOMAIN v.args |-> n]
Invariants(v, path) ==
  IF v.is = "invariant" THEN <<path>>
  ELSE FlattenSeq([n \in DOMAIN v.args |-> Invariants(v.args[Children(v)[n]], Append(path, Children(v)[n]))])
AllInvariants(planned) == FlattenSeq([n \in DOMAIN planned |-> Invariants(planned[n], <<n>>)])

Numbered(all) == [n \in DOMAIN all |-> <<"", n>>]
Lettered(planned, all) ==
  [n \in DOMAIN all |-> <<IF all[n][2] = Children(planned[1])[1] THEN "A" ELSE "B", 0>>]

(* A slip: names by operand even where an operand has several invariants.  *)
NamesByOperand(planned, all) ==
  IF Len(planned) = 1 /\ Depth(planned[1]) = 2 THEN Lettered(planned, all) ELSE Numbered(all)

(* The name of each invariant, in their order.                             *)
BroadcastNames(planned, all) ==
  IF Len(planned) = 1 /\ Len(all) = 1 /\ Depth(planned[1]) <= 1 THEN <<<<"", 0>>>>
  ELSE IF Len(planned) = 1 /\ Depth(planned[1]) = 2 /\ IsInjective(Lettered(planned, all))
  THEN Lettered(planned, all)
  ELSE Numbered(all)

(* The same text is broadcast once, under the name it is given first.      *)
Broadcasts(planned) ==
  LET all == AllInvariants(planned)
      names == BroadcastNames(planned, all)
      First(n) == Min({m \in DOMAIN all : ExprAt(planned, all[m]) = ExprAt(planned, all[n])})
  IN {[name |-> names[n], expr |-> ExprAt(planned, all[n])] : n \in {m \in DOMAIN all : First(m) = m}}

(* A multiply feeding an add is one method call, for floats.               *)
Chain(v, path, t, broadcasts) ==
  LET Arg(n) == Chain(v.args[n], Append(path, n), t, broadcasts)
      fused == v.name = "Add" /\ v.args[1].is = "value" /\ v.args[1].name = "Mul" /\ t \in Floats
  IN IF v.is = "invariant"
     THEN Node("broadcast", "", (CHOOSE b \in broadcasts : b.expr = v.args[1]).name)
     ELSE IF IsLeaf(v) THEN v
     ELSE IF fused THEN Node("method", "MulAdd", Arg(1).args \o <<Arg(2)>>)
     ELSE Node("method", v.name, [n \in DOMAIN v.args |-> Arg(n)])

-----------------------------------------------------------------------------
VARIABLES
  body,       \* the statements of the loop
  phase,      \* "source", "lowered", "planned", "emitted", or "left alone"
  loop,       \* the statements with their values lowered
  plan,       \* the values with their operands in order
  broadcasts, \* the names declared ahead of the loop and what they broadcast
  code        \* the values as method calls

vars == <<body, phase, loop, plan, broadcasts, code>>

Init ==
  /\ body \in Bodies /\ phase = "source"
  /\ loop = <<>> /\ plan = <<>> /\ broadcasts = {} /\ code = <<>>

LeaveAlone == phase' = "left alone"

Lower ==
  /\ phase = "source"
  /\ loop' = [n \in DOMAIN body |-> LowerStatement(body[n])]
  /\ IF \E n \in DOMAIN body : loop'[n].value.is = "rejected" THEN LeaveAlone ELSE phase' = "lowered"
  /\ UNCHANGED <<body, plan, broadcasts, code>>

NewPlan ==
  /\ phase = "lowered"
  /\ plan' = [n \in DOMAIN loop |-> Normalize(loop[n].value)]
  /\ IF Expressible(loop, plan') THEN phase' = "planned" ELSE LeaveAlone
  /\ UNCHANGED <<body, loop, broadcasts, code>>

Emit ==
  /\ phase = "planned" /\ phase' = "emitted"
  /\ broadcasts' = Broadcasts(plan)
  /\ code' = [n \in DOMAIN plan |-> Chain(plan[n], <<n>>, Elem(loop), broadcasts')]
  /\ UNCHANGED <<body, loop, plan>>

Done == phase \in {"emitted", "left alone"} /\ UNCHANGED vars

Next == Lower \/ NewPlan \/ Emit \/ Done
Spec == Init /\ [][Next]_vars

-----------------------------------------------------------------------------
(* What an expression comes to: an operation over what its operands come   *)
(* to, in any order where the order does not matter.                       *)
Outcome(method, args) ==
  [op |-> method,
   args |-> {<<IF method \in {"Add", "Mul", "Min", "Max"} THEN 0 ELSE n, args[n]>> : n \in DOMAIN args}]

RECURSIVE SourceValue(_, _), CodeValue(_, _), SourceTemps(_), CodeTemps(_), Calls(_)
SourceValue(e, temps) ==
  LET Args(args) == [n \in DOMAIN args |-> SourceValue(args[n], temps)]
  IN IF e.is = "variable" /\ e.name \in Temps THEN temps[e.name]
     ELSE IF e.is \in {"element", "variable", "number"} THEN Outcome(e.name, <<>>)
     ELSE IF Narrow(e) /\ \A n \in DOMAIN e.args[1].args : NarrowArg(e.args[1].args[n])
     THEN Outcome(Method[e.args[1].name], [n \in DOMAIN e.args[1].args |-> SourceValue(e.args[1].args[n].args[1], temps)])
     ELSE Outcome(IF e.is = "conversion" THEN e.name ELSE IF e.is = "if" THEN "IfElse" ELSE Method[e.name], Args(e.args))

(* Go allows x*y + z to be fused.                                          *)
CodeValue(c, temps) ==
  LET Args(args) == [n \in DOMAIN args |-> CodeValue(args[n], temps)]
  IN CASE c.is = "broadcast" -> SourceValue((CHOOSE b \in broadcasts : b.name = c.args).expr, temps)
       [] c.is = "use" -> temps[c.name]
       [] c.is \in {"load", "count"} -> Outcome(c.name, <<>>)
       [] c.is = "method" /\ c.name = "MulAdd" ->
            Outcome("Add", <<Outcome("Mul", Args(<<c.args[1], c.args[2]>>)), CodeValue(c.args[3], temps)>>)
       [] OTHER -> Outcome(c.name, Args(c.args))

SourceTemps(n) ==
  IF n = 0 THEN <<>>
  ELSE IF body[n].kind = "store" THEN SourceTemps(n - 1)
  ELSE (body[n].target :> SourceValue(body[n].value, SourceTemps(n - 1))) @@ SourceTemps(n - 1)
CodeTemps(n) ==
  IF n = 0 THEN <<>>
  ELSE IF body[n].kind = "store" THEN CodeTemps(n - 1)
  ELSE (body[n].target :> CodeValue(code[n], CodeTemps(n - 1))) @@ CodeTemps(n - 1)

Calls(c) ==
  IF c.is # "method" THEN {} ELSE {c.name} \union UNION {Calls(c.args[n]) : n \in DOMAIN c.args}

(* Every statement of the emitted loop computes what the source statement  *)
(* does, however the operands were swapped, the multiplies fused and the   *)
(* broadcasts named and shared (Normalize, expr, broadcastNames).          *)
SameValues ==
  phase = "emitted" =>
    \A n \in DOMAIN body :
      CodeValue(code[n], CodeTemps(n - 1)) = SourceValue(body[n].value, SourceTemps(n - 1))

(* The emitted loop compiles: "Plan is a Loop that simd can express".      *)
(* No name is declared twice, a broadcast is given a value of the element  *)
(* type, a vector is loaded from slices of it, and it has every method     *)
(* that is called (And is of masks).                                       *)
Compiles ==
  phase = "emitted" =>
    LET t == Elem(body)
    IN /\ \A b1, b2 \in broadcasts : b1.name = b2.name => b1 = b2
       /\ \A b \in broadcasts : TypeOf(b.expr) \in {t, "untyped"}
       /\ \A n \in DOMAIN code :
            /\ \A m \in Calls(code[n]) : m = "And" \/ Supports(t, m)
            /\ \A s \in Loads(plan[n]) : ElemOf[s] = t
=============================================================================
