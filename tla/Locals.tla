------------------------------- MODULE Locals -------------------------------
(***************************************************************************)
(* The variables a loop body assigns.  lower.go takes each for a           *)
(* temporary, which only its iteration sees, or for the accumulator of a   *)
(* fold; a loop with any other is left alone.  In the emitted loop a       *)
(* temporary is a vector and its variable is never written, and an         *)
(* accumulator is written once, after the vectors.  The function around    *)
(* the loop may reach it several times and looks at its variables each     *)
(* time.  Accumulators unrolled into copies, and loops too short to fold   *)
(* in vectors, are in VectorLoop.                                          *)
(***************************************************************************)
EXTENDS Integers, Sequences, FiniteSets, SequencesExt, FiniteSetsExt

CONSTANTS
  Loops,   \* the loops: a body, and what its function knows of each variable
  Lengths, \* how many iterations they run
  Rounds,  \* how often the function reaches one
  Lanes    \* the elements of a vector

VarNames == {"p", "q", "x"}

(* An expression: an element at the index, a variable, or an operation.    *)
Element(s) == [is |-> "element", name |-> s, args |-> <<>>]
Variable(v) == [is |-> "variable", name |-> v, args |-> <<>>]
Operation(op, e, f) == [is |-> "operation", name |-> op, args |-> <<e, f>>]
(* x := e, x = e, x op= e, and if chains that assign x.                    *)
Assign(tok, to, op, e) == [tok |-> tok, to |-> to, op |-> op, arms |-> <<>>, other |-> <<e>>]
Chain(arms, other) == [tok |-> "if", to |-> "", op |-> "", arms |-> arms, other |-> other]
Arm(cond, to, e) == [cond |-> cond, to |-> to, value |-> e]

Modulus == 5
Apply(op, u, w) ==
  CASE op = "+" -> (u + w) % Modulus
    [] op = "-" -> (u - w) % Modulus
    [] op = "max" -> Max({u, w})
Identity(op) == 0
Holds(u) == u % 2 = 1
ElementsOf(s) == [i \in 0..Max(Lengths) |-> (IF s = "s" THEN 3 * i + 1 ELSE 2 * i) % Modulus]

-----------------------------------------------------------------------------
(* Lowering (lower.go).                                                    *)
Rejected == [is |-> "rejected", name |-> "", args |-> <<>>]
Commutative == {"+", "max"}

AssignedIn(body) == {body[n].to : n \in {m \in DOMAIN body : body[m].tok # "if"}} \ {"d"}

(* A slip: what a function returns without naming it is forgotten.         *)
DeadButReturned(facts) == facts.place \in {"local", "result"} /\ ~facts.usedOutside

(* A local from before the loop that nothing outside it mentions.          *)
DeadOutsideLoop(facts) == facts.place = "local" /\ ~facts.usedOutside

RECURSIVE Value(_, _, _), Loads(_), Uses(_)
Value(e, temps, assigned) ==
  IF e.is = "element" THEN [e EXCEPT !.is = "load"]
  ELSE IF e.is = "variable"
  THEN IF e.name \in DOMAIN temps THEN [is |-> "use", name |-> temps[e.name], args |-> <<>>]
       ELSE IF e.name \notin assigned THEN [e EXCEPT !.is = "invariant"] ELSE Rejected
  ELSE LET args == [n \in DOMAIN e.args |-> Value(e.args[n], temps, assigned)]
       IN IF \E n \in DOMAIN args : args[n].is = "rejected" THEN Rejected ELSE [e EXCEPT !.args = args]
Loads(v) == IF v.is = "load" THEN {v.name} ELSE UNION {Loads(v.args[n]) : n \in DOMAIN v.args}
Uses(v) == IF v.is = "use" THEN {v.name} ELSE UNION {Uses(v.args[n]) : n \in DOMAIN v.args}

(* acc op x, x op acc: the operand that is not acc.                        *)
IsAcc(e, acc) == e.is = "variable" /\ e.name = acc
Folds(e, acc) ==
  /\ e.is = "operation" /\ e.name \in Commutative
  /\ \E n \in {1, 2} : IsAcc(e.args[n], acc)
Folded(e, acc) == IF IsAcc(e.args[1], acc) THEN e.args[2] ELSE e.args[1]

(* What lowering knows after the first statements: the loop so far, the    *)
(* statement that holds each temporary, the accumulators.                  *)
Empty == [ok |-> TRUE, stmts |-> <<>>, temps |-> <<>>, reduced |-> {}]
Refuse(l) == [l EXCEPT !.ok = FALSE]
Holding(l, t) == (t :> Len(l.stmts) + 1) @@ l.temps
Lowered(l, kind, to, op, value) ==
  IF value.is = "rejected" THEN Refuse(l)
  ELSE [ok |-> l.ok, stmts |-> Append(l.stmts, [kind |-> kind, to |-> to, op |-> op, value |-> value]),
        temps |-> IF kind = "let" THEN Holding(l, to) ELSE l.temps,
        reduced |-> IF kind = "reduce" THEN l.reduced \union {to} ELSE l.reduced]

Reduce(l, s, facts, assigned) ==
  LET operand == IF s.tok = "op" THEN s.other[1] ELSE Folded(s.other[1], s.to)
      op == IF s.tok = "op" THEN s.op ELSE s.other[1].name
  IN IF op \notin Commutative \/ s.to \in l.reduced \union DOMAIN l.temps THEN Refuse(l)
     ELSE Lowered(l, "reduce", s.to, op, Value(operand, l.temps, assigned))

Let(l, s, facts, assigned) ==
  IF \/ s.tok = "op" \/ s.to \in DOMAIN l.temps
     \/ s.tok = "assign" /\ ~DeadOutsideLoop(facts[s.to])
  THEN Refuse(l)
  ELSE Lowered(l, "let", s.to, "", Value(s.other[1], l.temps, assigned))

IsReduction(s, facts) ==
  /\ s.tok \in {"assign", "op"} /\ facts[s.to].place \in {"local", "result"}
  /\ s.tok = "op" \/ Folds(s.other[1], s.to)

(* An if chain that assigns a temporary: a select, and a new version of    *)
(* it.  A chain without an else keeps the version before.                  *)
RECURSIVE Select(_, _, _, _)
Select(l, arms, other, assigned) ==
  IF arms = <<>>
  THEN Value(other, l.temps, assigned)
  ELSE LET args == <<Value(Head(arms).cond, l.temps, assigned), Value(Head(arms).value, l.temps, assigned),
                     Select(l, Tail(arms), other, assigned)>>
       IN IF \E n \in DOMAIN args : args[n].is = "rejected" THEN Rejected
          ELSE [is |-> "select", name |-> "", args |-> args]

IfLet(l, s, assigned) ==
  LET t == s.arms[1].to
      other == IF s.other = <<>> THEN Variable(t) ELSE s.other[1]
      select == Select(l, s.arms, other, assigned)
  IN IF \/ \E n \in DOMAIN s.arms : s.arms[n].to # t \/ s.arms[n].to \notin DOMAIN l.temps
        \/ select.is = "rejected"
     THEN Refuse(l)
     ELSE IF ~(Loads(select) \subseteq Loads(select.args[1])) THEN Refuse(l)
     ELSE Lowered(l, "let", t, "", select)

LowerStatement(l, s, facts, assigned) ==
  IF ~l.ok THEN l
  ELSE IF s.tok = "if" THEN IfLet(l, s, assigned)
  ELSE IF s.to = "d"
  THEN Lowered(l, "store", "d", "",
         Value(IF s.tok = "op" THEN Operation(s.op, Element("d"), s.other[1]) ELSE s.other[1], l.temps, assigned))
  ELSE IF IsReduction(s, facts) THEN Reduce(l, s, facts, assigned)
  ELSE Let(l, s, facts, assigned)

(* Lets nobody reads are rejected, so a loop has a store or a reduction.   *)
Body(body, facts) ==
  LET l == FoldLeft(LAMBDA so, s : LowerStatement(so, s, facts, AssignedIn(body)), Empty, body)
      read == UNION {Uses(l.stmts[n].value) : n \in DOMAIN l.stmts}
  IN IF \A n \in DOMAIN l.stmts : l.stmts[n].kind = "let" => n \in read THEN l ELSE Refuse(l)

-----------------------------------------------------------------------------
(* What the source says.                                                   *)
RECURSIVE Eval(_, _, _), Chosen(_, _, _, _)
Eval(e, at, i) ==
  CASE e.is = "element" -> IF e.name = "d" THEN at.d[i] ELSE ElementsOf(e.name)[i]
    [] e.is = "variable" -> at.env[e.name]
    [] OTHER -> Apply(e.name, Eval(e.args[1], at, i), Eval(e.args[2], at, i))
Chosen(arms, other, at, i) ==
  IF arms = <<>> THEN other
  ELSE IF Holds(Eval(Head(arms).cond, at, i)) THEN <<Head(arms).value>> ELSE Chosen(Tail(arms), other, at, i)

Put(at, i, to, u) == IF to = "d" THEN [at EXCEPT !.d[i] = u] ELSE [at EXCEPT !.env[to] = u]
Execute(at, s, i) ==
  LET to == IF s.tok = "if" THEN s.arms[1].to ELSE s.to
      chosen == Chosen(s.arms, s.other, at, i)
  IN IF chosen = <<>> THEN at
     ELSE Put(at, i, to, IF s.tok = "op" THEN Apply(s.op, Eval(IF to = "d" THEN Element("d") ELSE Variable(to), at, i),
                                                   Eval(chosen[1], at, i))
                         ELSE Eval(chosen[1], at, i))
Iteration(at, body, i) == FoldLeft(LAMBDA so, s : Execute(so, s, i), at, body)
Scalar(at, body, from, to) == FoldLeft(LAMBDA so, i : Iteration(so, body, i), at, [k \in 1..(to - from) |-> from + k - 1])

(* What the emitted loop does (emit.go): one statement over a vector of    *)
(* elements, then the next.                                                *)
RECURSIVE LaneValue(_, _, _, _)
LaneValue(v, at, temps, i) ==
  LET Arg(n) == LaneValue(v.args[n], at, temps, i)
  IN CASE v.is = "load" -> IF v.name = "d" THEN at.d[i] ELSE ElementsOf(v.name)[i]
       [] v.is = "use" -> temps[v.name][i]
       [] v.is = "invariant" -> at.env[v.name]
       [] v.is = "select" -> IF Holds(Arg(1)) THEN Arg(2) ELSE Arg(3)
       [] OTHER -> Apply(v.name, Arg(1), Arg(2))

VectorStatement(so, s, n, lanes) ==
  LET values == [i \in lanes |-> LaneValue(s.value, so.at, so.temps, i)]
  IN CASE s.kind = "let" -> [so EXCEPT !.temps = (n :> values) @@ @]
       [] s.kind = "store" -> [so EXCEPT !.at.d = [i \in DOMAIN @ |-> IF i \in lanes THEN values[i] ELSE @[i]]]
       [] s.kind = "reduce" ->
            [so EXCEPT !.accs[n] = [k \in DOMAIN @ |-> Apply(s.op, @[k], values[Min(lanes) + k])]]

VARIABLES
  loop,    \* the source loop
  stmts,   \* its statements, lowered
  pc,      \* "lower", "reach", "vector", "combine", "remainder", "after", "left alone"
  round,   \* how often the function has reached it
  length,  \* the iterations it runs this time
  i,       \* _i
  accs,    \* the vector accumulator of each reduction
  source,  \* the variables and elements of the source program
  emitted  \* and of the rewritten one

vars == <<loop, stmts, pc, round, length, i, accs, source, emitted>>

Start == [env |-> [v \in VarNames |-> IF v = "x" THEN 3 ELSE IF v = "p" THEN 2 ELSE 4],
          d |-> ElementsOf("d")]

Init ==
  /\ loop \in Loops /\ pc = "lower"
  /\ stmts = <<>> /\ round = 0 /\ length = 0 /\ i = 0 /\ accs = <<>>
  /\ source = Start /\ emitted = Start

Lower ==
  /\ pc = "lower"
  /\ LET l == Body(loop.body, loop.facts)
     IN stmts' = l.stmts /\ pc' = IF l.ok THEN "reach" ELSE "left alone"
  /\ UNCHANGED <<loop, round, length, i, accs, source, emitted>>

Reductions == {n \in DOMAIN stmts : stmts[n].kind = "reduce"}
Full == Reductions # {}

(* The loop is reached; in the source program it runs.                     *)
Reach ==
  /\ pc = "reach" /\ round < Rounds
  /\ \E n \in Lengths : length' = n /\ source' = Scalar(source, loop.body, 0, n)
  /\ round' = round + 1 /\ i' = 0 /\ pc' = "vector"
  /\ accs' = [n \in Reductions |-> [k \in 0..(Lanes - 1) |-> Identity(stmts[n].op)]]
  /\ UNCHANGED <<loop, stmts, emitted>>

Chunk == i..(Min({i + Lanes, length}) - 1)
GoesOn == IF Full THEN i + Lanes <= length ELSE i < length

Vector ==
  /\ pc = "vector" /\ GoesOn
  /\ LET done == FoldLeft(LAMBDA so, n : VectorStatement(so, stmts[n], n, Chunk),
                          [at |-> emitted, temps |-> <<>>, accs |-> accs], [n \in DOMAIN stmts |-> n])
     IN emitted' = done.at /\ accs' = done.accs
  /\ i' = i + Cardinality(Chunk)
  /\ UNCHANGED <<loop, stmts, pc, round, length, source>>

VectorEnds ==
  /\ pc = "vector" /\ ~GoesOn
  /\ pc' = IF Full THEN "combine" ELSE "after"
  /\ UNCHANGED <<loop, stmts, round, length, i, accs, source, emitted>>

(* The lanes of every accumulator go into its variable.                    *)
Combine ==
  /\ pc = "combine" /\ pc' = "remainder"
  /\ LET Into(env, n) ==
           [env EXCEPT ![stmts[n].to] = FoldLeft(LAMBDA u, k : Apply(stmts[n].op, u, accs[n][k - 1]), @, [k \in 1..Lanes |-> k])]
     IN emitted' = [emitted EXCEPT !.env = FoldLeft(Into, @, SetToSortSeq(Reductions, <))]
  /\ UNCHANGED <<loop, stmts, round, length, i, accs, source>>

(* The elements that are left run the body of the source.                  *)
Remainder ==
  /\ pc = "remainder" /\ pc' = "after"
  /\ emitted' = Scalar(emitted, loop.body, i, length)
  /\ i' = length
  /\ UNCHANGED <<loop, stmts, round, length, accs, source>>

(* The function goes on, and may come back.                                *)
GoOn == pc = "after" /\ pc' = "reach" /\ UNCHANGED <<loop, stmts, round, length, i, accs, source, emitted>>
Ended == (pc = "left alone" \/ (pc = "reach" /\ round = Rounds)) /\ UNCHANGED vars

Next == Lower \/ Reach \/ Vector \/ VectorEnds \/ Combine \/ Remainder \/ GoOn \/ Ended
Spec == Init /\ [][Next]_vars

-----------------------------------------------------------------------------
(* Every mention of a variable outside the loop, a bare return of a result *)
(* and any function that reads a package's variable can see it.            *)
Observed(v) ==
  v # "x" /\ (loop.facts[v].place \in {"package", "result"} \/ (loop.facts[v].place = "local" /\ loop.facts[v].usedOutside))

(* After the loop, each time it is reached, the elements and the variables *)
(* the rest of the program can see are what the source loop leaves there   *)
(* (let, reduce: "the value it would hold afterwards is never observed").  *)
SameOutcome ==
  pc = "after" =>
    /\ emitted.d = source.d
    /\ \A v \in VarNames : Observed(v) => emitted.env[v] = source.env[v]
=============================================================================
