---------------------------- MODULE ExpressionsMC ---------------------------
(***************************************************************************)
(* Bodies over float32 slices a and d, a float64 slice g and an int32      *)
(* slice u, with a temporary t.                                            *)
(***************************************************************************)
EXTENDS Expressions

MCElemOf == [s \in {"a", "d", "g", "u", "v"} |->
  IF s \in {"a", "d"} THEN "float32" ELSE IF s = "g" THEN "float64" ELSE "int32"]
MCTypeOfVar == [x \in {"x", "p", "q", "m", "k", "t"} |->
  CASE x \in {"x", "t"} -> "float32" [] x \in {"p", "q"} -> "float64" [] x = "m" -> "int32" [] x = "k" -> "uint"]

a == Element("a")
x == Variable("x")
p == Variable("p")
t == Variable("t")
two == Number("2")
Operations(ops, xs, ys) == {Operation(o, e, f) : o \in ops, e \in xs, f \in ys}
Square(e) == Conversion("float32", MathCall("Sqrt", <<Conversion("float64", e)>>))

Floats0 == {a, x, two}
Floats1 == Floats0 \union Operations({"+", "-", "*", "/"}, Floats0, Floats0) \union {Negated(e) : e \in {a, x}}
             \union {Square(e) : e \in {a, x}}
             \union {Conversion("float32", p), MathCall("Sqrt", <<p>>), Builtin("min", a, x)}
OfFloat == {e \in Floats1 : TypeOf(e) \in {"float32", "untyped"}}
Floats2 == Operations({"+", "-", "*"}, OfFloat, OfFloat) \union {Square(e) : e \in OfFloat}

Ints0 == {Element("u"), Variable("m"), two}
Ints1 == Ints0 \union Operations({"+", "*", "&^", "/"}, Ints0, Ints0) \union {Builtin("min", e, f) : e, f \in Ints0}
           \union {Shifted(Element("u"), c) : c \in {two, Variable("k"), Variable("m")}} \union {Conversion("int32", p)}
Ints2 == Operations({"+", "&^"}, Ints1, Ints1)

(* Conditions may compare values of another type than the one stored.      *)
Compared == {a, x, two, Negated(x), Operation("*", a, x), Operation("/", x, two), Element("g"), p, Operation("+", p, two), t}
Same(e, f) == TypeOf(e) = TypeOf(f) \/ TypeOf(e) = "untyped" \/ TypeOf(f) = "untyped"
Conditions(values) == {Comparison("<", pair[1], pair[2]) : pair \in {q \in values \X values : Same(q[1], q[2])}}
Selects(conds) == {If(c, e, f) : c \in conds, e \in {a, two, Operation("*", a, x)}, f \in {x, Element("d")}}

One(s, values) == {<<Store(s, e)>> : e \in values}
MCBodies ==
  One("d", {e \in OfFloat \union Floats2 : TypeOf(e) = "float32"})
  \union One("v", {e \in Ints1 \union Ints2 : TypeOf(e) = "int32"})
  \union One("d", Selects(Conditions(Compared \ {t})))
  \union One("d", {If(Both(c1, c2), a, x) : c1, c2 \in Conditions({a, x, two, Element("g")})})
  \union {<<Let("t", e), Store("d", Operation(o, t, f))>> : e \in {g \in OfFloat : TypeOf(g) = "float32"}, o \in {"+", "*"}, f \in OfFloat}
  \union {<<Let("t", a), Store("d", e)>> : e \in Selects(Conditions({t, a, two, p}))}
  \union {<<Store("d", e), Store("a", f)>> : e, f \in {g \in OfFloat : TypeOf(g) = "float32"}}
=============================================================================
