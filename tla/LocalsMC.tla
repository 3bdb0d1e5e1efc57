------------------------------ MODULE LocalsMC ------------------------------
(***************************************************************************)
(* Bodies of up to three statements over two variables, p declared in     *)
(* every place a variable can be, and one the body never assigns.          *)
(***************************************************************************)
EXTENDS Locals

s == Element("s")
x == Variable("x")
V(v) == Variable(v)
Other(v) == IF v = "p" THEN "q" ELSE "p"

Values(v) == {s, V(Other(v)), Operation("+", s, V(Other(v)))}
Assigns(v) ==
  {Assign("assign", v, "", e) : e \in Values(v)}
  \union {Assign("assign", v, "", Operation(op, V(v), s)) : op \in {"+", "-", "max"}}
  \union {Assign("assign", v, "", Operation(op, V(Other(v)), V(v))) : op \in {"-", "max"}}
  \union {Assign("assign", v, "", Operation("+", V(v), V(v)))}
  \union {Assign("op", v, op, e) : op \in {"+", "-"}, e \in {s, V(Other(v))}}
Ifs ==
  {Chain(<<Arm(s, "p", e)>>, other) : e \in {x, s, Operation("-", x, V("p")), V("q")}, other \in {<<>>, <<V("q")>>, <<Element("d")>>}}
  \union {Chain(<<Arm(s, "p", x), Arm(V("p"), to, s)>>, <<>>) : to \in {"p", "q"}}
Stores ==
  {Assign("assign", "d", "", e) : e \in {V("p"), Operation("-", V("q"), s), Operation("+", V("p"), V("q"))}}
  \union {Assign("op", "d", "-", V("p"))}
Statements == Assigns("p") \union Assigns("q") \union Ifs \union Stores

(* A variable of the body is defined in its first statement.               *)
Defines == {Assign("define", "p", "", e) : e \in {s, Operation("max", s, x)}}

Facts(place, used) == [place |-> place, usedOutside |-> used]
FactsOf(p, q) == [v \in {"p", "q"} |-> IF v = "p" THEN p ELSE q]
Outside == {Facts("local", TRUE), Facts("local", FALSE), Facts("result", FALSE), Facts("package", FALSE)}

Short == {<<a>> : a \in Statements} \union {<<a, b>> : a, b \in Statements}
Long(firsts) == {<<a, b, c>> : a \in firsts, b \in Assigns("q") \union Ifs, c \in Stores}
MCLoops ==
  {[body |-> b, facts |-> FactsOf(p, Facts("local", used))] :
     b \in Short \union Long(Assigns("p")), p \in Outside, used \in BOOLEAN}
  \union {[body |-> b, facts |-> FactsOf(Facts("body", FALSE), Facts("local", used))] :
     b \in {<<a, c>> : a \in Defines, c \in Statements} \union Long(Defines), used \in BOOLEAN}
=============================================================================
