----------------------------- MODULE VectorLoopMC -----------------------------
(***************************************************************************)
(* Small instances of VectorLoop: the loop bodies loopvec's documentation  *)
(* and tests are about, over slices that are apart, equal, or overlap at   *)
(* every small distance, with every kind of header.                        *)
(***************************************************************************)
EXTENDS VectorLoop

(* Elements are residues mod 31, and expressions mix them so that a value  *)
(* read too early, too late, or from the wrong place shows.                *)
MCValue == 0..30
Mix(v, x) == (x + 2) * (v * v + 3 * v + x)
MCApply(fn, vals) ==
  CASE fn = "id" /\ Len(vals) > 0 -> vals[1]
    [] fn = "const" -> 17
    [] fn = "mix" /\ Len(vals) = 1 -> (7 + Mix(vals[1], 1)) % 31
    [] fn = "mix" /\ Len(vals) = 2 -> (7 + Mix(vals[1], 1) + Mix(vals[2], 2)) % 31
    [] OTHER -> 0
MCHolds(v) == v % 2 = 0
MCFns == {"id", "zero", "const", "mix"}
MCFold(op, x, y) == IF op = "add" THEN (x + y) % 31 ELSE IF x < y THEN x ELSE y
MCIdentity(op) == IF op = "add" THEN 0 ELSE 30
MCMem0 == [a \in Addr |-> (11 * a + a * a + 3) % 31]
MCAcc0 == [x \in AccNames |-> 5]

-----------------------------------------------------------------------------
At(ref) == LoadAtIndex(ref)
Past(ref, d) == [At(ref) EXCEPT !.off = d, !.kind = "const"]
Var(ref, d) == [At(ref) EXCEPT !.off = d, !.kind = "var"]
Each(ref) == [At(ref) EXCEPT !.fromRange = TRUE]

Mixed(loads) == [fn |-> "mix", loads |-> loads, temps |-> <<>>]
MixT(loads, ts) == [fn |-> "mix", loads |-> loads, temps |-> ts]
Const == [fn |-> "const", loads |-> <<>>, temps |-> <<>>]
ZeroConst == [fn |-> "zero", loads |-> <<>>, temps |-> <<>>]

Assign(kind, target, e) == [kind |-> kind, target |-> target, op |-> "add", arms |-> <<>>, other |-> <<e>>]
Set(target, e) == Assign("store", target, e)
Let(target, e) == Assign("let", target, e)
Reduce(target, op, e) == [Assign("reduce", target, e) EXCEPT !.op = op]
Branch(op, clauses, e) == [cond |-> [op |-> op, clauses |-> clauses], val |-> e]
If(kind, target, arms, other) ==
  [kind |-> kind, target |-> target, op |-> "add", arms |-> arms, other |-> other]

StoreBodies == {
  \* dst[i] = f(a[i], b[i])
  <<Set("a", Mixed(<<At("b"), At("c")>>))>>,
  \* a[i] = f(a[i], b[i])
  <<Set("a", Mixed(<<At("a"), At("b")>>))>>,
  \* copies: at the index, shifted, and from an offset
  <<Set("a", ReadOf(<<At("b")>>))>>,
  <<Set("a", ReadOf(<<Past("a", 1)>>))>>,
  <<Set("a", ReadOf(<<Past("b", 1)>>))>>,
  <<Set("a", ReadOf(<<Var("b", -1)>>))>>,
  <<Set("a", ReadOf(<<At("a")>>))>>,
  \* fills
  <<Set("a", Const)>>,
  <<Set("a", ZeroConst)>>,
  <<Set("a", ZeroConst), Set("b", Mixed(<<At("a"), At("b")>>))>>,
  \* a[i] = f(a[i+1], b[i]); b[i] = f(a[i+1], a[i])
  <<Set("a", Mixed(<<Past("a", 1), At("b")>>))>>,
  <<Set("a", Mixed(<<Past("a", 1), At("b")>>)), Set("b", Mixed(<<Past("a", 1), At("a")>>))>>,
  <<Set("a", Mixed(<<At("b")>>)), Set("b", Mixed(<<Past("a", 1), At("b")>>))>>,
  <<Set("a", Mixed(<<At("b")>>)), Set("b", Mixed(<<Past("a", 2), Past("a", 1)>>))>>,
  \* recurrences
  <<Set("a", Mixed(<<Past("a", -1), At("b")>>))>>,
  <<Set("a", Mixed(<<Var("a", 1), At("b")>>))>>,
  \* stencils and rows
  <<Set("a", Mixed(<<Past("b", 1), At("b")>>))>>,
  <<Set("a", Mixed(<<Past("b", -1), Past("b", 1)>>))>>,
  <<Set("a", Mixed(<<Var("b", 1), At("a")>>))>>,
  <<Set("a", Const), Set("c", Mixed(<<Var("b", -1)>>))>>,
  \* a stored slice read again
  <<Set("a", Mixed(<<At("b")>>)), Set("c", Mixed(<<At("a"), At("b")>>))>>,
  <<Set("a", Mixed(<<At("a")>>)), Set("a", Mixed(<<At("a"), At("b")>>))>>,
  \* temporaries
  <<Let("t", Mixed(<<At("b")>>)), Set("a", MixT(<<At("a")>>, <<"t">>)), Set("b", UseOf("t"))>>,
  <<Let("t", Mixed(<<At("a")>>)), Set("a", Mixed(<<At("b")>>)), Set("b", MixT(<<At("a")>>, <<"t">>))>>,
  \* the range value variable
  <<Set("b", Mixed(<<Each("a")>>))>>,
  <<Set("a", Mixed(<<Each("a"), At("b")>>))>>,
  <<Set("a", Const), Set("b", Mixed(<<Each("a")>>))>>,
  \* selects
  <<If("store", "a", <<Branch("and", <<Mixed(<<At("a")>>)>>, Const)>>, <<>>)>>,
  <<If("store", "a", <<Branch("and", <<Mixed(<<At("b")>>)>>, Const)>>, <<>>)>>,
  <<If("store", "a", <<Branch("and", <<Mixed(<<At("b")>>)>>, Mixed(<<At("a"), At("b")>>))>>, <<Mixed(<<At("b")>>)>>)>>,
  <<If("store", "a", <<Branch("and", <<Mixed(<<At("a")>>)>>, Mixed(<<At("b")>>))>>, <<>>)>>,
  <<If("store", "a", <<Branch("or", <<Mixed(<<At("a"), At("b")>>), Mixed(<<At("b")>>)>>, Mixed(<<At("b")>>)),
                       Branch("and", <<Mixed(<<At("a")>>), Mixed(<<At("a")>>)>>, Const)>>, <<>>)>>,
  <<If("store", "a", <<Branch("and", <<Mixed(<<At("a")>>), Mixed(<<At("b")>>)>>, Const)>>, <<>>)>>,
  <<If("store", "a", <<Branch("and", <<Mixed(<<At("a")>>)>>, Const),
                       Branch("and", <<Mixed(<<At("a"), At("b")>>)>>, Const)>>, <<>>)>>,
  <<Let("t", Mixed(<<At("b")>>)),
    If("let", "t", <<Branch("and", <<UseOf("t")>>, MixT(<<>>, <<"t">>))>>, <<>>),
    Set("a", MixT(<<At("a")>>, <<"t">>))>>,
  <<Let("t", Mixed(<<At("b")>>)),
    If("let", "t", <<Branch("and", <<UseOf("t")>>, Mixed(<<At("c")>>))>>, <<>>),
    Set("a", UseOf("t"))>>
}

FoldBodies == {
  <<Reduce("s", "add", ReadOf(<<At("a")>>))>>,
  <<Reduce("s", "min", ReadOf(<<Each("a")>>))>>,
  <<Reduce("s", "add", Mixed(<<At("a"), At("b")>>)), Reduce("r", "min", ReadOf(<<At("b")>>))>>,
  <<Reduce("s", "add", ReadOf(<<At("a")>>)), Reduce("r", "add", ReadOf(<<At("b")>>)),
    Reduce("q", "add", Mixed(<<At("a"), At("b")>>))>>,
  <<Let("t", Mixed(<<At("a")>>)), Reduce("s", "add", UseOf("t")), Set("b", UseOf("t"))>>,
  <<Set("a", Mixed(<<Past("a", 1)>>)), Reduce("s", "add", ReadOf(<<At("a")>>))>>,
  <<Reduce("s", "add", ReadOf(<<Var("a", 1)>>)), Reduce("s", "add", ReadOf(<<At("a")>>))>>,
  <<Reduce("s", "add", ReadOf(<<Var("a", 1)>>)), Set("b", Mixed(<<Var("a", 1), At("b")>>))>>
}

-----------------------------------------------------------------------------
(* A header: the text of start and limit, and their values.                *)
Header(start, limit, startConst, limitConst, startZero, trip, step) ==
  [start |-> start, limit |-> limit, startConst |-> startConst, limitConst |-> limitConst,
   startZero |-> startZero, trip |-> trip, step |-> step]

\* for i := range a, for i := s; i < len(a); i++, for i := len(a)-1; i >= s; i--
RangeOver(len) == Header(0, len, TRUE, FALSE, TRUE, "a", 1)
FromTo(start, limit, step) == Header(start, limit, FALSE, FALSE, FALSE, NoSlice, step)
FromLiteral(start, limit, step) == Header(start, limit, TRUE, FALSE, start = 0, NoSlice, step)
Literals(start, limit, step) == Header(start, limit, TRUE, TRUE, start = 0, NoSlice, step)
FromToLen(start, len) == Header(start, len, FALSE, FALSE, FALSE, "a", 1)

Headers(len, low, high) ==
  {RangeOver(len), FromTo(low, high, 1), FromTo(low, high, -1), FromTo(-1, high, 1),
   FromLiteral(0, high, 1), FromLiteral(1, high, 1), FromLiteral(-1, high, 1), FromTo(high, low, 1),
   Literals(0, high, 1), Literals(1, high, -1), FromToLen(low, len)}

Window(base, len) == [base |-> base, len |-> len]
Layout(a, b, c) == [ref \in SliceNames |-> CASE ref = "a" -> a [] ref = "b" -> b [] ref = "c" -> c]

Job(body, slices, header, fields, nilRoot, float) ==
  [body |-> body, slices |-> slices, fields |-> fields, nilRoot |-> nilRoot, float |-> float,
   start |-> header.start, limit |-> header.limit, startConst |-> header.startConst,
   limitConst |-> header.limitConst, startZero |-> header.startZero, trip |-> header.trip,
   step |-> header.step]

UsesEach(body) == \E ld \in AllLoads(body) : ld.fromRange
Names(body) == Refs(body)

(* Slices apart, the same, and overlapping at every distance below a       *)
(* chunk, to either side; one too short.                                   *)
StoreLayouts ==
  {Layout(Window(5, 5), Window(b, len), Window(c, 5)) : b \in {0, 3, 4, 5, 6, 8, 11}, len \in {4, 5}, c \in {0, 11}}
StoreJobs ==
  {Job(body, slices, header, {}, FALSE, FALSE) :
     body \in {x \in StoreBodies : ~UsesEach(x)}, slices \in StoreLayouts, header \in Headers(5, 1, 4)}
  \cup {Job(body, slices, RangeOver(5), {}, FALSE, FALSE) :
     body \in {x \in StoreBodies : UsesEach(x)}, slices \in StoreLayouts}
  \cup {Job(body, Layout(Window(0, 5), Window(6, 5), Window(11, 5)), header, {"b"}, nilRoot, FALSE) :
     body \in {x \in StoreBodies : ~UsesEach(x)}, header \in Headers(5, 1, 4), nilRoot \in BOOLEAN}

FoldJobs ==
  {Job(body, Layout(Window(0, len), Window(b, len), Window(0, 0)), header, {}, FALSE, float) :
     body \in {x \in FoldBodies : ~UsesEach(x)}, len \in {9, 11, 12}, b \in {0, 12},
     header \in {FromTo(0, 11, 1), FromTo(0, 10, -1), FromTo(1, 9, 1), FromTo(0, 5, 1), Literals(0, 11, 1)},
     float \in BOOLEAN}
  \cup {Job(body, Layout(Window(0, len), Window(b, len), Window(0, 0)), RangeOver(len), {}, FALSE, float) :
     body \in FoldBodies, len \in {7, 9, 11}, b \in {0, 12}, float \in BOOLEAN}

MCJobs == StoreJobs \cup FoldJobs
=============================================================================
