------------------------------ MODULE BoundsMC ------------------------------
(***************************************************************************)
(* Headers over ints of five bits.  w is a constant, n a variable.         *)
(***************************************************************************)
EXTENDS Bounds

Loop(down, closed, start, limit) ==
  [down |-> down, closed |-> closed, fold |-> FALSE, minus |-> FALSE,
   start |-> start, limit |-> limit, off |-> Lit(0)]
Up(start, limit) == Loop(FALSE, FALSE, start, limit)
UpTo(start, limit) == Loop(FALSE, TRUE, start, limit)
Down(start, limit) == Loop(TRUE, FALSE, start, limit)
DownTo(start, limit) == Loop(TRUE, TRUE, start, limit)

At(h, off) == [h EXCEPT !.off = off]
Behind(h, off) == [h EXCEPT !.off = off, !.minus = TRUE]
Fold(h) == [h EXCEPT !.fold = TRUE]

n == Name("n")
w == Name("w")
d == LenOf("d")
Less(x, v) == Op("-", x, Lit(v))

(* What may be written for start and limit.                                *)
Starts == {Lit(0), Lit(1), n, Op("/", n, Lit(2))}
Limits == {n, d, LenOf("a"), Less(d, 1), Less(n, 2), Op("*", n, Lit(2)), Lit(4)}

Plain ==
  {Up(s, l) : s \in Starts, l \in Limits} \union
  {UpTo(s, l) : s \in {Lit(0), n}, l \in {Less(d, 1), Less(d, 2), Lit(3), n}} \union
  {Down(s, l) : s \in {Less(d, 1), Lit(3)}, l \in {Lit(0), Lit(-1), n}} \union
  {DownTo(s, l) : s \in {Less(d, 1), Less(d, 2), n}, l \in {Lit(0), Lit(1), n}}

Shifted ==
  {At(h, off) : h \in {Up(Lit(0), Less(d, 1)), Up(n, d), Up(Lit(1), n), DownTo(Less(d, 2), Lit(1))}, off \in {Lit(1), n}} \union
  {Behind(h, off) : h \in {Up(Lit(1), d), Up(n, d), Up(Lit(0), n), DownTo(Less(d, 1), n)}, off \in {Lit(1), n}}

(* Constants where the emitted file keeps their name, and literal offsets. *)
Portable ==
  {Up(Lit(0), w), UpTo(Lit(0), Less(w, 1)), DownTo(Less(w, 1), Lit(0)), Down(Less(d, 1), w),
   Up(w, d), Up(w, n), UpTo(Lit(0), w), At(Up(Lit(0), w), Lit(1)), Behind(Up(w, d), Lit(1))}

(* Loops over everything, stored and folded.                               *)
MCHeaders ==
  LET all == Plain \union Shifted \union Portable IN all \union {Fold(h) : h \in all}

(* A constant is taken away from the length.                               *)
LessByConstant == {UpTo(Lit(0), Op("-", d, w))}

MCValues == {-16, -15, -9, 9, 14, 15} \union -1..5
SmallAndLarge == {[x \in {"w"} |-> v] : v \in {2, 3, 4}}
Three == [x \in {"w"} |-> 3]
=============================================================================
