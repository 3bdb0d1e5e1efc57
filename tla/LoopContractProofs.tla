-------------------------- MODULE LoopContractProofs --------------------------
(***************************************************************************)
(* The code emitted for a loop implements LoopContract: for every job,     *)
(* vector length, plan constant and memory it ends in the state the source *)
(* loop ends in, or panics where that loop does.                           *)
(***************************************************************************)
EXTENDS VectorLoopProofs

-----------------------------------------------------------------------------
(***************************************************************************)
(* Folding.                                                                *)
(***************************************************************************)
Values(vals, first, last) == \A l \in first..(last - 1) : vals[l] \in Value

(* f goes through the values of a fold.                                    *)
Partial(f, op, x, vals, first, len) ==
  /\ f \in [0..len -> Value] /\ f[0] = x
  /\ \A m \in 1..len : f[m] = Fold(op, f[m - 1], vals[first + m - 1])

(* A fold is the last of its partial folds.                                *)
LEMMA PartialFolds ==
  ASSUME NEW op \in FoldOps, NEW x \in Value, NEW first \in Int, NEW last \in Int, first <= last,
         NEW vals, Values(vals, first, last)
  PROVE  \E f : Partial(f, op, x, vals, first, last - first)
                /\ FoldOver(op, x, vals, first, last) = f[last - first]
<1> DEFINE len == last - first
           Next1(v, m) == Fold(op, v, vals[first + m - 1])
           F == [at \in Value \X (1..len) |-> Next1(at[1], at[2])]
           P(g) == g = [m \in 0..len |-> IF m = 0 THEN x ELSE Next1(g[m - 1], m)]
<1>1. len \in Nat
  OBVIOUS
<1>2. F \in [Value \X (1..len) -> Value]
  <2>1. ASSUME NEW v \in Value, NEW m \in 1..len PROVE Next1(v, m) \in Value
    <3>1. first + m - 1 \in first..(last - 1)
      OBVIOUS
    <3>2. vals[first + m - 1] \in Value
      BY <3>1 DEF Values
    <3> QED
      BY <3>2, OperationsAssumption
  <2> HIDE DEF Next1
  <2> QED
    BY <2>1
<1>3. PICK f \in [0..len -> Value] : Follows(f, len, x, F)
  <2> HIDE DEF len, F
  <2> QED
    BY <1>1, <1>2, SequenceExists
<1>4. P(f)
  <2>1. \A m \in 0..len : m # 0 => F[<<f[m - 1], m>>] = Next1(f[m - 1], m)
    <3> TAKE m \in 0..len
    <3> HAVE m # 0
    <3>1. m \in 1..len /\ m - 1 \in 0..len
      BY <1>1
    <3>2. f[m - 1] \in Value
      BY <3>1
    <3> HIDE DEF Next1
    <3> QED
      BY <3>1, <3>2
  <2> HIDE DEF F, Next1
  <2> QED
    BY <1>3, <2>1 DEF Follows
<1>5. FoldOver(op, x, vals, first, last) = (CHOOSE g : P(g))[len]
  BY DEF FoldOver
<1> DEFINE sum == CHOOSE g : P(g)
<1>6. P(sum)
  <2> HIDE DEF P
  <2> QED
    BY <1>4
<1> HIDE DEF sum
<1>7. sum = [m \in 0..len |-> IF m = 0 THEN x ELSE Next1(sum[m - 1], m)]
  BY <1>6
<1> HIDE DEF Next1, len
<1>8. sum[0] = x /\ \A m \in 1..len : sum[m] = Next1(sum[m - 1], m)
  BY <1>1, <1>7
<1>9. \A m \in 0..len : sum[m] \in Value
  <2> DEFINE G == {m \in 0..len : sum[m] \in Value}
  <2>1. 0 \in G
    BY <1>1, <1>8
  <2>2. ASSUME NEW m \in 0..(len - 1), m \in G PROVE m + 1 \in G
    <3>1. m + 1 \in 1..len /\ m + 1 - 1 = m /\ m + 1 \in 0..len
      BY <1>1
    <3>2. sum[m + 1] = Next1(sum[m], m + 1)
      BY <1>8, <3>1
    <3>3. first + (m + 1) - 1 \in first..(last - 1)
      BY <3>1 DEF len
    <3>4. vals[first + (m + 1) - 1] \in Value
      BY <3>3 DEF Values
    <3>5. Next1(sum[m], m + 1) \in Value
      BY <2>2, <3>4, OperationsAssumption DEF Next1
    <3> QED
      BY <3>1, <3>2, <3>5
  <2> HIDE DEF G
  <2>3. \A m \in 0..len : m \in G
    BY <1>1, <2>1, <2>2, StepByStep
  <2> QED
    BY <2>3 DEF G
<1>10. sum \in [0..len -> Value]
  BY <1>7, <1>9
<1>11. Partial(sum, op, x, vals, first, len)
  BY <1>8, <1>10 DEF Partial, Next1
<1>12. FoldOver(op, x, vals, first, last) = sum[len]
  BY <1>5 DEF sum, len
<1> QED
  BY <1>11, <1>12 DEF len

(* Two functions that go through the values of a fold do it the same way.  *)
LEMMA PartialSame ==
  ASSUME NEW op, NEW x, NEW y, x = y, NEW first \in Int, NEW len \in Nat, NEW longer \in Nat, len <= longer,
         NEW vals, NEW others, \A m \in first..(first + len - 1) : vals[m] = others[m],
         NEW f, Partial(f, op, x, vals, first, len), NEW g, Partial(g, op, y, others, first, longer)
  PROVE  f[len] = g[len]
<1> DEFINE G == {m \in 0..len : f[m] = g[m]}
<1>1. 0 \in G
  BY DEF Partial
<1>2. ASSUME NEW m \in 0..(len - 1), m \in G PROVE m + 1 \in G
  <2>1. /\ m + 1 \in 1..len /\ m + 1 \in 1..longer /\ m + 1 - 1 = m
        /\ first + (m + 1) - 1 \in first..(first + len - 1)
    OBVIOUS
  <2>2. f[m + 1] = Fold(op, f[m], vals[first + (m + 1) - 1])
    BY <2>1 DEF Partial
  <2>3. g[m + 1] = Fold(op, g[m], others[first + (m + 1) - 1])
    BY <2>1 DEF Partial
  <2>4. f[m] = g[m]
    BY <1>2
  <2> QED
    BY <2>1, <2>2, <2>3, <2>4
<1> HIDE DEF G
<1>3. \A m \in 0..len : m \in G
  BY <1>1, <1>2, StepByStep
<1> QED
  BY <1>3 DEF G

(* A fold begins with x and goes on with one value after another.          *)
LEMMA FoldOverIs ==
  ASSUME NEW op \in FoldOps, NEW x \in Value, NEW first \in Int, NEW last \in Int, first <= last,
         NEW vals, Values(vals, first, last)
  PROVE  /\ FoldOver(op, x, vals, first, last) \in Value
         /\ first = last => FoldOver(op, x, vals, first, last) = x
         /\ first < last =>
              /\ FoldOver(op, x, vals, first, last - 1) \in Value
              /\ vals[last - 1] \in Value
              /\ FoldOver(op, x, vals, first, last) =
                   Fold(op, FoldOver(op, x, vals, first, last - 1), vals[last - 1])
<1>1. PICK f : Partial(f, op, x, vals, first, last - first)
               /\ FoldOver(op, x, vals, first, last) = f[last - first]
  BY PartialFolds
<1>2. f[last - first] \in Value /\ f[0] = x
  BY <1>1 DEF Partial
<1>3. ASSUME first < last
      PROVE  /\ FoldOver(op, x, vals, first, last - 1) \in Value
             /\ vals[last - 1] \in Value
             /\ FoldOver(op, x, vals, first, last) =
                  Fold(op, FoldOver(op, x, vals, first, last - 1), vals[last - 1])
  <2> DEFINE before == last - 1
             len == before - first
  <2>1. before \in Int /\ first <= before /\ Values(vals, first, before) /\ vals[before] \in Value
        /\ len \in Nat /\ last - first = len + 1 /\ first + (len + 1) - 1 = before
    BY <1>3 DEF Values
  <2> HIDE DEF before
  <2>2. PICK g : Partial(g, op, x, vals, first, len) /\ FoldOver(op, x, vals, first, before) = g[len]
    BY <2>1, PartialFolds
  <2> HIDE DEF len
  <2>3. g[len] = f[len] /\ g[len] \in Value
    <3>1. len + 1 \in Nat /\ len <= len + 1
      BY <2>1
    <3>2. g[len] = f[len]
      BY <1>1, <2>1, <2>2, <3>1, PartialSame
    <3> QED
      BY <2>1, <2>2, <3>2 DEF Partial
  <2>4. f[len + 1] = Fold(op, f[len], vals[before])
    <3>1. len + 1 \in 1..(last - first) /\ (len + 1) - 1 = len
      BY <2>1
    <3> QED
      BY <1>1, <2>1, <3>1 DEF Partial
  <2> QED
    BY <1>1, <2>1, <2>2, <2>3, <2>4 DEF before
<1> QED
  BY <1>1, <1>2, <1>3

(* It depends on the values it folds only.                                 *)
LEMMA FoldOverSame ==
  ASSUME NEW op \in FoldOps, NEW x \in Value, NEW first \in Int, NEW last \in Int, first <= last,
         NEW vals, Values(vals, first, last), NEW others, \A l \in first..(last - 1) : others[l] = vals[l]
  PROVE  FoldOver(op, x, others, first, last) = FoldOver(op, x, vals, first, last)
<1> DEFINE len == last - first
<1>1. len \in Nat /\ first + len - 1 = last - 1 /\ Values(others, first, last)
  BY DEF Values
<1>2. PICK f : Partial(f, op, x, vals, first, len) /\ FoldOver(op, x, vals, first, last) = f[len]
  BY PartialFolds
<1>3. PICK g : Partial(g, op, x, others, first, len) /\ FoldOver(op, x, others, first, last) = g[len]
  BY <1>1, PartialFolds
<1>4. \A l \in first..(first + len - 1) : vals[l] = others[l]
  BY <1>1
<1> HIDE DEF len
<1>5. f[len] = g[len]
  BY <1>1, <1>2, <1>3, <1>4, PartialSame
<1> QED
  BY <1>2, <1>3, <1>5

(* What holds at first and is passed on holds up to last.                  *)
LEMMA UpTo ==
  ASSUME NEW first \in Int, NEW last \in Int, first <= last,
         NEW G, first \in G, \A m \in first..(last - 1) : m \in G => m + 1 \in G
  PROVE  \A m \in first..last : m \in G
<1> DEFINE H == {d \in 0..(last - first) : first + d \in G}
<1>1. last - first \in Nat
  OBVIOUS
<1>2. 0 \in H
  <2>1. first + 0 = first
    OBVIOUS
  <2> QED
    BY <1>1, <2>1
<1>3. ASSUME NEW d \in 0..(last - first - 1), d \in H PROVE d + 1 \in H
  <2>1. first + d \in first..(last - 1) /\ (first + d) + 1 = first + (d + 1) /\ d + 1 \in 0..(last - first)
    OBVIOUS
  <2>2. (first + d) + 1 \in G
    BY <1>3, <2>1
  <2> QED
    BY <2>1, <2>2
<1> HIDE DEF H
<1>4. \A d \in 0..(last - first) : d \in H
  BY <1>1, <1>2, <1>3, StepByStep
<1> SUFFICES ASSUME NEW m \in first..last PROVE m \in G
  OBVIOUS
<1>5. m - first \in 0..(last - first) /\ first + (m - first) = m
  OBVIOUS
<1>6. first + (m - first) \in G
  BY <1>4, <1>5 DEF H
<1> QED
  BY <1>5, <1>6

(* The order of two values folded one after the other does not matter.     *)
LEMMA FoldSwap ==
  ASSUME NEW op \in FoldOps, NEW x \in Value, NEW y \in Value, NEW z \in Value
  PROVE  /\ Fold(op, x, y) \in Value
         /\ Fold(op, Fold(op, x, y), z) = Fold(op, Fold(op, x, z), y)
         /\ Fold(op, Fold(op, x, y), z) = Fold(op, x, Fold(op, y, z))
<1>1. Fold(op, x, y) \in Value
  BY OperationsAssumption
<1>2. /\ Fold(op, Fold(op, x, y), z) = Fold(op, x, Fold(op, y, z))
      /\ Fold(op, Fold(op, x, z), y) = Fold(op, x, Fold(op, z, y))
      /\ Fold(op, y, z) = Fold(op, z, y)
  BY FoldAssumption
<1> QED
  BY <1>1, <1>2

(* A value folded before the others may as well be folded after them.      *)
LEMMA FoldOverPull ==
  ASSUME NEW op \in FoldOps, NEW x \in Value, NEW y \in Value, NEW first \in Int, NEW last \in Int,
         first <= last, NEW vals, Values(vals, first, last)
  PROVE  FoldOver(op, Fold(op, x, y), vals, first, last) = Fold(op, FoldOver(op, x, vals, first, last), y)
<1> DEFINE Left(m) == FoldOver(op, Fold(op, x, y), vals, first, m)
           Right(m) == FoldOver(op, x, vals, first, m)
           G == {m \in first..last : Left(m) = Fold(op, Right(m), y)}
<1>1. Fold(op, x, y) \in Value
  BY FoldSwap
<1>2. first \in G
  <2>1. Values(vals, first, first)
    BY DEF Values
  <2>2. Left(first) = Fold(op, x, y) /\ Right(first) = x
    BY <1>1, <2>1, FoldOverIs
  <2> QED
    BY <2>2
<1>3. ASSUME NEW m \in first..(last - 1), m \in G PROVE m + 1 \in G
  <2>1. /\ m + 1 \in Int /\ first < m + 1 /\ (m + 1) - 1 = m /\ m + 1 \in first..last
        /\ Values(vals, first, m + 1)
    BY DEF Values
  <2>2. /\ Left(m + 1) = Fold(op, Left(m), vals[m])
        /\ Right(m + 1) = Fold(op, Right(m), vals[m])
        /\ Right(m) \in Value /\ vals[m] \in Value
    <3> HIDE DEF G
    <3> QED
      BY <1>1, <2>1, FoldOverIs
  <2>3. Left(m) = Fold(op, Right(m), y)
    BY <1>3
  <2> HIDE DEF Left, Right
  <2>4. \A v, w \in Value : Fold(op, Fold(op, v, y), w) = Fold(op, Fold(op, v, w), y)
    BY FoldSwap
  <2> QED
    BY <2>1, <2>2, <2>3, <2>4
<1> HIDE DEF G
<1>4. \A m \in first..last : m \in G
  BY <1>2, <1>3, UpTo
<1> QED
  BY <1>4 DEF G

(* The first value may be folded first of all.                             *)
LEMMA FoldOverFront ==
  ASSUME NEW op \in FoldOps, NEW x \in Value, NEW first \in Int, NEW last \in Int, first < last,
         NEW vals, Values(vals, first, last)
  PROVE  /\ vals[first] \in Value /\ Fold(op, x, vals[first]) \in Value
         /\ Values(vals, first + 1, last)
         /\ FoldOver(op, x, vals, first, last) = FoldOver(op, Fold(op, x, vals[first]), vals, first + 1, last)
<1> DEFINE y == Fold(op, x, vals[first])
           Left(m) == FoldOver(op, x, vals, first, m)
           Right(m) == FoldOver(op, y, vals, first + 1, m)
           G == {m \in (first + 1)..last : Left(m) = Right(m)}
<1>1. vals[first] \in Value /\ Values(vals, first + 1, last)
  BY DEF Values
<1>2. y \in Value
  BY <1>1, FoldSwap
<1> HIDE DEF y
<1>3. first + 1 \in G
  <2>1. Values(vals, first, first) /\ Values(vals, first, first + 1) /\ Values(vals, first + 1, first + 1)
    BY DEF Values
  <2>2. first + 1 \in Int /\ first < first + 1 /\ (first + 1) - 1 = first
    OBVIOUS
  <2>3. FoldOver(op, x, vals, first, first) = x
    BY <2>1, FoldOverIs
  <2>4. Left(first + 1) = Fold(op, FoldOver(op, x, vals, first, first), vals[first])
    BY <2>1, <2>2, FoldOverIs
  <2>5. Right(first + 1) = y
    BY <1>2, <2>1, <2>2, FoldOverIs
  <2> QED
    BY <2>3, <2>4, <2>5 DEF y
<1>4. ASSUME NEW m \in (first + 1)..(last - 1), m \in G PROVE m + 1 \in G
  <2>1. /\ m + 1 \in Int /\ first < m + 1 /\ first + 1 < m + 1 /\ first + 1 \in Int
        /\ (m + 1) - 1 = m /\ m + 1 \in (first + 1)..last
        /\ Values(vals, first, m + 1) /\ Values(vals, first + 1, m + 1)
    BY DEF Values
  <2>2. Left(m + 1) = Fold(op, Left(m), vals[m])
    <3> HIDE DEF G
    <3> QED
      BY <2>1, FoldOverIs
  <2>3. Right(m + 1) = Fold(op, Right(m), vals[m])
    <3> HIDE DEF G
    <3> QED
      BY <1>2, <2>1, FoldOverIs
  <2>4. Left(m) = Right(m)
    BY <1>4
  <2> HIDE DEF Left, Right
  <2> QED
    BY <2>1, <2>2, <2>3, <2>4
<1> HIDE DEF G
<1>5. \A m \in (first + 1)..last : m \in G
  <2>1. first + 1 \in Int /\ first + 1 <= last
    OBVIOUS
  <2> QED
    BY <1>3, <1>4, <2>1, UpTo
<1> QED
  BY <1>1, <1>2, <1>5 DEF G, y

(* Values folded lane by lane into others are folded as well.              *)
LEMMA FoldOverLanes ==
  ASSUME NEW op \in FoldOps, NEW x \in Value, NEW first \in Int, NEW last \in Int, first <= last,
         NEW u, Values(u, first, last), NEW w, Values(w, first, last),
         NEW both, \A l \in first..(last - 1) : both[l] = Fold(op, u[l], w[l])
  PROVE  FoldOver(op, x, both, first, last) = FoldOver(op, FoldOver(op, x, u, first, last), w, first, last)
<1> DEFINE Left(m) == FoldOver(op, x, both, first, m)
           Once(m) == FoldOver(op, x, u, first, m)
           Right(m) == FoldOver(op, Once(m), w, first, m)
           G == {m \in first..last : Left(m) = Right(m)}
<1>1. Values(both, first, last)
  <2> SUFFICES ASSUME NEW l \in first..(last - 1) PROVE both[l] \in Value
    BY DEF Values
  <2>1. u[l] \in Value /\ w[l] \in Value
    BY DEF Values
  <2> QED
    BY <2>1, OperationsAssumption
<1>2. first \in G
  <2>1. Values(both, first, first) /\ Values(u, first, first) /\ Values(w, first, first)
    BY DEF Values
  <2>2. Left(first) = x /\ Once(first) = x
    BY <2>1, FoldOverIs
  <2>3. FoldOver(op, x, w, first, first) = x
    BY <2>1, FoldOverIs
  <2> QED
    BY <2>2, <2>3
<1>3. ASSUME NEW m \in first..(last - 1), m \in G PROVE m + 1 \in G
  <2>1. /\ m + 1 \in Int /\ first <= m + 1 /\ first < m + 1 /\ (m + 1) - 1 = m /\ m + 1 \in first..last /\ m \in Int
        /\ first <= m
        /\ Values(both, first, m + 1) /\ Values(u, first, m + 1) /\ Values(w, first, m + 1)
        /\ Values(w, first, m)
    BY <1>1 DEF Values
  <2>2. Left(m) = Right(m)
    BY <1>3
  <2> HIDE DEF G
  <2>3. /\ Left(m + 1) = Fold(op, Left(m), both[m])
        /\ Once(m + 1) = Fold(op, Once(m), u[m])
        /\ Once(m) \in Value /\ u[m] \in Value
        /\ Once(m + 1) \in Value
    BY <2>1, FoldOverIs
  <2>4. \A v \in Value : /\ FoldOver(op, v, w, first, m + 1) = Fold(op, FoldOver(op, v, w, first, m), w[m])
                          /\ FoldOver(op, v, w, first, m) \in Value
    BY <2>1, FoldOverIs
  <2>5. \A v, y \in Value :
          FoldOver(op, Fold(op, v, y), w, first, m) = Fold(op, FoldOver(op, v, w, first, m), y)
    BY <2>1, FoldOverPull
  <2>6. \A v, y, z \in Value : Fold(op, Fold(op, v, y), z) = Fold(op, v, Fold(op, y, z))
    BY FoldSwap
  <2>7. w[m] \in Value /\ both[m] = Fold(op, u[m], w[m])
    BY DEF Values
  <2> DEFINE o == Once(m)
  <2>8. Right(m + 1) = Fold(op, FoldOver(op, Fold(op, o, u[m]), w, first, m), w[m])
    BY <2>3, <2>4
  <2>9. Right(m) = FoldOver(op, o, w, first, m) /\ Right(m) \in Value /\ o \in Value
    BY <2>3, <2>4
  <2>10. Left(m + 1) = Fold(op, Right(m), Fold(op, u[m], w[m]))
    BY <2>2, <2>3, <2>7
  <2> HIDE DEF o, Left, Right
  <2>11. Right(m + 1) = Fold(op, Fold(op, Right(m), u[m]), w[m])
    BY <2>3, <2>5, <2>8, <2>9
  <2>12. Left(m + 1) = Right(m + 1)
    BY <2>3, <2>6, <2>7, <2>9, <2>10, <2>11
  <2> QED
    BY <2>1, <2>12 DEF G
<1> HIDE DEF G
<1>4. \A m \in first..last : m \in G
  BY <1>2, <1>3, UpTo
<1> QED
  BY <1>4 DEF G

(* A value folded into one of the values is folded into the result.        *)
LEMMA FoldOverAt ==
  ASSUME NEW op \in FoldOps, NEW x \in Value, NEW y \in Value, NEW first \in Int, NEW last \in Int,
         NEW vals, Values(vals, first, last), NEW d \in first..(last - 1),
         NEW new, \A l \in first..(last - 1) : new[l] = IF l = d THEN Fold(op, vals[l], y) ELSE vals[l]
  PROVE  FoldOver(op, x, new, first, last) = Fold(op, FoldOver(op, x, vals, first, last), y)
<1> DEFINE Left(m) == FoldOver(op, x, new, first, m)
           Right(m) == FoldOver(op, x, vals, first, m)
           G == {m \in (d + 1)..last : Left(m) = Fold(op, Right(m), y)}
<1>1. Values(new, first, last)
  <2> SUFFICES ASSUME NEW l \in first..(last - 1) PROVE new[l] \in Value
    BY DEF Values
  <2>1. vals[l] \in Value
    BY DEF Values
  <2> QED
    BY <2>1, OperationsAssumption
<1>2. d + 1 \in G
  <2>1. /\ Values(vals, first, d) /\ Values(vals, first, d + 1) /\ Values(new, first, d + 1)
        /\ d \in Int /\ d + 1 \in Int /\ first <= d /\ first < d + 1 /\ (d + 1) - 1 = d
    BY <1>1 DEF Values
  <2>2. \A l \in first..(d - 1) : new[l] = vals[l]
    OBVIOUS
  <2>3. Left(d) = Right(d)
    BY <2>1, <2>2, FoldOverSame
  <2>4. Left(d + 1) = Fold(op, Left(d), new[d])
    BY <2>1, FoldOverIs
  <2>5. Right(d + 1) = Fold(op, Right(d), vals[d]) /\ Right(d) \in Value /\ vals[d] \in Value
    BY <2>1, FoldOverIs
  <2> HIDE DEF Left, Right
  <2>6. Fold(op, Fold(op, Right(d), vals[d]), y) = Fold(op, Right(d), Fold(op, vals[d], y))
    BY <2>5, FoldSwap
  <2> QED
    BY <2>1, <2>3, <2>4, <2>5, <2>6
<1>3. ASSUME NEW m \in (d + 1)..(last - 1), m \in G PROVE m + 1 \in G
  <2>1. /\ m + 1 \in Int /\ first <= m + 1 /\ first < m + 1 /\ (m + 1) - 1 = m /\ m + 1 \in (d + 1)..last
        /\ Values(new, first, m + 1) /\ Values(vals, first, m + 1) /\ new[m] = vals[m]
    BY <1>1 DEF Values
  <2>2. Left(m) = Fold(op, Right(m), y)
    BY <1>3
  <2> HIDE DEF G
  <2>3. Left(m + 1) = Fold(op, Left(m), new[m])
    BY <2>1, FoldOverIs
  <2>4. Right(m + 1) = Fold(op, Right(m), vals[m]) /\ Right(m) \in Value /\ vals[m] \in Value
    BY <2>1, FoldOverIs
  <2> HIDE DEF Left, Right
  <2>5. \A v, w \in Value : Fold(op, Fold(op, v, y), w) = Fold(op, Fold(op, v, w), y)
    BY FoldSwap
  <2> QED
    BY <2>1, <2>2, <2>3, <2>4, <2>5 DEF G
<1> HIDE DEF G
<1>4. \A m \in (d + 1)..last : m \in G
  <2>1. d + 1 \in Int /\ d + 1 <= last
    OBVIOUS
  <2> QED
    BY <1>2, <1>3, <2>1, UpTo
<1> QED
  BY <1>4 DEF G

(* Identities fold to nothing.                                             *)
LEMMA FoldOverIdentity ==
  ASSUME NEW op \in FoldOps, NEW x \in Value, NEW first \in Int, NEW last \in Int, first <= last,
         NEW vals, \A l \in first..(last - 1) : vals[l] = Identity(op)
  PROVE  FoldOver(op, x, vals, first, last) = x
<1> DEFINE G == {m \in first..last : FoldOver(op, x, vals, first, m) = x}
<1>1. Values(vals, first, last)
  BY OperationsAssumption DEF Values
<1>2. first \in G
  <2>1. Values(vals, first, first)
    BY DEF Values
  <2> QED
    BY <2>1, FoldOverIs
<1>3. ASSUME NEW m \in first..(last - 1), m \in G PROVE m + 1 \in G
  <2>1. /\ m + 1 \in Int /\ first < m + 1 /\ (m + 1) - 1 = m /\ m + 1 \in first..last
        /\ Values(vals, first, m + 1)
    BY <1>1 DEF Values
  <2>2. FoldOver(op, x, vals, first, m + 1) = Fold(op, FoldOver(op, x, vals, first, m), vals[m])
    <3> HIDE DEF G
    <3> QED
      BY <2>1, FoldOverIs
  <2>3. FoldOver(op, x, vals, first, m) = x
    BY <1>3
  <2>4. Fold(op, x, Identity(op)) = x
    BY FoldAssumption
  <2> QED
    BY <2>1, <2>2, <2>3, <2>4
<1> HIDE DEF G
<1>4. \A m \in first..last : m \in G
  BY <1>2, <1>3, UpTo
<1> QED
  BY <1>4 DEF G

-----------------------------------------------------------------------------
(***************************************************************************)
(* Where the source loop panics.                                           *)
(***************************************************************************)

(* Every element statement s names at index x is in its slice.             *)
StatementIn(s, x) ==
  /\ \A ld \in LoadsOf(job.body[s]) : InRange(job, ld.ref, x + ld.off)
  /\ job.body[s].kind = "store" => InRange(job, job.body[s].target, x)

(* The accesses of the body are those of its statements.                   *)
LEMMA StatementsIn ==
  ASSUME JobOK(job), NEW x \in Int, \A s \in DOMAIN job.body : StatementIn(s, x)
  PROVE  InBody(x)
<1> SUFFICES ASSUME NEW access \in Checked(job.body) PROVE InRange(job, access[1], x + access[3])
  BY DEF InBody
<1>1. CASE access \in Keys(AllLoads(job.body))
  <2>1. PICK s \in DOMAIN job.body : \E ld \in LoadsOf(job.body[s]) : access = Key(ld)
    BY <1>1 DEF Keys, AllLoads
  <2> QED
    BY <2>1 DEF StatementIn, Key
<1>2. CASE access \in {AtIndex(ref) : ref \in Stored(job.body)}
  <2>1. PICK s \in Stores(job.body) : access = AtIndex(job.body[s].target)
    BY <1>2 DEF Stored
  <2>2. InRange(job, job.body[s].target, x) /\ access[1] = job.body[s].target /\ access[3] = 0
    BY <2>1 DEF StatementIn, Stores, AtIndex
  <2> QED
    BY <2>2
<1> QED
  BY <1>1, <1>2 DEF Checked

(* What a condition reads its first comparison reads.                      *)
LEMMA FirstClause ==
  ASSUME NEW c, c.clauses \in Seq(Expr), ClausesSafe(c)
  PROVE  \A m \in DOMAIN c.clauses : 1 \in DOMAIN c.clauses /\ Keys(Loads(c.clauses[m])) \subseteq Keys(Loads(c.clauses[1]))
<1> DEFINE len == Len(c.clauses)
           In(m) == Keys(Loads(c.clauses[m])) \subseteq Keys(Loads(c.clauses[1]))
           G == {m \in 0..len : \A p \in 1..m : In(p)}
<1>1. len \in Nat /\ DOMAIN c.clauses = 1..len
  OBVIOUS
<1>2. 0 \in G
  BY <1>1
<1>3. ASSUME NEW m \in 0..(len - 1), m \in G PROVE m + 1 \in G
  <2>1. m + 1 \in 1..len /\ m + 1 \in 0..len /\ m \in Nat /\ (m + 1) - 1 = m
    BY <1>1
  <2>2. \A p \in 1..m : In(p)
    BY <1>3
  <2>3. In(m + 1)
    <3>1. CASE m = 0
      BY <3>1
    <3>2. CASE m > 0
      <4>1. m + 1 \in DOMAIN c.clauses /\ m + 1 > 1
        BY <1>1, <2>1, <3>2
      <4>2. Keys(Loads(c.clauses[m + 1])) \subseteq UNION {Keys(Loads(c.clauses[p])) : p \in 1..((m + 1) - 1)}
        BY <4>1 DEF ClausesSafe
      <4> QED
        BY <2>1, <2>2, <4>2
    <3> QED
      BY <2>1, <3>1, <3>2
  <2>4. \A p \in 1..(m + 1) : p \in 1..m \/ p = m + 1
    BY <2>1
  <2> HIDE DEF In
  <2> QED
    BY <2>1, <2>2, <2>3, <2>4
<1> HIDE DEF G
<1>4. \A m \in 0..len : m \in G
  BY <1>1, <1>2, <1>3, StepByStep
<1>5. ASSUME NEW m \in DOMAIN c.clauses PROVE 1 \in DOMAIN c.clauses /\ In(m)
  BY <1>1, <1>4 DEF G
<1> QED
  BY <1>5

(* An element that is named by a load the iteration performs is in its     *)
(* slice, a range value variable's as the loop ends with its slice.        *)
LEMMA PerformedIn ==
  ASSUME JobOK(job), NEW s \in DOMAIN job.body, NEW x \in job.start..(job.limit - 1),
         NEW reads, NEW held, ~StatementPanics(job, job.body[s], x, reads, held),
         NEW ld \in Performed(job.body[s], reads, held)
  PROVE  InRange(job, ld.ref, x + ld.off)
<1>1. CASE ~ld.fromRange
  BY <1>1 DEF StatementPanics
<1>2. CASE ld.fromRange
  <2>1. ld \in LoadsOf(job.body[s]) /\ ld \in Load
    BY BodyType, PerformedLoads, LoadsOfType
  <2>2. ld.ref = job.trip /\ ld.kind = "none" /\ job.start = 0
    BY <1>2, <2>1 DEF JobOK, RangeValueOK, AllLoads
  <2>3. ld.off = 0 /\ ld.ref \in SliceNames
    BY <2>1, <2>2 DEF Load
  <2>4. job.limit = job.slices[ld.ref].len /\ ~(ld.ref \in job.fields /\ job.nilRoot)
    BY <2>2, <2>3 DEF JobOK, HeaderOK
  <2>5. x \in 0..(job.slices[ld.ref].len - 1) /\ x + ld.off = x
    BY <2>2, <2>3, <2>4, HeaderType
  <2> QED
    BY <2>4, <2>5 DEF InRange
<1>3. ld.fromRange \in BOOLEAN
  BY BodyType, PerformedLoads, LoadsOfType DEF Load
<1> QED
  BY <1>1, <1>2, <1>3

(* A statement that does not panic names nothing outside its slice, not    *)
(* even in a branch that is not taken: lower.go saw to it that evaluating  *)
(* all branches reads no more than the first condition does.               *)
LEMMA PanicFree ==
  ASSUME JobOK(job), NEW s \in DOMAIN job.body, SelectsSafe(job.body[s]),
         NEW x \in job.start..(job.limit - 1), NEW reads, NEW held,
         ~StatementPanics(job, job.body[s], x, reads, held)
  PROVE  StatementIn(s, x)
<1> DEFINE stmt == job.body[s]
           In(key) == InRange(job, key[1], x + key[3])
<1>1. stmt \in Statement /\ StatementOK(stmt) /\ LoadsOf(stmt) \subseteq Load
  BY BodyType, LoadsOfType
<1>2. \A ld \in Performed(stmt, reads, held) : In(Key(ld))
  <2> TAKE ld \in Performed(stmt, reads, held)
  <2>1. InRange(job, ld.ref, x + ld.off)
    BY PerformedIn
  <2> QED
    BY <2>1 DEF Key
<1>3. x \in Int
  BY HeaderType
<1>4. ASSUME NEW a \in DOMAIN stmt.arms, \A b \in 1..(a - 1) : ~CondHolds(stmt.arms[b].cond, reads, held)
      PROVE  \A key \in Keys(CondLoads(stmt.arms[a].cond)) : In(key)
  <2> DEFINE c == stmt.arms[a].cond
  <2>1. c.clauses \in Seq(Expr) /\ ClausesSafe(c)
    BY <1>1, ArmType DEF SelectsSafe
  <2>2. EvaluatedIn(c, reads, held) \subseteq Performed(stmt, reads, held)
    <3> HIDE DEF stmt
    <3> QED
      BY <1>4 DEF Performed
  <2>3. 1 \in DOMAIN c.clauses => Loads(c.clauses[1]) \subseteq EvaluatedIn(c, reads, held)
    <3> SUFFICES ASSUME 1 \in DOMAIN c.clauses PROVE Loads(c.clauses[1]) \subseteq EvaluatedIn(c, reads, held)
      OBVIOUS
    <3> HIDE DEF c
    <3>1. 1 \in {n0 \in DOMAIN c.clauses : \A p \in 1..(n0 - 1) : ClauseHolds(c, p, reads, held) = (c.op = "and")}
      OBVIOUS
    <3> QED
      BY <3>1 DEF EvaluatedIn
  <2> HIDE DEF c, In, stmt
  <2>4. 1 \in DOMAIN c.clauses => \A key \in Keys(Loads(c.clauses[1])) : In(key)
    BY <1>2, <2>2, <2>3 DEF Keys
  <2> SUFFICES ASSUME NEW key \in Keys(CondLoads(c)) PROVE In(key)
    BY DEF c
  <2>5. PICK m \in DOMAIN c.clauses : key \in Keys(Loads(c.clauses[m]))
    BY DEF Keys, CondLoads
  <2> QED
    BY <2>1, <2>4, <2>5, FirstClause
<1>5. stmt.kind = "store" => InRange(job, stmt.target, x)
  <2> SUFFICES ASSUME stmt.kind = "store" PROVE InRange(job, stmt.target, x)
    OBVIOUS
  <2>1. CASE Assigns(stmt, reads, held)
    BY <2>1 DEF StatementPanics
  <2>2. CASE ~Assigns(stmt, reads, held)
    <3> DEFINE a == Len(stmt.arms)
    <3>1. ~HasElse(stmt) /\ TakesOther(stmt, reads, held)
      BY <2>2 DEF Assigns
    <3>2. IsIf(stmt)
      BY <1>1, <3>1 DEF StatementOK
    <3>3. a \in DOMAIN stmt.arms /\ \A b \in 1..(a - 1) : b \in DOMAIN stmt.arms
      BY <1>1, <3>2 DEF IsIf, Statement
    <3>4. \A b \in 1..(a - 1) : ~CondHolds(stmt.arms[b].cond, reads, held)
      BY <3>1, <3>3 DEF TakesOther
    <3>5. AtIndex(stmt.target) \in Keys(CondLoads(stmt.arms[a].cond))
      BY <3>1, <3>2 DEF SelectsSafe, KeptElementRead
    <3>6. In(AtIndex(stmt.target))
      <4> HIDE DEF In, stmt, a
      <4> QED
        BY <1>4, <3>3, <3>4, <3>5
    <3> QED
      BY <1>3, <3>6 DEF AtIndex
  <2> QED
    BY <2>1, <2>2
<1>6. \A key \in Keys(LoadsOf(stmt)) : In(key)
  <2>1. CASE IsIf(stmt)
    <3>1. 1 \in DOMAIN stmt.arms
      BY <1>1, <2>1 DEF IsIf, Statement
    <3>2. \A key \in Keys(CondLoads(stmt.arms[1].cond)) : In(key)
      <4> HIDE DEF In, stmt
      <4> QED
        BY <1>4, <3>1
    <3>3. stmt.kind = "store" => In(AtIndex(stmt.target))
      BY <1>3, <1>5 DEF AtIndex
    <3>4. Keys(LoadsOf(stmt)) \subseteq Keys(CondLoads(stmt.arms[1].cond))
                                          \cup (IF stmt.kind = "store" THEN {AtIndex(stmt.target)} ELSE {})
      BY <2>1 DEF SelectsSafe, BranchesSafe
    <3> HIDE DEF In, stmt
    <3> QED
      BY <3>2, <3>3, <3>4
  <2>2. CASE ~IsIf(stmt)
    <3>1. HasElse(stmt) /\ stmt.arms = << >>
      BY <1>1, <2>2 DEF StatementOK, IsIf, Statement
    <3>2. TakesOther(stmt, reads, held)
      BY <3>1 DEF TakesOther
    <3>3. LoadsOf(stmt) \subseteq Performed(stmt, reads, held)
      <4>1. LoadsOf(stmt) = Loads(stmt.other[1])
        BY <3>1 DEF LoadsOf, OtherValue
      <4>2. Loads(stmt.other[1]) \subseteq Performed(stmt, reads, held)
        BY <3>1, <3>2 DEF Performed
      <4> QED
        BY <4>1, <4>2
    <3> HIDE DEF In, stmt
    <3> QED
      BY <1>2, <3>3 DEF Keys
  <2> QED
    BY <2>1, <2>2
<1>7. \A ld \in LoadsOf(stmt) : InRange(job, ld.ref, x + ld.off)
  <2> TAKE ld \in LoadsOf(stmt)
  <2>1. Key(ld) \in Keys(LoadsOf(stmt))
    BY DEF Keys
  <2>2. In(Key(ld))
    BY <1>6, <2>1
  <2> QED
    BY <2>2 DEF Key
<1> QED
  BY <1>5, <1>7 DEF StatementIn

(* So an iteration panics that names an element outside its slice,         *)
LEMMA IterationPanics ==
  ASSUME JobOK(job), Lowers(job), NEW x \in job.start..(job.limit - 1), ~InBody(x), NEW st \in State
  PROVE  ExecIteration(job, x, st).panicked
<1> DEFINE run == BodyRun(job, x, st)
<1>1. Len(job.body) \in Nat /\ DOMAIN job.body = 1..Len(job.body) /\ x \in Int
  BY BodyLength, HeaderType
<1>2. /\ run \in [0..Len(job.body) -> State]
      /\ run[0] = [st EXCEPT !.value = RangeValue(job, x, st.mem)]
      /\ \A q \in 1..Len(job.body) : run[q] = IF run[q - 1].panicked THEN run[q - 1]
                                              ELSE ExecStatement(job, job.body[q], x, run[q - 1])
  <2>1. RangeValue(job, x, st.mem) \in Value
    BY RangeValueIn DEF State
  <2> QED
    BY <2>1, BodyRunIs
<1> HIDE DEF run
<1>3. PICK s \in DOMAIN job.body : ~StatementIn(s, x)
  BY <1>1, StatementsIn
<1>4. /\ s \in 1..Len(job.body) /\ s - 1 \in 0..Len(job.body) /\ s \in 0..Len(job.body)
      /\ s <= Len(job.body) /\ s \in Int /\ Len(job.body) \in Int
  BY <1>1
<1>5. run[s].panicked
  <2>1. CASE run[s - 1].panicked
    BY <1>2, <1>4, <2>1
  <2>2. CASE ~run[s - 1].panicked
    <3> DEFINE before == run[s - 1]
               reads == ScalarReads(job, job.body[s], x, before.mem, before.value)
    <3>1. SelectsSafe(job.body[s])
      BY DEF Lowers
    <3>2. StatementPanics(job, job.body[s], x, reads, before.locals)
      BY <1>3, <3>1, PanicFree
    <3>3. before \in State
      BY <1>2, <1>4
    <3> HIDE DEF before
    <3>4. ExecStatement(job, job.body[s], x, before) = [before EXCEPT !.panicked = TRUE]
      BY <3>2 DEF ExecStatement
    <3>5. ExecStatement(job, job.body[s], x, before).panicked
      BY <3>3, <3>4 DEF State
    <3> QED
      BY <1>2, <1>4, <2>2, <3>5 DEF before
  <2> QED
    BY <2>1, <2>2
<1>6. run[Len(job.body)].panicked
  <2> DEFINE G == {q \in 0..Len(job.body) : run[q].panicked}
  <2>1. ASSUME NEW q \in s..(Len(job.body) - 1), q \in G PROVE q + 1 \in G
    <3>1. q + 1 \in 1..Len(job.body) /\ (q + 1) - 1 = q /\ q + 1 \in 0..Len(job.body)
      BY <1>1, <1>4
    <3> QED
      BY <1>2, <2>1, <3>1
  <2>2. s \in G
    BY <1>4, <1>5
  <2> HIDE DEF G
  <2>3. \A q \in s..Len(job.body) : q \in G
    BY <1>4, <2>1, <2>2, UpTo
  <2> QED
    BY <1>1, <1>4, <2>3 DEF G
<1> QED
  BY <1>6 DEF ExecIteration, run

(* whichever way the loop comes to it.                                     *)
LEMMA RunPanics ==
  ASSUME JobOK(job), Lowers(job), NEW step \in {-1, 1},
         NEW x \in job.start..(job.limit - 1), ~InBody(x)
  PROVE  Run(job, step)[Iterations(job)].panicked
<1> DEFINE run == Run(job, step)
           n0 == Iterations(job)
           m == IF step = 1 THEN x - job.start + 1 ELSE job.limit - x
<1>1. /\ n0 \in Nat
      /\ \A d \in 0..n0 : run[d] \in State
      /\ \A d \in 1..n0 : run[d] = IF run[d - 1].panicked THEN run[d - 1]
                                  ELSE ExecIteration(job, IndexAt(job, step, d), run[d - 1])
  BY RunStates
<1>2. m \in 1..n0 /\ m - 1 \in 0..n0 /\ IndexAt(job, step, m) = x /\ m <= n0
  BY HeaderType DEF Iterations, IndexAt
<1> HIDE DEF run, n0, m
<1>3. run[m].panicked
  <2>1. run[m - 1] \in State
    BY <1>1, <1>2
  <2>2. ExecIteration(job, x, run[m - 1]).panicked
    BY <2>1, IterationPanics
  <2>3. run[m] = IF run[m - 1].panicked THEN run[m - 1] ELSE ExecIteration(job, x, run[m - 1])
    BY <1>1, <1>2
  <2> QED
    BY <2>2, <2>3
<1>4. run[n0].panicked
  <2> DEFINE G == {d \in 0..n0 : run[d].panicked}
  <2>1. ASSUME NEW d \in m..(n0 - 1), d \in G PROVE d + 1 \in G
    <3>1. d + 1 \in 1..n0 /\ (d + 1) - 1 = d /\ d + 1 \in 0..n0
      BY <1>1, <1>2
    <3> QED
      BY <1>1, <2>1, <3>1
  <2>2. m \in G
    BY <1>2, <1>3
  <2> HIDE DEF G
  <2>3. \A d \in m..n0 : d \in G
    BY <1>1, <1>2, <2>1, <2>2, UpTo
  <2> QED
    BY <1>1, <1>2, <2>3 DEF G
<1> QED
  BY <1>4 DEF run, n0

-----------------------------------------------------------------------------
(***************************************************************************)
(* What an iteration does that names no element outside its slice, from    *)
(* any state of the scalar loop.                                           *)
(***************************************************************************)

(* A fold changes its accumulator and nothing else does.                   *)
LEMMA ExecFold ==
  ASSUME JobOK(job), NEW s \in DOMAIN job.body, NEW x \in Int, InBody(x), NEW st \in State
  PROVE  LET stmt == job.body[s]
             next == ExecStatement(job, stmt, x, st)
         IN  /\ stmt.kind # "reduce" => next.acc = st.acc
             /\ stmt.kind = "reduce" =>
                  /\ stmt.target \in AccNames
                  /\ next.acc = [st.acc EXCEPT ![stmt.target] =
                                   Fold(stmt.op, st.acc[stmt.target], Assigned(job, stmt, x, st))]
<1> DEFINE stmt == job.body[s]
           next == ExecStatement(job, stmt, x, st)
           new == Assigned(job, stmt, x, st)
           at == ElementAddr(job, stmt.target, x)
           reads == ScalarReads(job, stmt, x, st.mem, st.value)
<1>1. ~StatementPanics(job, stmt, x, reads, st.locals)
  BY NoPanic
<1>2. next = IF ~Assigns(stmt, reads, st.locals) THEN st
             ELSE CASE stmt.kind = "store" -> [st EXCEPT !.mem[at] = new]
                    [] stmt.kind = "let" -> [st EXCEPT !.locals[stmt.target] = new]
                    [] stmt.kind = "reduce" -> [st EXCEPT !.acc[stmt.target] = Fold(stmt.op, @, new)]
  BY <1>1 DEF ExecStatement, Assigned
<1>3. stmt.kind \in {"store", "let", "reduce"}
  BY BodyType DEF Statement
<1>4. stmt.kind = "reduce" => stmt.target \in AccNames /\ Assigns(stmt, reads, st.locals)
  BY BodyType DEF StatementOK, Assigns
<1>5. st = [mem |-> st.mem, acc |-> st.acc, locals |-> st.locals, value |-> st.value,
            panicked |-> st.panicked]
  BY DEF State
<1> HIDE DEF stmt, next, new, at, reads
<1>6. stmt.kind # "reduce" => next.acc = st.acc
  BY <1>2, <1>3, <1>5
<1>7. stmt.kind = "reduce" =>
        next.acc = [st.acc EXCEPT ![stmt.target] = Fold(stmt.op, st.acc[stmt.target], new)]
  BY <1>2, <1>4, <1>5
<1> QED
  BY <1>4, <1>6, <1>7 DEF stmt, next, new

(* It keeps what it does not assign: the range value variable,             *)
LEMMA KeepsValue ==
  ASSUME JobOK(job), NEW x, NEW s \in DOMAIN job.body, NEW st \in State
  PROVE  ExecStatement(job, job.body[s], x, st).value = st.value
<1> DEFINE stmt == job.body[s]
           next == ExecStatement(job, stmt, x, st)
           new == Assigned(job, stmt, x, st)
<1>1. Outcome(stmt, x, st, next)
  BY ExecCases
<1> HIDE DEF stmt, new, next
<1>2. next.value = st.value
  BY <1>1 DEF State, Outcome
<1> QED
  BY <1>2 DEF stmt, next

(* elements of memory,                                                     *)
LEMMA KeepsElements ==
  ASSUME JobOK(job), NEW x, NEW s \in DOMAIN job.body, NEW st \in State
  PROVE  \A a \in Addr : (job.body[s].kind = "store" => a # ElementAddr(job, job.body[s].target, x))
                            => ExecStatement(job, job.body[s], x, st).mem[a] = st.mem[a]
BY ExecKeeps

(* temporaries.                                                            *)
LEMMA KeepsLocals ==
  ASSUME JobOK(job), NEW x, NEW s \in DOMAIN job.body, NEW st \in State
  PROVE  \A t \in TempNames : (job.body[s].kind = "let" => t # job.body[s].target)
                                 => ExecStatement(job, job.body[s], x, st).locals[t] = st.locals[t]
BY ExecKeeps

(* The iteration at x from state st, and what it yields for statement s.   *)
Yields(x, st, s) == Assigned(job, job.body[s], x, BodyRun(job, x, st)[s - 1])

Indexed(x) == x \in job.start..(job.limit - 1) /\ InBody(x)

(* Statement by statement, it changes memory and accumulators only where   *)
(* it assigns, and folds what it yields.                                   *)
FrameAt(x, st, q) ==
  LET now == BodyRun(job, x, st)[q]
  IN  /\ now \in State /\ ~now.panicked
      /\ now.value = RangeValue(job, x, st.mem)
      /\ \A a \in Addr : (\A p \in Stores(job.body) : p <= q => a # ElementAddr(job, job.body[p].target, x))
                           => now.mem[a] = st.mem[a]
      /\ \A t \in AccNames : (\A s \in Folds(job.body) : s <= q => t # job.body[s].target)
                               => now.acc[t] = st.acc[t]
      /\ \A s \in Folds(job.body) : s <= q =>
           now.acc[job.body[s].target] = Fold(job.body[s].op, st.acc[job.body[s].target], Yields(x, st, s))

(* Every state of an iteration is a frame of the one before it: only what  *)
(* the statements so far target has changed.                               *)
LEMMA BodyFrame ==
  ASSUME JobOK(job), LocalsOK(job.body), NEW x, Indexed(x), NEW st \in State, ~st.panicked
  PROVE  \A q \in 0..Len(job.body) : FrameAt(x, st, q)
<1> DEFINE run == BodyRun(job, x, st)
           G == {q \in 0..Len(job.body) : FrameAt(x, st, q)}
<1>1. /\ Len(job.body) \in Nat /\ DOMAIN job.body = 1..Len(job.body)
      /\ x \in job.start..(job.limit - 1) /\ x \in Int /\ InBody(x)
  BY BodyLength, HeaderType DEF Indexed
<1>2. /\ run \in [0..Len(job.body) -> State]
      /\ run[0] = [st EXCEPT !.value = RangeValue(job, x, st.mem)]
      /\ \A q \in 1..Len(job.body) : run[q] = IF run[q - 1].panicked THEN run[q - 1]
                                              ELSE ExecStatement(job, job.body[q], x, run[q - 1])
  <2>1. RangeValue(job, x, st.mem) \in Value
    BY <1>1, RangeValueIn DEF State
  <2> QED
    BY <2>1, BodyRunIs
<1>3. 0 \in G
  <2>1. /\ run[0].panicked = st.panicked /\ run[0].mem = st.mem /\ run[0].acc = st.acc
        /\ run[0].value = RangeValue(job, x, st.mem) /\ run[0] \in State
    <3> HIDE DEF run
    <3> QED
      BY <1>1, <1>2 DEF State
  <2>2. \A s \in Folds(job.body) : ~(s <= 0)
    BY <1>1 DEF Folds
  <2>3. FrameAt(x, st, 0)
    BY <2>1, <2>2 DEF FrameAt
  <2> QED
    BY <1>1, <2>3
<1>4. ASSUME NEW q \in 0..(Len(job.body) - 1), q \in G PROVE q + 1 \in G
  <2>1. q + 1 \in 1..Len(job.body) /\ q + 1 \in DOMAIN job.body /\ (q + 1) - 1 = q /\ q + 1 \in 0..Len(job.body)
        /\ q \in Int
    BY <1>1
  <2> DEFINE before == run[q]
             now == run[q + 1]
             stmt == job.body[q + 1]
             new == Assigned(job, stmt, x, before)
  <2>2. FrameAt(x, st, q)
    BY <1>4
  <2>3. /\ before \in State /\ ~before.panicked /\ before.value = RangeValue(job, x, st.mem)
        /\ \A a \in Addr : (\A p \in Stores(job.body) : p <= q => a # ElementAddr(job, job.body[p].target, x))
                             => before.mem[a] = st.mem[a]
        /\ \A t \in AccNames : (\A s \in Folds(job.body) : s <= q => t # job.body[s].target)
                                 => before.acc[t] = st.acc[t]
        /\ \A s \in Folds(job.body) : s <= q =>
             before.acc[job.body[s].target] = Fold(job.body[s].op, st.acc[job.body[s].target], Yields(x, st, s))
    BY <2>2 DEF FrameAt
  <2>4. now = ExecStatement(job, stmt, x, before)
    <3> HIDE DEF run
    <3> QED
      BY <1>2, <2>1, <2>3
  <2>5. Yields(x, st, q + 1) = new
    BY <2>1 DEF Yields
  <2>6. /\ now.panicked = before.panicked /\ now.value = before.value
        /\ \A a \in Addr : (stmt.kind = "store" => a # ElementAddr(job, stmt.target, x))
                             => now.mem[a] = before.mem[a]
    <3> HIDE DEF before
    <3>1. now.panicked = before.panicked
      BY <1>1, <2>1, <2>3, <2>4, ExecAssigns
    <3> DEFINE next == ExecStatement(job, stmt, x, before)
    <3>2. next.value = before.value
      BY <2>1, <2>3, KeepsValue
    <3>3. \A a \in Addr : (stmt.kind = "store" => a # ElementAddr(job, stmt.target, x)) => next.mem[a] = before.mem[a]
      BY <2>1, <2>3, KeepsElements
    <3> HIDE DEF next, stmt, now
    <3> QED
      BY <2>4, <3>1, <3>2, <3>3 DEF next
  <2>7. /\ stmt.kind # "reduce" => now.acc = before.acc
        /\ stmt.kind = "reduce" =>
             /\ stmt.target \in AccNames
             /\ now.acc = [before.acc EXCEPT ![stmt.target] = Fold(stmt.op, before.acc[stmt.target], new)]
    <3> HIDE DEF before
    <3> QED
      BY <1>1, <2>1, <2>3, <2>4, ExecFold
  <2>8. now \in State
    BY <1>2, <2>1
  <2> HIDE DEF before, now, new, run, G
  <2>9. ASSUME NEW a \in Addr, \A p \in Stores(job.body) : p <= q + 1 => a # ElementAddr(job, job.body[p].target, x)
        PROVE  now.mem[a] = st.mem[a]
    <3>1. stmt.kind = "store" => q + 1 \in Stores(job.body)
      BY <2>1 DEF Stores
    <3>2. stmt.kind = "store" => a # ElementAddr(job, stmt.target, x)
      BY <2>9, <3>1, <2>1
    <3>3. \A p \in Stores(job.body) : p <= q => p <= q + 1
      BY <1>1, <2>1 DEF Stores
    <3> QED
      BY <2>3, <2>6, <2>9, <3>2, <3>3
  <2>10. \A s \in Folds(job.body) : s \in Int /\ s \in DOMAIN job.body /\ job.body[s].target \in AccNames
    BY <1>1, BodyType DEF Folds, StatementOK
  <2>11. ASSUME NEW t \in AccNames, \A s \in Folds(job.body) : s <= q + 1 => t # job.body[s].target
         PROVE  now.acc[t] = st.acc[t]
    <3>1. stmt.kind = "reduce" => q + 1 \in Folds(job.body)
      BY <2>1 DEF Folds
    <3>2. stmt.kind = "reduce" => t # stmt.target
      BY <2>11, <3>1, <2>1
    <3>3. \A s \in Folds(job.body) : s <= q => s <= q + 1
      BY <2>1, <2>10
    <3>4. before.acc[t] = st.acc[t]
      BY <2>3, <2>11, <3>3
    <3>5. before.acc \in [AccNames -> Value]
      BY <2>3 DEF State
    <3> HIDE DEF stmt
    <3> QED
      BY <2>7, <3>2, <3>4, <3>5
  <2>12. ASSUME NEW s \in Folds(job.body), s <= q + 1
         PROVE  now.acc[job.body[s].target] = Fold(job.body[s].op, st.acc[job.body[s].target], Yields(x, st, s))
    <3>1. before.acc \in [AccNames -> Value]
      BY <2>3 DEF State
    <3>2. CASE s = q + 1
      <4>1. stmt.kind = "reduce"
        BY <3>2 DEF Folds
      <4>2. before.acc[stmt.target] = st.acc[stmt.target]
        <5>1. \A p \in Folds(job.body) : p <= q => stmt.target # job.body[p].target
          <6>1. \A p \in Folds(job.body) : job.body[p].target = job.body[s].target => p = s
            BY DEF LocalsOK
          <6> QED
            BY <2>1, <2>10, <3>2, <6>1
        <5> QED
          BY <2>3, <2>10, <3>2, <5>1
      <4> QED
        BY <2>5, <2>7, <3>1, <3>2, <4>1, <4>2
    <3>3. CASE s # q + 1
      <4>1. s <= q
        BY <2>1, <2>10, <2>12, <3>3
      <4>2. stmt.kind = "reduce" => job.body[s].target # stmt.target
        <5>1. \A p \in Folds(job.body) : job.body[p].target = job.body[s].target => p = s
          BY DEF LocalsOK
        <5>2. stmt.kind = "reduce" => q + 1 \in Folds(job.body)
          BY <2>1 DEF Folds
        <5> QED
          BY <3>3, <5>1, <5>2
      <4>3. now.acc[job.body[s].target] = before.acc[job.body[s].target]
        <5> HIDE DEF stmt
        <5> QED
          BY <2>7, <2>10, <3>1, <4>2
      <4> QED
        BY <2>3, <4>1, <4>3
    <3> QED
      BY <3>2, <3>3
  <2>13. FrameAt(x, st, q + 1)
    BY <2>3, <2>6, <2>8, <2>9, <2>11, <2>12 DEF FrameAt, now, run
  <2> QED
    BY <2>1, <2>13 DEF G
<1> HIDE DEF G
<1>5. \A q \in 0..Len(job.body) : q \in G
  BY <1>1, <1>3, <1>4, StepByStep
<1> QED
  BY <1>5 DEF G

(* Two iterations agree that find the same elements where they look.       *)
SameElements(x, m1, m2) ==
  \A access \in Checked(job.body) :
    m1[ElementAddr(job, access[1], x + access[3])] = m2[ElementAddr(job, access[1], x + access[3])]

AgreeAt(x, st1, st2, q) ==
  /\ st1.value = st2.value
  /\ SameElements(x, st1.mem, st2.mem)
  /\ \A t \in TempNames : DefinedBefore(job.body, q + 1, t) => st1.locals[t] = st2.locals[t]

(* Then they assign the same value,                                        *)
LEMMA AssignedSame ==
  ASSUME JobOK(job), LocalsOK(job.body), NEW x \in Int, NEW s \in DOMAIN job.body,
         NEW st1, NEW st2, AgreeAt(x, st1, st2, s - 1)
  PROVE  Assigned(job, job.body[s], x, st1) = Assigned(job, job.body[s], x, st2)
<1> DEFINE stmt == job.body[s]
           r1 == ScalarReads(job, stmt, x, st1.mem, st1.value)
           r2 == ScalarReads(job, stmt, x, st2.mem, st2.value)
<1>1. StatementOK(stmt) /\ s \in Int /\ (s - 1) + 1 = s
  BY BodyType, BodyLength
<1>2. \A ld \in LoadsOf(stmt) : r1[ld] = r2[ld]
  <2> TAKE ld \in LoadsOf(stmt)
  <2>1. Key(ld) \in Checked(job.body)
    BY DEF Checked, Keys, AllLoads
  <2>2. Key(ld)[1] = ld.ref /\ Key(ld)[3] = ld.off
    BY DEF Key
  <2>3. st1.mem[ElementAddr(job, ld.ref, x + ld.off)] = st2.mem[ElementAddr(job, ld.ref, x + ld.off)]
    <3>1. st1.mem[ElementAddr(job, Key(ld)[1], x + Key(ld)[3])] = st2.mem[ElementAddr(job, Key(ld)[1], x + Key(ld)[3])]
      BY <2>1 DEF AgreeAt, SameElements
    <3> QED
      BY <2>2, <3>1
  <2> QED
    BY <2>3 DEF ScalarReads, AgreeAt
<1>3. \A t \in TempsRead(stmt) : st1.locals[t] = st2.locals[t]
  <2> TAKE t \in TempsRead(stmt)
  <2>1. DefinedBefore(job.body, s, t)
    BY DEF LocalsOK
  <2>2. t \in TempNames
    <3>1. PICK p \in 1..(s - 1) : job.body[p].kind = "let" /\ job.body[p].target = t
      BY <2>1 DEF DefinedBefore
    <3>2. p \in DOMAIN job.body
      BY <3>1, BodyLength
    <3> QED
      BY <3>1, <3>2, BodyType DEF StatementOK
  <2> QED
    BY <1>1, <2>1, <2>2 DEF AgreeAt
<1> HIDE DEF stmt, r1, r2
<1>4. SelectValue(stmt, r1, st1.locals) = SelectValue(stmt, r2, st2.locals)
  BY <1>1, <1>2, <1>3, SelectValueSame
<1> QED
  BY <1>4 DEF Assigned, stmt, r1, r2

(* find the same elements after a statement,                               *)
LEMMA AgreeNext ==
  ASSUME JobOK(job), LocalsOK(job.body), NEW x \in Int, InBody(x), NEW s \in DOMAIN job.body,
         NEW st1 \in State, NEW st2 \in State, AgreeAt(x, st1, st2, s - 1)
  PROVE  AgreeAt(x, ExecStatement(job, job.body[s], x, st1), ExecStatement(job, job.body[s], x, st2), s)
<1> DEFINE stmt == job.body[s]
           n1 == ExecStatement(job, stmt, x, st1)
           n2 == ExecStatement(job, stmt, x, st2)
           v1 == Assigned(job, stmt, x, st1)
           v2 == Assigned(job, stmt, x, st2)
<1>1. v1 = v2
  BY AssignedSame
<1>2. /\ st1.value = st2.value
      /\ SameElements(x, st1.mem, st2.mem)
      /\ \A t \in TempNames : DefinedBefore(job.body, (s - 1) + 1, t) => st1.locals[t] = st2.locals[t]
  BY DEF AgreeAt
<1>3. /\ n1.value = st1.value
      /\ \A a \in Addr : (stmt.kind = "store" => a # ElementAddr(job, stmt.target, x)) => n1.mem[a] = st1.mem[a]
      /\ \A t \in TempNames : (stmt.kind = "let" => t # stmt.target) => n1.locals[t] = st1.locals[t]
  <2>1. n1.value = st1.value
    BY KeepsValue
  <2>2. \A a \in Addr : (stmt.kind = "store" => a # ElementAddr(job, stmt.target, x)) => n1.mem[a] = st1.mem[a]
    BY KeepsElements
  <2>3. \A t \in TempNames : (stmt.kind = "let" => t # stmt.target) => n1.locals[t] = st1.locals[t]
    BY KeepsLocals
  <2> QED
    BY <2>1, <2>2, <2>3
<1>4. /\ n2.value = st2.value
      /\ \A a \in Addr : (stmt.kind = "store" => a # ElementAddr(job, stmt.target, x)) => n2.mem[a] = st2.mem[a]
      /\ \A t \in TempNames : (stmt.kind = "let" => t # stmt.target) => n2.locals[t] = st2.locals[t]
  <2>1. n2.value = st2.value
    BY KeepsValue
  <2>2. \A a \in Addr : (stmt.kind = "store" => a # ElementAddr(job, stmt.target, x)) => n2.mem[a] = st2.mem[a]
    BY KeepsElements
  <2>3. \A t \in TempNames : (stmt.kind = "let" => t # stmt.target) => n2.locals[t] = st2.locals[t]
    BY KeepsLocals
  <2> QED
    BY <2>1, <2>2, <2>3
<1>5. /\ stmt.kind = "store" => n1.mem[ElementAddr(job, stmt.target, x)] = v1
      /\ stmt.kind = "let" => n1.locals[stmt.target] = v1
      /\ stmt.kind = "store" => n2.mem[ElementAddr(job, stmt.target, x)] = v2
      /\ stmt.kind = "let" => n2.locals[stmt.target] = v2
  BY ExecAssigns
<1>6. s \in Int /\ (s - 1) + 1 = s /\ s >= 1
  BY BodyLength
<1> HIDE DEF n1, n2, v1, v2
<1>7. SameElements(x, n1.mem, n2.mem)
  <2> SUFFICES ASSUME NEW access \in Checked(job.body)
               PROVE  n1.mem[ElementAddr(job, access[1], x + access[3])] =
                        n2.mem[ElementAddr(job, access[1], x + access[3])]
    BY DEF SameElements
  <2> DEFINE a == ElementAddr(job, access[1], x + access[3])
  <2>1. a \in Addr
    BY CheckedType, AccessType, ElementAddrType DEF InBody
  <2>2. st1.mem[a] = st2.mem[a]
    BY <1>2 DEF SameElements
  <2> HIDE DEF a, stmt
  <2>3. n1.mem[a] = n2.mem[a]
    BY <1>1, <1>3, <1>4, <1>5, <2>1, <2>2
  <2> QED
    BY <2>3 DEF a
<1>8. ASSUME NEW t \in TempNames, DefinedBefore(job.body, s + 1, t)
      PROVE  n1.locals[t] = n2.locals[t]
  <2>1. (stmt.kind = "let" /\ t = stmt.target) \/ DefinedBefore(job.body, s, t)
    BY <1>6, <1>8 DEF DefinedBefore
  <2>2. CASE stmt.kind = "let" /\ t = stmt.target
    BY <1>1, <1>5, <2>2
  <2>3. CASE ~(stmt.kind = "let" /\ t = stmt.target)
    <3>1. st1.locals[t] = st2.locals[t]
      BY <1>2, <1>6, <2>1, <2>3
    <3> HIDE DEF stmt
    <3> QED
      BY <1>3, <1>4, <2>3, <3>1
  <2> QED
    BY <2>2, <2>3
<1> QED
  BY <1>2, <1>3, <1>4, <1>7, <1>8 DEF AgreeAt, n1, n2

(* and yield the same.                                                     *)
LEMMA BodyAgree ==
  ASSUME JobOK(job), LocalsOK(job.body), NEW x, Indexed(x),
         NEW st1 \in State, ~st1.panicked, NEW st2 \in State, ~st2.panicked,
         SameElements(x, st1.mem, st2.mem)
  PROVE  /\ \A q \in 0..Len(job.body) : AgreeAt(x, BodyRun(job, x, st1)[q], BodyRun(job, x, st2)[q], q)
         /\ \A s \in DOMAIN job.body : Yields(x, st1, s) = Yields(x, st2, s)
<1> DEFINE run1 == BodyRun(job, x, st1)
           run2 == BodyRun(job, x, st2)
           G == {q \in 0..Len(job.body) : AgreeAt(x, run1[q], run2[q], q)}
<1>1. /\ Len(job.body) \in Nat /\ DOMAIN job.body = 1..Len(job.body)
      /\ x \in job.start..(job.limit - 1) /\ x \in Int /\ InBody(x)
  BY BodyLength, HeaderType DEF Indexed
<1>2. RangeValue(job, x, st1.mem) = RangeValue(job, x, st2.mem)
  <2>1. CASE HasRangeValue(job)
    <3>1. PICK ld \in AllLoads(job.body) : ld.fromRange
      BY <2>1 DEF HasRangeValue
    <3>2. ld.ref = job.trip /\ ld.kind = "none"
      BY <3>1 DEF JobOK, RangeValueOK
    <3>3. PICK p \in DOMAIN job.body : ld \in LoadsOf(job.body[p])
      BY DEF AllLoads
    <3>4. ld \in Load
      BY <3>3, BodyType, LoadsOfType
    <3>5. ld.off = 0
      BY <3>2, <3>4 DEF Load
    <3>6. Key(ld) \in Checked(job.body) /\ Key(ld)[1] = job.trip /\ x + Key(ld)[3] = x
      BY <1>1, <3>2, <3>5 DEF Checked, Keys, Key
    <3>7. st1.mem[ElementAddr(job, Key(ld)[1], x + Key(ld)[3])] = st2.mem[ElementAddr(job, Key(ld)[1], x + Key(ld)[3])]
      BY <3>6 DEF SameElements
    <3> QED
      BY <3>6, <3>7 DEF RangeValue
  <2>2. CASE ~HasRangeValue(job)
    BY <2>2 DEF RangeValue
  <2> QED
    BY <2>1, <2>2
<1>3. /\ RangeValue(job, x, st1.mem) \in Value
      /\ RangeValue(job, x, st2.mem) \in Value
  BY <1>1, RangeValueIn DEF State
<1>4. \A q \in 0..Len(job.body) : FrameAt(x, st1, q) /\ FrameAt(x, st2, q)
  BY BodyFrame
<1>5. \A q \in 0..Len(job.body) : /\ run1[q] \in State /\ ~run1[q].panicked
                                  /\ run2[q] \in State /\ ~run2[q].panicked
  BY <1>4 DEF FrameAt
<1>6. /\ run1[0] = [st1 EXCEPT !.value = RangeValue(job, x, st1.mem)]
      /\ \A q \in 1..Len(job.body) : run1[q] = IF run1[q - 1].panicked THEN run1[q - 1]
                                               ELSE ExecStatement(job, job.body[q], x, run1[q - 1])
  BY <1>3, BodyRunIs
<1>7. /\ run2[0] = [st2 EXCEPT !.value = RangeValue(job, x, st2.mem)]
      /\ \A q \in 1..Len(job.body) : run2[q] = IF run2[q - 1].panicked THEN run2[q - 1]
                                               ELSE ExecStatement(job, job.body[q], x, run2[q - 1])
  BY <1>3, BodyRunIs
<1>8. 0 \in G
  <2>1. \A t : ~DefinedBefore(job.body, 0 + 1, t)
    BY DEF DefinedBefore
  <2>2. /\ run1[0].value = RangeValue(job, x, st1.mem) /\ run1[0].mem = st1.mem
        /\ run2[0].value = RangeValue(job, x, st2.mem) /\ run2[0].mem = st2.mem
    <3> HIDE DEF run1, run2
    <3> QED
      BY <1>6, <1>7 DEF State
  <2>3. AgreeAt(x, run1[0], run2[0], 0)
    BY <1>2, <2>1, <2>2 DEF AgreeAt
  <2> QED
    BY <1>1, <2>3
<1>9. ASSUME NEW q \in 0..(Len(job.body) - 1), q \in G PROVE q + 1 \in G
  <2>1. q + 1 \in 1..Len(job.body) /\ q + 1 \in DOMAIN job.body /\ (q + 1) - 1 = q /\ q + 1 \in 0..Len(job.body)
        /\ q \in 0..Len(job.body)
    BY <1>1
  <2>2. AgreeAt(x, run1[q], run2[q], (q + 1) - 1)
    BY <1>9, <2>1
  <2> HIDE DEF run1, run2
  <2>3. /\ run1[q + 1] = ExecStatement(job, job.body[q + 1], x, run1[q])
        /\ run2[q + 1] = ExecStatement(job, job.body[q + 1], x, run2[q])
    BY <1>5, <1>6, <1>7, <2>1
  <2>4. AgreeAt(x, run1[q + 1], run2[q + 1], q + 1)
    BY <1>1, <1>5, <2>1, <2>2, <2>3, AgreeNext
  <2> QED
    BY <2>1, <2>4
<1> HIDE DEF G
<1>10. \A q \in 0..Len(job.body) : q \in G
  BY <1>1, <1>8, <1>9, StepByStep
<1>11. \A q \in 0..Len(job.body) : AgreeAt(x, run1[q], run2[q], q)
  BY <1>10 DEF G
<1>12. ASSUME NEW s \in DOMAIN job.body PROVE Yields(x, st1, s) = Yields(x, st2, s)
  <2>1. s - 1 \in 0..Len(job.body)
    BY <1>1
  <2>2. AgreeAt(x, run1[s - 1], run2[s - 1], s - 1)
    BY <1>11, <2>1
  <2> QED
    BY <1>1, <2>2, AssignedSame DEF Yields
<1> QED
  BY <1>11, <1>12

-----------------------------------------------------------------------------
(***************************************************************************)
(* The loop run forward, as long as it does not panic.                     *)
(***************************************************************************)

(* What has panicked stays so, within an iteration                         *)
LEMMA BodyStaysPanicked ==
  ASSUME JobOK(job), NEW x, NEW st \in State, RangeValue(job, x, st.mem) \in Value,
         NEW p \in 0..Len(job.body), BodyRun(job, x, st)[p].panicked
  PROVE  BodyRun(job, x, st)[Len(job.body)].panicked
<1> DEFINE run == BodyRun(job, x, st)
           G == {q \in 0..Len(job.body) : run[q].panicked}
<1>1. Len(job.body) \in Nat /\ Len(job.body) \in Int /\ p \in Int /\ p >= 0 /\ p <= Len(job.body)
  BY BodyLength
<1>2. /\ run \in [0..Len(job.body) -> State]
      /\ run[0] = [st EXCEPT !.value = RangeValue(job, x, st.mem)]
      /\ \A q \in 1..Len(job.body) : run[q] = IF run[q - 1].panicked THEN run[q - 1]
                                              ELSE ExecStatement(job, job.body[q], x, run[q - 1])
  BY BodyRunIs
<1>3. p \in G
  OBVIOUS
<1> HIDE DEF run
<1>4. ASSUME NEW q \in p..(Len(job.body) - 1), q \in G PROVE q + 1 \in G
  <2>1. q + 1 \in 1..Len(job.body) /\ (q + 1) - 1 = q /\ q + 1 \in 0..Len(job.body)
    BY <1>1
  <2> QED
    BY <1>2, <1>4, <2>1
<1> HIDE DEF G
<1>5. \A q \in p..Len(job.body) : q \in G
  BY <1>1, <1>3, <1>4, UpTo
<1> QED
  BY <1>1, <1>5 DEF G, run

(* and from one iteration to the next.                                     *)
LEMMA RunStaysPanicked ==
  ASSUME JobOK(job), NEW step \in {-1, 1}, NEW m \in 0..Iterations(job), Run(job, step)[m].panicked
  PROVE  \A d \in m..Iterations(job) : Run(job, step)[d].panicked
<1> DEFINE run == Run(job, step)
           n0 == Iterations(job)
           G == {d \in 0..n0 : run[d].panicked}
<1>1. /\ n0 \in Nat
      /\ \A d \in 1..n0 : run[d] = IF run[d - 1].panicked THEN run[d - 1]
                                  ELSE ExecIteration(job, IndexAt(job, step, d), run[d - 1])
  BY RunStates
<1>2. m \in G
  OBVIOUS
<1> HIDE DEF run, n0
<1>3. m \in Int /\ m >= 0 /\ m <= n0
  BY <1>1 DEF n0
<1>4. ASSUME NEW d \in m..(n0 - 1), d \in G PROVE d + 1 \in G
  <2>1. d + 1 \in 1..n0 /\ (d + 1) - 1 = d /\ d + 1 \in 0..n0
    BY <1>1, <1>3
  <2> QED
    BY <1>1, <1>4, <2>1
<1> HIDE DEF G
<1>5. \A d \in m..n0 : d \in G
  BY <1>1, <1>2, <1>3, <1>4, UpTo
<1> QED
  BY <1>5 DEF G, run, n0

(* So before an index the loop reaches, every iteration was inside its     *)
(* slices.                                                                 *)
LEMMA ReachedIndexed ==
  ASSUME JobOK(job), Lowers(job), NEW x \in Int, job.start <= x, x <= job.limit \/ x = job.start,
         ~After(job, x).panicked
  PROVE  \A y \in job.start..(x - 1) : Indexed(y) /\ ~After(job, y).panicked
<1> SUFFICES ASSUME NEW y \in job.start..(x - 1) PROVE Indexed(y) /\ ~After(job, y).panicked
  OBVIOUS
<1>1. /\ job.start \in Int /\ job.limit \in Int /\ y \in job.start..(job.limit - 1) /\ y \in Int
      /\ Iterations(job) = job.limit - job.start
  BY HeaderType DEF Iterations
<1>2. /\ y - job.start \in 0..Iterations(job) /\ (y + 1) - job.start \in 0..Iterations(job)
      /\ x - job.start \in (y - job.start)..Iterations(job)
      /\ x - job.start \in ((y + 1) - job.start)..Iterations(job)
  BY <1>1
<1>3. ~After(job, y).panicked
  BY <1>2, RunStaysPanicked DEF After
<1>4. ~After(job, y + 1).panicked
  BY <1>2, RunStaysPanicked DEF After
<1>5. After(job, y + 1) = During(job, y, Len(job.body)) /\ After(job, y) \in State
  BY <1>1, <1>3, RunIs
<1>6. InBody(y)
  <2> SUFFICES ASSUME ~InBody(y) PROVE FALSE
    OBVIOUS
  <2>1. ExecIteration(job, y, After(job, y)).panicked
    BY <1>1, <1>5, IterationPanics
  <2> QED
    BY <1>4, <1>5, <2>1 DEF ExecIteration, During
<1> QED
  BY <1>1, <1>3, <1>6 DEF Indexed

(* A fold of the body.                                                     *)
LEMMA FoldType ==
  ASSUME JobOK(job), NEW s \in Folds(job.body)
  PROVE  /\ s \in DOMAIN job.body /\ s \in Int /\ 1 <= s /\ s <= Len(job.body)
         /\ job.body[s].kind = "reduce" /\ job.body[s].op \in FoldOps /\ job.body[s].target \in AccNames
  BY BodyLength, BodyType DEF Folds, StatementOK, Statement

(* What the iteration at x assigns with statement s, and the accumulators  *)
(* nothing is folded into.                                                 *)
Turn(x, s) == Assigned(job, job.body[s], x, During(job, x, s - 1))
Untargeted(t) == \A s \in Folds(job.body) : job.body[s].target # t

(* One more iteration folds one more value.                                *)
LEMMA AfterNext ==
  ASSUME JobOK(job), LocalsOK(job.body), NEW x, Indexed(x), ~After(job, x).panicked
  PROVE  /\ x \in Int /\ After(job, x) \in State /\ After(job, x + 1) \in State
         /\ After(job, x + 1) = During(job, x, Len(job.body)) /\ ~After(job, x + 1).panicked
         /\ \A s \in Folds(job.body) :
              /\ Turn(x, s) \in Value
              /\ After(job, x + 1).acc[job.body[s].target] =
                   Fold(job.body[s].op, After(job, x).acc[job.body[s].target], Turn(x, s))
         /\ \A t \in AccNames : Untargeted(t) => After(job, x + 1).acc[t] = After(job, x).acc[t]
<1> DEFINE st == After(job, x)
<1>1. /\ x \in job.start..(job.limit - 1) /\ x \in Int /\ Len(job.body) \in Nat /\ InBody(x)
      /\ DOMAIN job.body = 1..Len(job.body)
  BY HeaderType, BodyLength DEF Indexed
<1>2. st \in State /\ st.panicked = FALSE
  BY <1>1, DuringIs DEF State
<1>3. After(job, x + 1) = During(job, x, Len(job.body))
  BY <1>1, RunIs
<1>4. \A q \in 0..Len(job.body) : FrameAt(x, st, q)
  BY <1>2, BodyFrame
<1>5. Len(job.body) \in 0..Len(job.body) /\ FrameAt(x, st, Len(job.body))
  BY <1>1, <1>4
<1>6. \A q : During(job, x, q) = BodyRun(job, x, st)[q]
  BY DEF During
<1>7. After(job, x + 1) \in State /\ ~After(job, x + 1).panicked
  BY <1>3, <1>5, <1>6 DEF FrameAt
<1>8. ASSUME NEW s \in Folds(job.body)
      PROVE  /\ Turn(x, s) \in Value
             /\ After(job, x + 1).acc[job.body[s].target] =
                  Fold(job.body[s].op, st.acc[job.body[s].target], Turn(x, s))
  <2>1. s \in DOMAIN job.body /\ s <= Len(job.body) /\ s - 1 \in 0..Len(job.body)
    BY <1>1, FoldType
  <2>2. Turn(x, s) = Yields(x, st, s)
    BY <1>6 DEF Turn, Yields
  <2>3. During(job, x, s - 1) \in State
    BY <1>1, <2>1, DuringIs
  <2>4. Turn(x, s) \in Value
    BY <1>1, <2>1, <2>3, BodyType, AssignedType DEF Turn
  <2>5. After(job, x + 1).acc[job.body[s].target] =
          Fold(job.body[s].op, st.acc[job.body[s].target], Yields(x, st, s))
    BY <1>3, <1>5, <1>6, <2>1 DEF FrameAt
  <2> QED
    BY <2>2, <2>4, <2>5
<1>9. ASSUME NEW t \in AccNames, Untargeted(t) PROVE After(job, x + 1).acc[t] = st.acc[t]
  BY <1>3, <1>5, <1>6, <1>9 DEF FrameAt, Untargeted
<1> QED
  BY <1>1, <1>2, <1>3, <1>7, <1>8, <1>9

(* The iterations from low on fold what each of them yields, one after the *)
(* other.                                                                  *)
LEMMA AfterFolds ==
  ASSUME JobOK(job), LocalsOK(job.body), NEW low \in Int, low >= job.start, NEW high \in Int, low <= high,
         \A x \in low..(high - 1) : Indexed(x) /\ ~After(job, x).panicked,
         After(job, low) \in State
  PROVE  /\ \A s \in Folds(job.body) : \A vals :
              (\A l \in 0..(high - low - 1) : vals[l] = Turn(low + l, s)) =>
                /\ Values(vals, 0, high - low)
                /\ After(job, high).acc[job.body[s].target] =
                     FoldOver(job.body[s].op, After(job, low).acc[job.body[s].target], vals, 0, high - low)
         /\ \A t \in AccNames : Untargeted(t) => After(job, high).acc[t] = After(job, low).acc[t]
<1>1. ASSUME NEW s \in Folds(job.body), NEW vals, \A l \in 0..(high - low - 1) : vals[l] = Turn(low + l, s)
      PROVE  /\ Values(vals, 0, high - low)
             /\ After(job, high).acc[job.body[s].target] =
                  FoldOver(job.body[s].op, After(job, low).acc[job.body[s].target], vals, 0, high - low)
  <2> DEFINE op == job.body[s].op
             t == job.body[s].target
             x0 == After(job, low).acc[t]
             G == {m \in 0..(high - low) : After(job, low + m).acc[t] = FoldOver(op, x0, vals, 0, m)}
  <2>1. op \in FoldOps /\ t \in AccNames /\ x0 \in Value /\ high - low \in Nat
    BY FoldType DEF State
  <2>2. Values(vals, 0, high - low)
    <3> SUFFICES ASSUME NEW l \in 0..(high - low - 1) PROVE vals[l] \in Value
      BY DEF Values
    <3>1. low + l \in low..(high - 1)
      OBVIOUS
    <3>2. Turn(low + l, s) \in Value
      BY <3>1, AfterNext
    <3> QED
      BY <1>1, <3>2
  <2>3. 0 \in G
    <3>1. Values(vals, 0, 0)
      BY DEF Values
    <3>2. FoldOver(op, x0, vals, 0, 0) = x0 /\ low + 0 = low
      BY <2>1, <3>1, FoldOverIs
    <3> QED
      BY <2>1, <3>2
  <2>4. ASSUME NEW m \in 0..(high - low - 1), m \in G PROVE m + 1 \in G
    <3>1. /\ low + m \in low..(high - 1) /\ m + 1 \in Int /\ 0 < m + 1 /\ (m + 1) - 1 = m
          /\ m + 1 \in 0..(high - low) /\ (low + m) + 1 = low + (m + 1) /\ Values(vals, 0, m + 1)
      BY <2>2 DEF Values
    <3>2. After(job, (low + m) + 1).acc[t] = Fold(op, After(job, low + m).acc[t], Turn(low + m, s))
      BY <3>1, AfterNext
    <3>3. FoldOver(op, x0, vals, 0, m + 1) = Fold(op, FoldOver(op, x0, vals, 0, m), vals[m])
      <4> HIDE DEF op, x0, G
      <4> QED
        BY <2>1, <3>1, FoldOverIs
    <3>4. vals[m] = Turn(low + m, s)
      BY <1>1
    <3> QED
      BY <2>4, <3>1, <3>2, <3>3, <3>4
  <2> HIDE DEF G
  <2>5. \A m \in 0..(high - low) : m \in G
    BY <2>1, <2>3, <2>4, StepByStep
  <2>6. high - low \in 0..(high - low) /\ low + (high - low) = high
    OBVIOUS
  <2> QED
    BY <2>2, <2>5, <2>6 DEF G
<1>2. ASSUME NEW t \in AccNames, Untargeted(t) PROVE After(job, high).acc[t] = After(job, low).acc[t]
  <2> DEFINE G == {x \in low..high : After(job, x).acc[t] = After(job, low).acc[t]}
  <2>1. low \in G
    OBVIOUS
  <2>2. ASSUME NEW x \in low..(high - 1), x \in G PROVE x + 1 \in G
    <3>1. x + 1 \in low..high
      OBVIOUS
    <3>2. After(job, x + 1).acc[t] = After(job, x).acc[t]
      BY <1>2, AfterNext
    <3> QED
      BY <2>2, <3>1, <3>2
  <2> HIDE DEF G
  <2>3. \A x \in low..high : x \in G
    BY <2>1, <2>2, UpTo
  <2> QED
    BY <2>3 DEF G
<1> QED
  BY <1>1, <1>2

-----------------------------------------------------------------------------
(***************************************************************************)
(* A loop that counts down and is vectorized does what it would do         *)
(* counting up.                                                            *)
(***************************************************************************)

(* A loop that runs and names no element outside its slices.               *)
LoopIn == job.start < job.limit /\ \A x \in job.start..(job.limit - 1) : InBody(x)

(* What the iteration at x writes and folds when it finds memory as it was *)
(* before the loop.                                                        *)
Alone(x) == BodyRun(job, x, InitialState)[Len(job.body)]
Own(x, s) == Yields(x, InitialState, s)
Written(x) == {ElementAddr(job, ref, x) : ref \in Stored(job.body)}

(* Where every iteration is inside the slices, so is the loop as a whole.  *)
LEMMA LoopInInside == ASSUME JobOK(job), LoopIn PROVE Inside(job.start)
<1>1. job.start \in Int /\ job.limit \in Int /\ job.start < job.limit
  BY HeaderType DEF LoopIn
<1>2. InBody(job.limit - 1) /\ InBody(job.start)
  BY <1>1 DEF LoopIn
<1>3. InTrip
  BY <1>2 DEF InTrip, InBody
<1>4. ASSUME NEW access \in Checked(job.body) PROVE job.start + access[3] >= 0
  <2>1. access[3] \in Int /\ job.slices[access[1]].len \in Nat
    BY CheckedType, AccessType, SliceType
  <2>2. InRange(job, access[1], job.start + access[3])
    BY <1>2 DEF InBody
  <2> QED
    BY <1>1, <2>1, <2>2 DEF InRange
<1> QED
  BY <1>3, <1>4 DEF Inside

(* Counting down no slice is both stored and read at an offset, so what an *)
(* iteration reads or writes no other one writes.                          *)
LEMMA OnlyOwn ==
  ASSUME JobOK(job), Lowers(job), ~SomeOverlap, LoopIn, job.step = -1,
         NEW x \in job.start..(job.limit - 1), NEW y \in job.start..(job.limit - 1), x # y,
         NEW access \in Checked(job.body)
  PROVE  ElementAddr(job, access[1], x + access[3]) \notin Written(y)
<1> SUFFICES ASSUME NEW ref \in Stored(job.body),
                    ElementAddr(job, ref, y) = ElementAddr(job, access[1], x + access[3])
             PROVE  FALSE
  BY DEF Written
<1>1. job.start \in Int /\ job.limit \in Int /\ Inside(job.start) /\ job.start >= job.start
  BY HeaderType, LoopInInside
<1>2. ref = access[1] /\ y = x + access[3]
  BY <1>1, SameElement
<1>3. access[3] = 0
  <2>1. CASE access \in Keys(AllLoads(job.body))
    <3>1. PICK ld \in AllLoads(job.body) : access = Key(ld)
      BY <2>1 DEF Keys
    <3>2. ld.ref = ref /\ ld.off = access[3]
      BY <1>2, <3>1 DEF Key
    <3>3. ld.kind = "none"
      BY <3>2 DEF Lowers, DependencesForward
    <3>4. ld \in Load
      BY BodyType, LoadsOfType DEF AllLoads
    <3> QED
      BY <3>2, <3>3, <3>4 DEF Load
  <2>2. CASE access \in {AtIndex(r) : r \in Stored(job.body)}
    BY <2>2 DEF AtIndex
  <2> QED
    BY <2>1, <2>2 DEF Checked
<1> QED
  BY <1>1, <1>2, <1>3

(* The iterations at the indexes of set are done: what they write is what  *)
(* each of them writes alone.                                              *)
DoneAt(st, set) ==
  /\ st \in State /\ ~st.panicked
  /\ \A a \in Addr : /\ \A y \in set : a \in Written(y) => st.mem[a] = Alone(y).mem[a]
                     /\ (\A y \in set : a \notin Written(y)) => st.mem[a] = Mem0[a]
  /\ \A t \in AccNames : Untargeted(t) => st.acc[t] = Acc0[t]

(* Then one more may be done.                                              *)
LEMMA OneMore ==
  ASSUME JobOK(job), Lowers(job), ~SomeOverlap, LoopIn, job.step = -1,
         NEW set \in SUBSET (job.start..(job.limit - 1)), NEW st, DoneAt(st, set),
         NEW x \in job.start..(job.limit - 1), x \notin set
  PROVE  /\ DoneAt(ExecIteration(job, x, st), set \cup {x})
         /\ \A s \in Folds(job.body) :
              /\ Own(x, s) \in Value
              /\ ExecIteration(job, x, st).acc[job.body[s].target] =
                   Fold(job.body[s].op, st.acc[job.body[s].target], Own(x, s))
<1> DEFINE next == ExecIteration(job, x, st)
           len == Len(job.body)
<1>1. /\ LocalsOK(job.body) /\ Indexed(x) /\ InBody(x) /\ x \in Int /\ len \in Nat /\ len \in 0..len
      /\ DOMAIN job.body = 1..len
  BY HeaderType, BodyLength DEF Lowers, LoopIn, Indexed
<1>2. st \in State /\ ~st.panicked /\ InitialState \in State /\ ~InitialState.panicked
      /\ InitialState.mem = Mem0 /\ InitialState.acc = Acc0
  BY ValueAssumption DEF DoneAt, InitialState, State
<1>3. SameElements(x, st.mem, InitialState.mem)
  <2> SUFFICES ASSUME NEW access \in Checked(job.body)
               PROVE  st.mem[ElementAddr(job, access[1], x + access[3])] =
                        Mem0[ElementAddr(job, access[1], x + access[3])]
    BY <1>2 DEF SameElements
  <2> DEFINE a == ElementAddr(job, access[1], x + access[3])
  <2>1. a \in Addr
    BY <1>1, CheckedType, AccessType, ElementAddrType DEF InBody
  <2>2. \A y \in set : a \notin Written(y)
    <3> TAKE y \in set
    <3>1. y \in job.start..(job.limit - 1) /\ x # y
      OBVIOUS
    <3> QED
      BY <3>1, OnlyOwn
  <2> HIDE DEF a
  <2> QED
    BY <2>1, <2>2 DEF DoneAt, a
<1>4. /\ FrameAt(x, st, len) /\ FrameAt(x, InitialState, len)
      /\ AgreeAt(x, BodyRun(job, x, st)[len], BodyRun(job, x, InitialState)[len], len)
      /\ \A s \in DOMAIN job.body : Yields(x, st, s) = Own(x, s)
  BY <1>1, <1>2, <1>3, BodyFrame, BodyAgree DEF Own
<1>5. next = BodyRun(job, x, st)[len] /\ Alone(x) = BodyRun(job, x, InitialState)[len]
  BY DEF ExecIteration, Alone
<1> HIDE DEF next, len
<1>6. next \in State /\ ~next.panicked
  BY <1>4, <1>5 DEF FrameAt
<1>7. ASSUME NEW a \in Addr, a \in Written(x) PROVE next.mem[a] = Alone(x).mem[a]
  <2>1. PICK ref \in Stored(job.body) : a = ElementAddr(job, ref, x)
    BY <1>7 DEF Written
  <2>2. AtIndex(ref) \in Checked(job.body) /\ AtIndex(ref)[1] = ref /\ x + AtIndex(ref)[3] = x
    BY <1>1 DEF Checked, AtIndex
  <2>3. SameElements(x, next.mem, Alone(x).mem)
    BY <1>4, <1>5 DEF AgreeAt
  <2>4. next.mem[ElementAddr(job, AtIndex(ref)[1], x + AtIndex(ref)[3])] =
          Alone(x).mem[ElementAddr(job, AtIndex(ref)[1], x + AtIndex(ref)[3])]
    BY <2>2, <2>3 DEF SameElements
  <2> QED
    BY <2>1, <2>2, <2>4
<1>8. ASSUME NEW a \in Addr, a \notin Written(x) PROVE next.mem[a] = st.mem[a]
  <2>1. \A p \in Stores(job.body) : a # ElementAddr(job, job.body[p].target, x)
    BY <1>8 DEF Written, Stored
  <2> QED
    BY <1>4, <1>5, <2>1 DEF FrameAt
<1>9. ASSUME NEW a \in Addr, a \in Written(x), NEW y \in set PROVE a \notin Written(y)
  <2>1. PICK ref \in Stored(job.body) : a = ElementAddr(job, ref, x)
    BY <1>9 DEF Written
  <2>2. AtIndex(ref) \in Checked(job.body) /\ AtIndex(ref)[1] = ref /\ x + AtIndex(ref)[3] = x
    BY <1>1 DEF Checked, AtIndex
  <2>3. y \in job.start..(job.limit - 1) /\ x # y
    OBVIOUS
  <2>4. ElementAddr(job, AtIndex(ref)[1], x + AtIndex(ref)[3]) \notin Written(y)
    BY <2>2, <2>3, OnlyOwn
  <2> QED
    BY <2>1, <2>2, <2>4
<1>10. ASSUME NEW a \in Addr, NEW y \in set \cup {x}, a \in Written(y) PROVE next.mem[a] = Alone(y).mem[a]
  BY <1>7, <1>8, <1>9, <1>10 DEF DoneAt
<1>11. ASSUME NEW a \in Addr, \A y \in set \cup {x} : a \notin Written(y) PROVE next.mem[a] = Mem0[a]
  BY <1>8, <1>11 DEF DoneAt
<1>12. ASSUME NEW t \in AccNames, Untargeted(t) PROVE next.acc[t] = Acc0[t]
  <2>1. \A s \in Folds(job.body) : s <= len => t # job.body[s].target
    BY <1>12 DEF Untargeted
  <2>2. next.acc[t] = st.acc[t]
    BY <1>4, <1>5, <2>1 DEF FrameAt
  <2> QED
    BY <1>12, <2>2 DEF DoneAt
<1>13. ASSUME NEW s \in Folds(job.body)
       PROVE  /\ Own(x, s) \in Value
              /\ next.acc[job.body[s].target] = Fold(job.body[s].op, st.acc[job.body[s].target], Own(x, s))
  <2>1. s \in DOMAIN job.body /\ s <= len /\ s - 1 \in 0..len
    BY <1>1, FoldType DEF len
  <2>2. FrameAt(x, InitialState, s - 1)
    BY <1>1, <1>2, <2>1, BodyFrame DEF len
  <2>3. BodyRun(job, x, InitialState)[s - 1] \in State
    BY <2>2 DEF FrameAt
  <2>4. Own(x, s) \in Value
    BY <1>1, <2>1, <2>3, BodyType, AssignedType DEF Own, Yields
  <2>5. next.acc[job.body[s].target] = Fold(job.body[s].op, st.acc[job.body[s].target], Yields(x, st, s))
    BY <1>4, <1>5, <2>1 DEF FrameAt
  <2> QED
    BY <1>4, <2>1, <2>4, <2>5
<1> QED
  BY <1>6, <1>10, <1>11, <1>12, <1>13 DEF DoneAt, next

(* The iterations done after m of them, and what was folded by then.       *)
FirstDone(step, m) == IF step = 1 THEN job.start ELSE job.limit - m
OwnValues(s) == [y \in job.start..(job.limit - 1) |-> Own(y, s)]
DoneBy(step, m) ==
  LET st == Run(job, step)[m]
      low == FirstDone(step, m)
  IN  /\ DoneAt(st, low..(low + m - 1))
      /\ \A s \in Folds(job.body) :
           st.acc[job.body[s].target] =
             FoldOver(job.body[s].op, Acc0[job.body[s].target], OwnValues(s), low, low + m)

(* Either way the loop counts, it does one more at a time.                 *)
LEMMA DoneRun ==
  ASSUME JobOK(job), Lowers(job), ~SomeOverlap, LoopIn, job.step = -1, NEW step \in {-1, 1}
  PROVE  \A m \in 0..Iterations(job) : DoneBy(step, m)
<1> DEFINE n0 == Iterations(job)
           run == Run(job, step)
           G == {m \in 0..n0 : DoneBy(step, m)}
<1>1. /\ n0 \in Nat /\ run[0] = InitialState
      /\ \A m \in 1..n0 : run[m] = IF run[m - 1].panicked THEN run[m - 1]
                                   ELSE ExecIteration(job, IndexAt(job, step, m), run[m - 1])
  BY RunStates
<1>2. job.start \in Int /\ job.limit \in Int /\ job.start < job.limit /\ n0 = job.limit - job.start
  BY HeaderType DEF LoopIn, Iterations
<1>3. InitialState \in State /\ ~InitialState.panicked /\ InitialState.mem = Mem0 /\ InitialState.acc = Acc0
  BY ValueAssumption DEF InitialState, State
<1>4. ASSUME NEW s \in Folds(job.body)
      PROVE  /\ job.body[s].op \in FoldOps /\ Acc0[job.body[s].target] \in Value
             /\ \A y \in job.start..(job.limit - 1) : OwnValues(s)[y] \in Value
  <2>1. job.body[s].op \in FoldOps /\ Acc0[job.body[s].target] \in Value
    BY FoldType, ValueAssumption
  <2>2. DoneAt(InitialState, {})
    BY <1>3 DEF DoneAt
  <2>3. ASSUME NEW y \in job.start..(job.limit - 1) PROVE Own(y, s) \in Value
    <3>1. {} \in SUBSET (job.start..(job.limit - 1)) /\ y \notin {}
      OBVIOUS
    <3>2. \A f \in Folds(job.body) : Own(y, f) \in Value
      BY <2>2, <3>1, OneMore
    <3> QED
      BY <3>2
  <2> QED
    BY <2>1, <2>3 DEF OwnValues
<1>5. 0 \in G
  <2> DEFINE low == FirstDone(step, 0)
  <2>1. low \in Int /\ low + 0 = low /\ low..(low + 0 - 1) = {}
    BY <1>2 DEF FirstDone
  <2>2. DoneAt(run[0], low..(low + 0 - 1))
    BY <1>1, <1>3, <2>1 DEF DoneAt
  <2>3. ASSUME NEW s \in Folds(job.body)
        PROVE  run[0].acc[job.body[s].target] =
                 FoldOver(job.body[s].op, Acc0[job.body[s].target], OwnValues(s), low, low + 0)
    <3>1. Values(OwnValues(s), low, low + 0)
      BY <2>1 DEF Values
    <3> HIDE DEF low
    <3>2. FoldOver(job.body[s].op, Acc0[job.body[s].target], OwnValues(s), low, low) = Acc0[job.body[s].target]
      BY <1>4, <2>1, <3>1, FoldOverIs
    <3> QED
      BY <1>1, <1>3, <2>1, <3>2
  <2> QED
    BY <1>1, <2>2, <2>3 DEF DoneBy
<1>6. ASSUME NEW m \in 0..(n0 - 1), m \in G PROVE m + 1 \in G
  <2> DEFINE low == FirstDone(step, m)
             next == FirstDone(step, m + 1)
             x == IndexAt(job, step, m + 1)
             set == low..(low + m - 1)
  <2>1. /\ m + 1 \in 1..n0 /\ m \in Nat /\ (m + 1) - 1 = m /\ low \in Int /\ next \in Int /\ x \in Int
        /\ x \in job.start..(job.limit - 1) /\ x \notin set /\ set \subseteq job.start..(job.limit - 1)
        /\ set \cup {x} = next..(next + (m + 1) - 1)
    BY <1>1, <1>2 DEF FirstDone, IndexAt
  <2>2. DoneAt(run[m], set) /\ ~run[m].panicked
    BY <1>6 DEF DoneBy, DoneAt
  <2>3. run[m + 1] = ExecIteration(job, x, run[m])
    BY <1>1, <2>1, <2>2
  <2> HIDE DEF run
  <2>4. /\ DoneAt(run[m + 1], set \cup {x})
        /\ \A s \in Folds(job.body) :
             /\ Own(x, s) \in Value
             /\ run[m + 1].acc[job.body[s].target] =
                  Fold(job.body[s].op, run[m].acc[job.body[s].target], Own(x, s))
    <3> DEFINE st == run[m]
    <3>1. set \in SUBSET (job.start..(job.limit - 1)) /\ x \in job.start..(job.limit - 1) /\ x \notin set
      BY <2>1
    <3>2. DoneAt(st, set)
      BY <2>2
    <3> HIDE DEF x, set, low, next, G, n0, st
    <3>3. /\ DoneAt(ExecIteration(job, x, st), set \cup {x})
          /\ \A s \in Folds(job.body) :
               /\ Own(x, s) \in Value
               /\ ExecIteration(job, x, st).acc[job.body[s].target] =
                    Fold(job.body[s].op, st.acc[job.body[s].target], Own(x, s))
      BY <3>1, <3>2, OneMore
    <3> QED
      BY <2>3, <3>3 DEF st
  <2>5. ASSUME NEW s \in Folds(job.body)
        PROVE  run[m + 1].acc[job.body[s].target] =
                 FoldOver(job.body[s].op, Acc0[job.body[s].target], OwnValues(s), next, next + (m + 1))
    <3> DEFINE op == job.body[s].op
               x0 == Acc0[job.body[s].target]
               own == OwnValues(s)
    <3>1. op \in FoldOps /\ x0 \in Value /\ \A y \in job.start..(job.limit - 1) : own[y] \in Value
      BY <1>4
    <3>2. run[m].acc[job.body[s].target] = FoldOver(op, x0, own, low, low + m)
      BY <1>6 DEF DoneBy, run
    <3>3. run[m + 1].acc[job.body[s].target] = Fold(op, FoldOver(op, x0, own, low, low + m), own[x])
      <4> HIDE DEF x, set, next, low
      <4>1. run[m + 1].acc[job.body[s].target] = Fold(op, run[m].acc[job.body[s].target], Own(x, s))
        BY <2>4
      <4>2. own[x] = Own(x, s)
        BY <2>1 DEF OwnValues
      <4> QED
        BY <3>2, <4>1, <4>2
    <3>4. FoldOver(op, x0, own, next, next + (m + 1)) = Fold(op, FoldOver(op, x0, own, low, low + m), own[x])
      <4>1. CASE step = 1
        <5>1. next = job.start /\ low = job.start /\ x = job.start + m
          BY <1>2, <2>1, <4>1 DEF FirstDone, IndexAt
        <5>2. /\ job.start + (m + 1) \in Int /\ job.start < job.start + (m + 1)
              /\ (job.start + (m + 1)) - 1 = job.start + m
              /\ job.start..((job.start + (m + 1)) - 1) \subseteq job.start..(job.limit - 1)
          BY <1>2, <2>1
        <5>3. Values(own, job.start, job.start + (m + 1))
          BY <3>1, <5>2 DEF Values
        <5> HIDE DEF op, x0, own
        <5>4. FoldOver(op, x0, own, job.start, job.start + (m + 1)) =
                Fold(op, FoldOver(op, x0, own, job.start, (job.start + (m + 1)) - 1),
                         own[(job.start + (m + 1)) - 1])
          BY <1>2, <3>1, <5>2, <5>3, FoldOverIs
        <5> QED
          BY <5>1, <5>2, <5>4
      <4>2. CASE step = -1
        <5>1. /\ next = x /\ low = x + 1 /\ x < job.limit /\ low + m = job.limit /\ next + (m + 1) = job.limit
              /\ x \in Int /\ x + 1 <= job.limit
          BY <1>2, <2>1, <4>2 DEF FirstDone, IndexAt
        <5>2. Values(own, x, job.limit)
          BY <1>2, <2>1, <3>1, <5>1 DEF Values
        <5> HIDE DEF op, x0, own, x, next, low
        <5>3. /\ own[x] \in Value /\ Values(own, x + 1, job.limit)
              /\ FoldOver(op, x0, own, x, job.limit) = FoldOver(op, Fold(op, x0, own[x]), own, x + 1, job.limit)
          BY <1>2, <3>1, <5>1, <5>2, FoldOverFront
        <5>4. x + 1 \in Int
          BY <5>1
        <5>5. FoldOver(op, Fold(op, x0, own[x]), own, x + 1, job.limit) =
                Fold(op, FoldOver(op, x0, own, x + 1, job.limit), own[x])
          BY <1>2, <3>1, <5>1, <5>3, <5>4, FoldOverPull
        <5> QED
          BY <5>1, <5>3, <5>5
      <4> QED
        BY <4>1, <4>2
    <3> QED
      BY <3>3, <3>4
  <2>6. DoneBy(step, m + 1)
    BY <2>1, <2>4, <2>5 DEF DoneBy, run
  <2> QED
    BY <2>1, <2>6
<1> HIDE DEF G
<1>7. \A m \in 0..n0 : m \in G
  BY <1>1, <1>5, <1>6, StepByStep
<1> QED
  BY <1>7 DEF G

(* So if it does not panic counting up, it does not as the source counts,  *)
(* and leaves the same.                                                    *)
LEMMA EitherWay ==
  ASSUME JobOK(job), Lowers(job), ~SomeOverlap, ~Run(job, 1)[Iterations(job)].panicked
  PROVE  /\ ~ScalarResult(job).panicked
         /\ ScalarResult(job).mem = Run(job, 1)[Iterations(job)].mem
         /\ ScalarResult(job).acc = Run(job, 1)[Iterations(job)].acc
<1> DEFINE n0 == Iterations(job)
<1>1. job.step \in {-1, 1} /\ job.start \in Int /\ job.limit \in Int
  BY DEF JobOK, HeaderOK
<1>2. n0 \in Nat /\ Run(job, 1)[0] = InitialState /\ Run(job, -1)[0] = InitialState
  BY RunStates
<1>3. CASE job.step = 1
  BY <1>3 DEF ScalarResult
<1>4. CASE job.step = -1 /\ n0 = 0
  BY <1>2, <1>4 DEF ScalarResult
<1>5. CASE job.step = -1 /\ n0 # 0
  <2> DEFINE up == Run(job, 1)[n0]
             down == Run(job, -1)[n0]
  <2>1. job.start < job.limit /\ n0 = job.limit - job.start
    BY <1>1, <1>5 DEF Iterations
  <2>2. LoopIn
    BY <2>1, RunPanics DEF LoopIn
  <2>3. n0 \in 0..n0 /\ FirstDone(1, n0) = job.start /\ FirstDone(-1, n0) = job.start
    BY <1>1, <1>2, <2>1 DEF FirstDone
  <2>4. DoneBy(1, n0) /\ DoneBy(-1, n0)
    BY <1>5, <2>2, <2>3, DoneRun
  <2> DEFINE set == job.start..(job.start + n0 - 1)
  <2>5. DoneAt(up, set) /\ DoneAt(down, set)
    BY <2>3, <2>4 DEF DoneBy
  <2>6. \A s \in Folds(job.body) : up.acc[job.body[s].target] = down.acc[job.body[s].target]
    BY <2>3, <2>4 DEF DoneBy
  <2> HIDE DEF up, down, set
  <2>7. up \in State /\ down \in State /\ ~down.panicked
    BY <2>5 DEF DoneAt
  <2>8. ASSUME NEW a \in Addr PROVE up.mem[a] = down.mem[a]
    BY <2>5 DEF DoneAt
  <2>9. ASSUME NEW t \in AccNames PROVE up.acc[t] = down.acc[t]
    <3>1. CASE Untargeted(t)
      BY <2>5, <3>1 DEF DoneAt
    <3>2. CASE ~Untargeted(t)
      BY <2>6, <3>2 DEF Untargeted
    <3> QED
      BY <3>1, <3>2
  <2>10. up.mem \in [Addr -> Value] /\ down.mem \in [Addr -> Value]
         /\ up.acc \in [AccNames -> Value] /\ down.acc \in [AccNames -> Value]
    BY <2>7 DEF State
  <2>11. up.mem = down.mem
    BY <2>8, <2>10
  <2>12. up.acc = down.acc
    BY <2>9, <2>10
  <2>13. ScalarResult(job) = down
    BY <1>5 DEF ScalarResult, down
  <2> QED
    BY <2>7, <2>11, <2>12, <2>13 DEF up
<1> QED
  BY <1>1, <1>3, <1>4, <1>5

-----------------------------------------------------------------------------
(***************************************************************************)
(* Between the checks and the end: what the scalar state is while the      *)
(* vector code runs, what has been folded, and where the scalar loops are. *)
(***************************************************************************)

(* The vector code leaves the scalar state alone until it combines the     *)
(* lanes, and then folds only into the accumulators that have lanes.       *)
Kept(m) == \A t \in AccNames : Untargeted(t) => m[t] = Acc0[t]
FreshInv ==
  mode = "vector" =>
    /\ locals = [t \in TempNames |-> Zero] /\ value = Zero
    /\ pc \notin {"combine", "done", "panic"} => acc = Acc0 /\ lane = 0
    /\ pc = "combine" => Kept(acc)
    /\ pc \in {"hoist", "overlap", "check", "copy"} => copy = 0
    /\ pc = "copy" /\ LengthChecks # {} => Runs

(* FoldedOnce between the statements of a chunk: the folds done count up   *)
(* to its end, the others up to its start.                                 *)
FoldInv ==
  /\ pc \in {"main", "combine"} =>
       /\ i \in job.start..job.limit
       /\ \A s \in Folds(job.body) : Folded(s) = After(job, i).acc[job.body[s].target]
  /\ pc = "combine" => ~After(job, i).panicked /\ mem = After(job, i).mem /\ copy >= 1
  /\ pc \in {"load", "statement"} /\ Inside(Pos) =>
       \A s \in Folds(job.body) :
         Folded(s) = After(job, IF s < k THEN Pos + Lanes ELSE Pos).acc[job.body[s].target]

(* The remainder goes on where the vector loop stopped, except that it     *)
(* does not know the temporaries of the iterations before.  In an          *)
(* iteration that is not inside every slice, which ends in a panic, the    *)
(* statements done so far were inside theirs.                              *)
RestInv ==
  mode = "rest" =>
    /\ Planned(job) /\ ~SomeOverlap
    /\ pc \in {"begin", "scalar"} => i >= job.start /\ (i <= job.limit \/ i = job.start)
    /\ pc = "begin" => LET st == After(job, i) IN ~st.panicked /\ mem = st.mem /\ acc = st.acc
    /\ pc = "scalar" =>
         LET st == During(job, i, k - 1)
         IN  /\ i < job.limit /\ ~After(job, i).panicked
             /\ InBody(i) =>
                  /\ ~st.panicked /\ mem = st.mem /\ acc = st.acc /\ value = st.value
                  /\ \A t \in TempNames : DefinedBefore(job.body, k, t) => locals[t] = st.locals[t]
             /\ ~InBody(i) => \A p \in 1..(k - 1) : StatementIn(p, i)

(* The original loop is where the source loop is.                          *)
Done == IF job.step = 1 THEN i - job.start ELSE job.limit - 1 - i
OriginalInv ==
  mode = "original" =>
    /\ pc \in {"begin", "scalar"} => Done \in 0..Iterations(job)
    /\ pc = "begin" => Run(job, job.step)[Done] = Now
    /\ pc = "scalar" =>
         /\ Done < Iterations(job) /\ ~Run(job, job.step)[Done].panicked
         /\ BodyRun(job, i, Run(job, job.step)[Done])[k - 1] = Now

(* The code ends as the source loop does.                                  *)
EndInv ==
  /\ pc = "done" => /\ ~ScalarResult(job).panicked
                    /\ mem = ScalarResult(job).mem /\ acc = ScalarResult(job).acc
  /\ pc = "panic" => ScalarResult(job).panicked

(* Every step keeps FreshInv.                                              *)
LEMMA FreshStep == ASSUME Inv, FreshInv, [Next]_vars PROVE FreshInv'
<1> SUFFICES ASSUME mode' = "vector" PROVE FreshInv'
  BY DEF FreshInv
<1>1. job' = job
  BY JobKept
<1>2. JobOK(job) /\ LengthChecks' = LengthChecks /\ Runs' = Runs /\ TypeOK
  BY <1>1 DEF Inv, LengthChecks, Runs, Capped
<1>3. CASE UNCHANGED vars
  <2>1. /\ mode' = mode /\ pc' = pc /\ locals' = locals /\ value' = value /\ acc' = acc /\ lane' = lane
        /\ copy' = copy
    BY <1>3 DEF vars
  <2>2. Kept(acc)' <=> Kept(acc)
    BY <1>1, <2>1 DEF Kept, Untargeted
  <2>3. mode = "vector"
    BY <2>1
  <2>4. /\ locals = [t \in TempNames |-> Zero] /\ value = Zero
        /\ pc \notin {"combine", "done", "panic"} => acc = Acc0 /\ lane = 0
        /\ pc = "combine" => Kept(acc)
        /\ pc \in {"hoist", "overlap", "check", "copy"} => copy = 0
        /\ pc = "copy" /\ LengthChecks # {} => Runs
    BY <2>3 DEF FreshInv
  <2>5. /\ locals' = [t \in TempNames |-> Zero] /\ value' = Zero
        /\ pc' \notin {"combine", "done", "panic"} => acc' = Acc0 /\ lane' = 0
        /\ pc' = "combine" => Kept(acc)'
        /\ pc' \in {"hoist", "overlap", "check", "copy"} => copy' = 0
    BY <2>1, <2>2, <2>4
  <2>6. pc' = "copy" /\ LengthChecks' # {} => Runs'
    BY <1>2, <2>1, <2>4
  <2> QED
    BY <2>5, <2>6 DEF FreshInv
<1>4. CASE Hoist \/ OverlapCheck \/ LengthCheck \/ CopyCall
  <2>0. pc \in {"hoist", "overlap", "check", "copy"}
    BY <1>4 DEF Hoist, OverlapCheck, LengthCheck, CopyCall
  <2>1. mode = "vector" /\ locals' = locals /\ value' = value /\ acc' = acc /\ lane' = lane /\ copy' = copy
    <3>1. mode = "vector"
      BY <2>0 DEF Inv, ControlInv
    <3> QED
      BY <1>4, <3>1 DEF Hoist, OverlapCheck, LengthCheck, CopyCall, Stop, Goto, vectorVars, scalarVars
  <2>2. pc' = "copy" => LengthCheck /\ pc' \notin {"done", "panic"}
    BY <1>4 DEF Hoist, OverlapCheck, LengthCheck, CopyCall, Stop, Goto
  <2>3. pc' = "copy" /\ LengthChecks # {} => Runs
    BY <2>2, SMTT(30) DEF LengthCheck, Stop, Goto, NonEmpty, Runs
  <2>4. pc' # "combine"
    BY <1>4 DEF Hoist, OverlapCheck, LengthCheck, CopyCall, Stop, Goto, LoopLabel
  <2> QED
    BY <1>1, <1>2, <2>0, <2>1, <2>3, <2>4, SMTT(30) DEF FreshInv
<1>5. CASE ChunkTest \/ CountTest \/ MainTest
  BY <1>5 DEF ChunkTest, CountTest, MainTest, Stop, Goto, StartBody, vectorVars, scalarVars, FreshInv
<1>6. CASE SingleTest
  <2>1. /\ mode = "vector" /\ locals' = locals /\ value' = value /\ acc' = acc /\ lane' = lane
        /\ pc = "main" /\ pc' \in {"load", "combine"}
    BY <1>6 DEF SingleTest, Goto, StartBody, scalarVars
  <2> QED
    BY <1>1, <2>1 DEF FreshInv, Kept
<1>7. CASE LoadAhead \/ VectorLet \/ VectorFold \/ VectorStore \/ VectorPanic \/ NextCopy \/ Advance
  BY <1>7 DEF LoadAhead, VectorLet, VectorFold, VectorStore, VectorPanic, NextCopy, Advance, Running,
              Stop, Goto, StartBody, vectorVars, scalarVars, FreshInv
<1>8. CASE MergeCopy \/ NextFold \/ Remainder
  <2>1. /\ mode = "vector" /\ locals' = locals /\ value' = value /\ acc' = acc /\ pc = "combine" /\ pc' = pc
    BY <1>8 DEF MergeCopy, NextFold, Remainder, Combining, scalarVars
  <2> QED
    BY <1>1, <2>1 DEF FreshInv, Kept, Untargeted
<1>9. CASE FoldLane
  <2>1. /\ mode = "vector" /\ locals' = locals /\ value' = value /\ pc = "combine" /\ pc' = pc
        /\ k \in Folds(job.body) /\ acc \in [AccNames -> Value]
        /\ acc' = [acc EXCEPT ![job.body[k].target] = Fold(job.body[k].op, @, accs[k][0][lane])]
    <3>1. pc = "combine" /\ acc \in [AccNames -> Value]
      <4>1. pc = "combine"
        BY <1>9 DEF FoldLane, Combining
      <4>2. acc \in [AccNames -> Value]
        BY <1>2 DEF TypeOK
      <4> QED
        BY <4>1, <4>2
    <3>2. mode = "vector"
      BY <3>1 DEF Inv, ControlInv
    <3> QED
      BY <1>9, <3>1, <3>2 DEF FoldLane, Combining, scalarVars
  <2>2. Kept(acc')
    BY <2>1 DEF FreshInv, Kept, Untargeted
  <2>3. Kept(acc)'
    BY <1>1, <2>2 DEF Kept, Untargeted
  <2> QED
    BY <2>1, <2>3 DEF FreshInv
<1>10. CASE ScalarBegin \/ ScalarStatement \/ ScalarAdvance
  <2>1. mode' = mode /\ pc \in {"begin", "scalar"}
    BY <1>10 DEF ScalarBegin, ScalarStatement, ScalarAdvance, Stop
  <2> QED
    BY <2>1 DEF Inv, ControlInv
<1>11. CASE Terminated
  BY <1>3, <1>11 DEF Terminated
<1> QED
  BY <1>3, <1>4, <1>5, <1>6, <1>7, <1>8, <1>9, <1>10, <1>11 DEF Next

-----------------------------------------------------------------------------
(***************************************************************************)
(* What has been folded.                                                   *)
(***************************************************************************)

(* The lanes of the fold s when the vectors of copy from and the ones      *)
(* after it are not merged yet, and what they come to when the ones of     *)
(* lane first and after it are not folded yet.                             *)
LanesOf(s, as, from) ==
  [l \in Lane |-> FoldOver(job.body[s].op, as[s][0][l], [c \in Copy |-> as[s][c][l]], from, Copies)]
Total(s, as, m, from, first) ==
  FoldOver(job.body[s].op, m[job.body[s].target], LanesOf(s, as, from), first, Lanes)

(* Folded, in terms of Total.                                              *)
LEMMA FoldedIs ==
  ASSUME NEW s
  PROVE  Folded(s) = IF pc = "combine" /\ s < k THEN acc[job.body[s].target]
                     ELSE Total(s, accs, acc, IF Merging(s) THEN copy ELSE 1, IF Merging(s) THEN lane ELSE 0)
  BY DEF Folded, Merged, Total, LanesOf

(* The same after a step.                                                  *)
LEMMA FoldedNext ==
  ASSUME job' = job, NEW s
  PROVE  Folded(s)' = IF pc' = "combine" /\ s < k' THEN acc'[job.body[s].target]
                      ELSE Total(s, accs', acc', IF pc' = "combine" /\ k' = s THEN copy' ELSE 1,
                                                 IF pc' = "combine" /\ k' = s THEN lane' ELSE 0)
<1>1. Copies' = Copies /\ Copy' = Copy
  BY JobOnly
<1> QED
  BY <1>1 DEF Folded, Merged, Total, LanesOf, Merging

(* The rest of a list of elements is one.                                  *)
LEMMA ValuesTail ==
  ASSUME NEW vals, NEW last \in Int, Values(vals, 0, last), NEW first \in 0..last
  PROVE  Values(vals, first, last)
  BY DEF Values

(* The lanes and the copies are elements.                                  *)
LEMMA LanesOfType ==
  ASSUME JobOK(job), NEW s \in Folds(job.body), NEW as \in [Folds(job.body) -> [Copy -> Vector]],
         NEW from \in 0..Copies
  PROVE  /\ \A l \in Lane : /\ as[s][0][l] \in Value
                            /\ Values([c \in Copy |-> as[s][c][l]], from, Copies)
                            /\ LanesOf(s, as, from)[l] \in Value
         /\ Values(LanesOf(s, as, from), 0, Lanes)
<1>1. Lanes \in Nat /\ Lanes >= 1 /\ Copies \in 1..4 /\ from \in Int /\ from <= Copies /\ from >= 0
  BY LanesType, CopiesType
<1>2. job.body[s].op \in FoldOps
  BY FoldType
<1>3. ASSUME NEW l \in Lane
      PROVE  /\ as[s][0][l] \in Value /\ Values([c \in Copy |-> as[s][c][l]], from, Copies)
             /\ LanesOf(s, as, from)[l] \in Value
  <2> DEFINE copies == [c \in Copy |-> as[s][c][l]]
  <2>1. ASSUME NEW c \in Copy PROVE as[s][c][l] \in Value
    <3>1. as[s][c] \in Vector
      OBVIOUS
    <3> QED
      BY <3>1 DEF Vector
  <2>2. 0 \in Copy /\ \A c \in from..(Copies - 1) : c \in Copy
    BY <1>1 DEF Copy
  <2>3. Values(copies, from, Copies)
    BY <2>1, <2>2 DEF Values
  <2>4. as[s][0][l] \in Value
    BY <2>1, <2>2
  <2> DEFINE op == job.body[s].op
             x0 == as[s][0][l]
  <2> HIDE DEF copies, op, x0
  <2>5. FoldOver(op, x0, copies, from, Copies) \in Value
    <3>1. op \in FoldOps /\ x0 \in Value
      BY <1>2, <2>4 DEF op, x0
    <3> QED
      BY <1>1, <2>3, <3>1, FoldOverIs
  <2> QED
    BY <2>3, <2>4, <2>5 DEF copies, LanesOf, op, x0
<1> QED
  BY <1>3 DEF Values, Lane

(* Fresh accumulators add nothing.                                         *)
LEMMA FreshTotal ==
  ASSUME JobOK(job), NEW s \in Folds(job.body), NEW m \in [AccNames -> Value]
  PROVE  Total(s, FreshAccs, m, 1, 0) = m[job.body[s].target]
<1> DEFINE op == job.body[s].op
<1>1. Lanes \in Nat /\ Lanes >= 1 /\ Copies \in 1..4 /\ 0 \in Copy /\ 1 <= Copies
  BY LanesType, CopiesType DEF Copy
<1>2. op \in FoldOps /\ Identity(op) \in Value /\ m[job.body[s].target] \in Value
  BY FoldType, OperationsAssumption
<1>3. ASSUME NEW l \in Lane PROVE LanesOf(s, FreshAccs, 1)[l] = Identity(op)
  <2> DEFINE copies == [c \in Copy |-> FreshAccs[s][c][l]]
  <2>1. \A c \in Copy : FreshAccs[s][c][l] = Identity(op)
    BY DEF FreshAccs
  <2>2. \A c \in 1..(Copies - 1) : copies[c] = Identity(op)
    BY <1>1, <2>1 DEF Copy
  <2> HIDE DEF copies, op
  <2>3. FoldOver(op, Identity(op), copies, 1, Copies) = Identity(op)
    BY <1>1, <1>2, <2>2, FoldOverIdentity
  <2> QED
    BY <1>1, <2>1, <2>3 DEF LanesOf, copies, op
<1>4. \A l \in 0..(Lanes - 1) : LanesOf(s, FreshAccs, 1)[l] = Identity(op)
  BY <1>3 DEF Lane
<1> HIDE DEF op
<1> QED
  BY <1>1, <1>2, <1>4, FoldOverIdentity DEF Total, op

(* Merging a copy, or folding a lane, keeps the total.                     *)
LEMMA MergeTotal ==
  ASSUME JobOK(job), NEW s \in Folds(job.body), NEW as \in [Folds(job.body) -> [Copy -> Vector]],
         NEW m \in [AccNames -> Value], NEW from \in 1..(Copies - 1), NEW first \in 0..Lanes,
         NEW new, \A c \in Copy, l \in Lane :
           new[s][c][l] = IF c = 0 THEN Fold(job.body[s].op, as[s][0][l], as[s][from][l]) ELSE as[s][c][l]
  PROVE  Total(s, new, m, from + 1, first) = Total(s, as, m, from, first)
<1> DEFINE op == job.body[s].op
<1>1. /\ Lanes \in Nat /\ Lanes >= 1 /\ Copies \in 1..4 /\ from \in Int /\ from < Copies /\ from >= 1
      /\ from \in 0..Copies /\ from + 1 \in 0..Copies /\ from + 1 <= Copies /\ 0 \in Copy /\ from \in Copy
      /\ first \in Int /\ first <= Lanes /\ first >= 0
  <2>1. Lanes \in Nat /\ Lanes >= 1 /\ Copies \in 1..4
    BY LanesType, CopiesType
  <2>2. /\ from \in Int /\ from < Copies /\ from >= 1 /\ from \in 0..Copies /\ from + 1 \in 0..Copies
        /\ from + 1 <= Copies
    BY <2>1
  <2>3. 0 \in Copy /\ from \in Copy
    BY <2>1, <2>2 DEF Copy
  <2>4. first \in Int /\ first <= Lanes /\ first >= 0
    BY <2>1
  <2> QED
    BY <2>1, <2>2, <2>3, <2>4
<1>2. op \in FoldOps /\ m[job.body[s].target] \in Value
  BY FoldType
<1>3. ASSUME NEW l \in Lane PROVE LanesOf(s, new, from + 1)[l] = LanesOf(s, as, from)[l]
  <2> DEFINE copies == [c \in Copy |-> as[s][c][l]]
             others == [c \in Copy |-> new[s][c][l]]
  <2>1. as[s][0][l] \in Value /\ Values(copies, from, Copies)
    BY <1>1, LanesOfType
  <2>2. new[s][0][l] = Fold(op, as[s][0][l], copies[from])
    BY <1>1
  <2>3. \A c \in (from + 1)..(Copies - 1) : others[c] = copies[c]
    <3> TAKE c \in (from + 1)..(Copies - 1)
    <3>1. c \in Copy /\ c # 0
      BY <1>1 DEF Copy
    <3> QED
      BY <3>1
  <2>4. LanesOf(s, new, from + 1)[l] = FoldOver(op, new[s][0][l], others, from + 1, Copies)
        /\ LanesOf(s, as, from)[l] = FoldOver(op, as[s][0][l], copies, from, Copies)
    BY DEF LanesOf
  <2> DEFINE x0 == as[s][0][l]
             y0 == new[s][0][l]
  <2>5. x0 \in Value /\ y0 = Fold(op, x0, copies[from])
    BY <2>1, <2>2
  <2> HIDE DEF copies, others, op, x0, y0
  <2>6. /\ copies[from] \in Value /\ Fold(op, x0, copies[from]) \in Value
        /\ Values(copies, from + 1, Copies)
        /\ FoldOver(op, x0, copies, from, Copies) =
             FoldOver(op, Fold(op, x0, copies[from]), copies, from + 1, Copies)
    BY <1>1, <1>2, <2>1, <2>5, FoldOverFront
  <2>7. y0 \in Value /\ from + 1 \in Int
    BY <1>1, <2>5, <2>6
  <2>8. FoldOver(op, y0, others, from + 1, Copies) = FoldOver(op, y0, copies, from + 1, Copies)
    BY <1>1, <1>2, <2>3, <2>6, <2>7, FoldOverSame
  <2> QED
    BY <2>4, <2>5, <2>6, <2>8 DEF x0, y0
<1> DEFINE lanes == LanesOf(s, as, from)
           merged == LanesOf(s, new, from + 1)
           x1 == m[job.body[s].target]
<1>4. Values(lanes, first, Lanes)
  <2>1. Values(lanes, 0, Lanes)
    BY <1>1, LanesOfType
  <2> HIDE DEF lanes
  <2> QED
    BY <1>1, <2>1, ValuesTail
<1>5. ASSUME NEW l \in first..(Lanes - 1) PROVE merged[l] = lanes[l]
  <2>1. l \in Lane
    BY <1>1 DEF Lane
  <2> QED
    BY <1>3, <2>1
<1>6. x1 \in Value
  BY <1>2
<1> HIDE DEF op, lanes, merged, x1
<1>7. FoldOver(op, x1, merged, first, Lanes) = FoldOver(op, x1, lanes, first, Lanes)
  BY <1>1, <1>2, <1>4, <1>5, <1>6, FoldOverSame
<1> QED
  BY <1>7 DEF Total, op, lanes, merged, x1

(* Folding a lane into the accumulator leaves the total.                   *)
LEMMA LaneTotal ==
  ASSUME JobOK(job), NEW s \in Folds(job.body), NEW as \in [Folds(job.body) -> [Copy -> Vector]],
         NEW m \in [AccNames -> Value], NEW first \in 0..(Lanes - 1),
         NEW new, new = [m EXCEPT ![job.body[s].target] = Fold(job.body[s].op, @, as[s][0][first])]
  PROVE  Total(s, as, new, Copies, first + 1) = Total(s, as, m, Copies, first)
<1> DEFINE op == job.body[s].op
           t == job.body[s].target
           lanes == LanesOf(s, as, Copies)
<1>1. /\ Lanes \in Nat /\ Lanes >= 1 /\ Copies \in 1..4 /\ Copies \in 0..Copies /\ Copies \in Int /\ Copies <= Copies
      /\ first \in Int /\ first < Lanes /\ first >= 0 /\ first \in Lane /\ first + 1 \in Int
  BY LanesType, CopiesType DEF Lane
<1>2. op \in FoldOps /\ t \in AccNames /\ m[t] \in Value /\ Lanes \in Int
  BY <1>1, FoldType
<1>3. lanes[first] = as[s][0][first]
  <2> DEFINE copies == [c \in Copy |-> as[s][c][first]]
             x0 == as[s][0][first]
  <2>1. x0 \in Value /\ Values(copies, Copies, Copies)
    BY <1>1, LanesOfType
  <2>2. lanes[first] = FoldOver(op, x0, copies, Copies, Copies)
    BY <1>1 DEF LanesOf
  <2> HIDE DEF copies, op, x0, lanes
  <2>3. FoldOver(op, x0, copies, Copies, Copies) = x0
    BY <1>1, <1>2, <2>1, FoldOverIs
  <2> QED
    BY <2>2, <2>3 DEF x0
<1>4. Values(lanes, first, Lanes)
  <2>1. Values(lanes, 0, Lanes)
    BY <1>1, LanesOfType
  <2> HIDE DEF lanes
  <2> QED
    BY <1>1, <2>1, ValuesTail
<1>5. new[t] = Fold(op, m[t], lanes[first])
  BY <1>2, <1>3
<1> HIDE DEF op, t, lanes
<1>6. FoldOver(op, m[t], lanes, first, Lanes) = FoldOver(op, Fold(op, m[t], lanes[first]), lanes, first + 1, Lanes)
  BY <1>1, <1>2, <1>4, FoldOverFront
<1> QED
  BY <1>5, <1>6 DEF Total, op, t, lanes

(* With no lane left the total is the accumulator.                         *)
LEMMA NoLaneTotal ==
  ASSUME JobOK(job), NEW s \in Folds(job.body), NEW as, NEW m \in [AccNames -> Value], NEW from
  PROVE  Total(s, as, m, from, Lanes) = m[job.body[s].target]
<1> DEFINE lanes == LanesOf(s, as, from)
           op == job.body[s].op
           x0 == m[job.body[s].target]
<1>1. Lanes \in Int /\ op \in FoldOps /\ x0 \in Value
  BY LanesType, FoldType
<1> HIDE DEF lanes, op, x0
<1>2. Values(lanes, Lanes, Lanes)
  BY <1>1 DEF Values
<1>3. FoldOver(op, x0, lanes, Lanes, Lanes) = x0
  BY <1>1, <1>2, FoldOverIs
<1> QED
  BY <1>3 DEF Total, op, x0, lanes

(* Folding a vector into one copy folds its lanes into the total.          *)
LEMMA VectorTotal ==
  ASSUME JobOK(job), NEW s \in Folds(job.body), NEW as \in [Folds(job.body) -> [Copy -> Vector]],
         NEW m \in [AccNames -> Value], NEW d \in Copy, NEW vec \in Vector,
         NEW new, \A c \in Copy, l \in Lane :
           new[s][c][l] = IF c = d THEN Fold(job.body[s].op, as[s][c][l], vec[l]) ELSE as[s][c][l]
  PROVE  Total(s, new, m, 1, 0) = FoldOver(job.body[s].op, Total(s, as, m, 1, 0), vec, 0, Lanes)
<1> DEFINE op == job.body[s].op
<1>1. /\ Lanes \in Nat /\ Lanes >= 1 /\ Copies \in 1..4 /\ 1 \in 0..Copies /\ 1 <= Copies /\ 0 \in Copy
      /\ d \in Int /\ d >= 0 /\ d < Copies
  BY LanesType, CopiesType DEF Copy
<1>2. op \in FoldOps /\ m[job.body[s].target] \in Value
  BY FoldType
<1>3. ASSUME NEW l \in Lane
      PROVE  LanesOf(s, new, 1)[l] = Fold(op, LanesOf(s, as, 1)[l], vec[l])
  <2> DEFINE copies == [c \in Copy |-> as[s][c][l]]
             others == [c \in Copy |-> new[s][c][l]]
             x0 == as[s][0][l]
             y0 == new[s][0][l]
             v == vec[l]
  <2>1. x0 \in Value /\ Values(copies, 1, Copies) /\ v \in Value
    BY <1>1, LanesOfType DEF Vector
  <2>2. \A c \in Copy : new[s][c][l] = IF c = d THEN Fold(op, as[s][c][l], v) ELSE as[s][c][l]
    OBVIOUS
  <2>3. /\ LanesOf(s, new, 1)[l] = FoldOver(op, y0, others, 1, Copies)
        /\ LanesOf(s, as, 1)[l] = FoldOver(op, x0, copies, 1, Copies)
    BY DEF LanesOf
  <2>4. ASSUME NEW c \in 1..(Copies - 1)
        PROVE  c \in Copy /\ others[c] = IF c = d THEN Fold(op, copies[c], v) ELSE copies[c]
    <3>1. c \in Copy
      BY <1>1 DEF Copy
    <3> QED
      BY <2>2, <3>1
  <2>5. y0 = IF d = 0 THEN Fold(op, x0, v) ELSE x0
    BY <1>1, <2>2
  <2> HIDE DEF copies, others, op, x0, y0, v
  <2>6. CASE d = 0
    <3>1. y0 = Fold(op, x0, v) /\ y0 \in Value
      BY <1>2, <2>1, <2>5, <2>6, FoldSwap
    <3>2. \A c \in 1..(Copies - 1) : others[c] = copies[c]
      BY <2>4, <2>6
    <3>3. FoldOver(op, y0, others, 1, Copies) = FoldOver(op, y0, copies, 1, Copies)
      BY <1>1, <1>2, <2>1, <3>1, <3>2, FoldOverSame
    <3>4. FoldOver(op, Fold(op, x0, v), copies, 1, Copies) = Fold(op, FoldOver(op, x0, copies, 1, Copies), v)
      BY <1>1, <1>2, <2>1, FoldOverPull
    <3> QED
      BY <2>3, <3>1, <3>3, <3>4 DEF v
  <2>7. CASE d # 0
    <3>1. d \in 1..(Copies - 1) /\ y0 = x0
      BY <1>1, <2>5, <2>7
    <3>2. FoldOver(op, x0, others, 1, Copies) = Fold(op, FoldOver(op, x0, copies, 1, Copies), v)
      BY <1>1, <1>2, <2>1, <2>4, <3>1, FoldOverAt
    <3> QED
      BY <2>3, <3>1, <3>2 DEF v
  <2> QED
    BY <2>6, <2>7
<1> DEFINE lanes == LanesOf(s, as, 1)
           both == LanesOf(s, new, 1)
           x1 == m[job.body[s].target]
<1>4. Values(lanes, 0, Lanes) /\ Values(vec, 0, Lanes)
  BY <1>1, LanesOfType DEF Values, Vector, Lane
<1>5. \A l \in 0..(Lanes - 1) : both[l] = Fold(op, lanes[l], vec[l])
  BY <1>3 DEF Lane
<1>6. x1 \in Value
  BY <1>2
<1> HIDE DEF op, lanes, both, x1
<1>7. FoldOver(op, x1, both, 0, Lanes) = FoldOver(op, FoldOver(op, x1, lanes, 0, Lanes), vec, 0, Lanes)
  BY <1>1, <1>2, <1>4, <1>5, <1>6, FoldOverLanes
<1> QED
  BY <1>7 DEF Total, op, lanes, both, x1

-----------------------------------------------------------------------------
(***************************************************************************)
(* Every step keeps FoldInv.                                               *)
(***************************************************************************)

(* What has to hold after a step for FoldInv to hold: between two rounds,  *)
LEMMA FoldAtMain ==
  ASSUME job' = job, pc' = "main", i' \in job.start..job.limit,
         \A s \in Folds(job.body) : Folded(s)' = After(job, i').acc[job.body[s].target]
  PROVE  FoldInv'
  BY DEF FoldInv

(* while the lanes are combined,                                           *)
LEMMA FoldAtCombine ==
  ASSUME job' = job, pc' = "combine", i' \in job.start..job.limit,
         ~After(job, i').panicked, mem' = After(job, i').mem, copy' >= 1,
         \A s \in Folds(job.body) : Folded(s)' = After(job, i').acc[job.body[s].target]
  PROVE  FoldInv'
  BY DEF FoldInv

(* inside a chunk,                                                         *)
LEMMA FoldInBody ==
  ASSUME job' = job, pc' \in {"load", "statement"},
         \A s \in Folds(job.body) : Inside(Pos)' =>
           Folded(s)' = After(job, IF s < k' THEN Pos' + Lanes ELSE Pos').acc[job.body[s].target]
  PROVE  FoldInv'
  BY DEF FoldInv

(* and anywhere else, nothing.                                             *)
LEMMA FoldElsewhere == ASSUME pc' \notin {"main", "combine", "load", "statement"} PROVE FoldInv'
  BY DEF FoldInv

(* The loop starts with nothing folded.                                    *)
LEMMA FoldCount == ASSUME Inv, StartInv, FreshInv, CountTest PROVE FoldInv'
<1>1. job' = job /\ JobOK(job) /\ mode = "vector" /\ pc = "count" /\ i' = i /\ acc' = acc /\ TypeOK
  <2>1. job' = job /\ pc = "count" /\ i' = i /\ acc' = acc
    BY DEF CountTest
  <2> QED
    BY <2>1 DEF Inv, ControlInv
<1>2. CASE job.limit - job.start >= MinReduceVectors * MaxLanes
  <2>1. pc' = "main" /\ accs' = FreshAccs
    BY <1>2 DEF CountTest, Goto
  <2>2. i = job.start /\ acc = Acc0
    BY <1>1 DEF StartInv, FreshInv
  <2>3. MinReduceVectors * MaxLanes \in Nat /\ job.start \in Int /\ job.limit \in Int
    BY <1>1, HeaderType, PlanAssumption
  <2>4. i' \in job.start..job.limit
    BY <1>1, <1>2, <2>2, <2>3
  <2>5. acc \in [AccNames -> Value]
    BY <1>1 DEF TypeOK
  <2>6. After(job, i').acc = Acc0
    BY <1>1, <2>2, RunIs DEF InitialState
  <2>7. ASSUME NEW s \in Folds(job.body) PROVE Folded(s)' = After(job, i').acc[job.body[s].target]
    <3>1. Folded(s)' = Total(s, FreshAccs, acc, 1, 0)
      BY <1>1, <2>1, FoldedNext
    <3>2. Total(s, FreshAccs, acc, 1, 0) = acc[job.body[s].target]
      BY <1>1, <2>5, FreshTotal
    <3> QED
      BY <2>2, <2>6, <3>1, <3>2
  <2> QED
    BY <1>1, <2>1, <2>4, <2>7, FoldAtMain
<1>3. CASE ~(job.limit - job.start >= MinReduceVectors * MaxLanes)
  <2>1. pc' = "begin"
    BY <1>3 DEF CountTest, Goto
  <2> QED
    BY <2>1, FoldElsewhere
<1> QED
  BY <1>2, <1>3

(* Starting a chunk, or combining the lanes, changes nothing.              *)
LEMMA FoldTest == ASSUME Inv, FreshInv, ScalarPrefix, FoldInv, MainTest \/ SingleTest PROVE FoldInv'
<1>1. /\ job' = job /\ pc = "main" /\ i' = i /\ acc' = acc /\ accs' = accs /\ mem' = mem /\ lane' = lane
      /\ k' = 1 /\ ((pc' = "load" /\ copy' = 0) \/ (pc' = "combine" /\ copy' = 1))
  <2>1. CASE MainTest
    BY <2>1 DEF MainTest, StartBody, Goto
  <2>2. CASE SingleTest
    BY <2>2 DEF SingleTest, StartBody, Goto
  <2> QED
    BY <2>1, <2>2
<1>2. JobOK(job) /\ mode = "vector" /\ TypeOK
  BY <1>1 DEF Inv, ControlInv
<1>3. /\ i \in job.start..job.limit
      /\ \A s \in Folds(job.body) : Folded(s) = After(job, i).acc[job.body[s].target]
  BY <1>1 DEF FoldInv
<1>4. lane = 0
  BY <1>1, <1>2 DEF FreshInv
<1>5. ASSUME NEW s \in Folds(job.body) PROVE Folded(s)' = After(job, i).acc[job.body[s].target] /\ ~(s < 1)
  <2>1. Folded(s) = Total(s, accs, acc, 1, 0)
    BY <1>1, FoldedIs DEF Merging
  <2>2. ~(s < 1) /\ 1 # 0
    BY <1>2, FoldType
  <2>3. Folded(s)' = Total(s, accs, acc, 1, 0)
    <3>1. Folded(s)' = IF pc' = "combine" /\ s < k' THEN acc'[job.body[s].target]
                       ELSE Total(s, accs', acc', IF pc' = "combine" /\ k' = s THEN copy' ELSE 1,
                                                  IF pc' = "combine" /\ k' = s THEN lane' ELSE 0)
      BY <1>1, FoldedNext
    <3>2. CASE pc' = "load"
      BY <1>1, <3>1, <3>2
    <3>3. CASE pc' = "combine" /\ copy' = 1
      BY <1>1, <1>4, <2>2, <3>1, <3>3
    <3> QED
      BY <1>1, <3>2, <3>3
  <2> QED
    BY <1>3, <2>1, <2>2, <2>3
<1>6. CASE pc' = "load" /\ copy' = 0
  <2>1. Pos' = i
    <3>1. Pos' = i' + copy' * Lanes
      BY DEF Pos
    <3>2. i \in Int /\ Lanes \in Nat
      BY <1>2, LanesType DEF TypeOK
    <3> QED
      BY <1>1, <1>6, <3>1, <3>2
  <2> QED
    BY <1>1, <1>5, <1>6, <2>1, FoldInBody
<1>7. CASE pc' = "combine" /\ copy' = 1
  <2>1. job.start \in Int /\ job.limit \in Int /\ i \in Int /\ i >= job.start /\ i <= job.limit
    BY <1>2, <1>3, HeaderType
  <2>2. Prefix = After(job, IF i < job.limit THEN i ELSE IF job.start < job.limit THEN job.limit ELSE job.start)
    BY <1>2, <2>1, PrefixIs DEF Prefix
  <2>3. Prefix = After(job, i)
    BY <2>1, <2>2
  <2>4. ~Prefix.panicked /\ mem = Prefix.mem
    BY <1>1, <1>2 DEF ScalarPrefix
  <2>5. copy' >= 1
    BY <1>7
  <2> QED
    BY <1>1, <1>3, <1>5, <1>7, <2>3, <2>4, <2>5, FoldAtCombine
<1> QED
  BY <1>1, <1>6, <1>7

(* Within a chunk, all statements but folds.                               *)
LEMMA FoldOther == ASSUME Inv, FoldInv, LoadAhead \/ VectorLet \/ VectorStore PROVE FoldInv'
<1>1. /\ job' = job /\ i' = i /\ copy' = copy /\ acc' = acc /\ accs' = accs /\ pc \in {"load", "statement"}
      /\ pc' \in {"statement", "panic"}
  BY DEF LoadAhead, VectorLet, VectorStore, Running, Stop, Goto, vectorVars
<1>2. JobOK(job) /\ TypeOK
  BY DEF Inv
<1>3. ASSUME NEW s \in Folds(job.body) PROVE s < k' <=> s < k
  <2>1. s \in Int /\ job.body[s].kind = "reduce" /\ k \in Int
    BY <1>2, FoldType DEF TypeOK
  <2>2. CASE LoadAhead
    BY <2>2 DEF LoadAhead, Stop
  <2>3. CASE VectorLet \/ VectorStore
    <3>1. k' = k + 1 /\ job.body[k].kind # "reduce"
      BY <2>3 DEF VectorLet, VectorStore, Running
    <3> QED
      BY <2>1, <3>1
  <2> QED
    BY <2>2, <2>3
<1>4. Pos' = Pos
  BY <1>1 DEF Pos
<1>5. Inside(Pos)' = Inside(Pos)
  BY <1>1, <1>4, InsideSame
<1>6. CASE pc' = "statement"
  <2>1. ASSUME NEW s \in Folds(job.body), Inside(Pos)'
        PROVE  Folded(s)' = After(job, IF s < k' THEN Pos' + Lanes ELSE Pos').acc[job.body[s].target]
    <3>1. Folded(s)' = Total(s, accs, acc, 1, 0)
      BY <1>1, <1>6, FoldedNext
    <3>2. Folded(s) = Total(s, accs, acc, 1, 0)
      BY <1>1, FoldedIs DEF Merging
    <3>3. Folded(s) = After(job, IF s < k THEN Pos + Lanes ELSE Pos).acc[job.body[s].target]
      BY <1>1, <1>5, <2>1 DEF FoldInv
    <3> QED
      BY <1>3, <1>4, <3>1, <3>2, <3>3
  <2> QED
    BY <1>1, <1>6, <2>1, FoldInBody
<1>7. CASE pc' = "panic"
  BY <1>7, FoldElsewhere
<1> QED
  BY <1>1, <1>6, <1>7

(* A copy that is not the last ends inside the unrolled bodies.            *)
LEMMA CopyFits ==
  ASSUME NEW c \in Nat, NEW copies \in Nat, c + 1 <= copies, NEW len \in Nat
  PROVE  c * len + len <= copies * len
<1> DEFINE d == copies - (c + 1)
<1>1. d \in Nat /\ copies = (c + 1) + d
  OBVIOUS
<1>2. copies * len = (c + 1) * len + d * len
  BY <1>1
<1>3. (c + 1) * len = c * len + len /\ d * len \in Nat /\ c * len \in Nat /\ copies * len \in Nat
  BY <1>1
<1> HIDE DEF d
<1> QED
  BY <1>2, <1>3

(* A chunk of a reduction lies before the limit.                           *)
LEMMA FullChunk ==
  ASSUME Inv, LaneInv, pc \in {"load", "statement"}, Full(job.body)
  PROVE  /\ Pos \in Int /\ Lanes \in Nat /\ Pos >= job.start /\ Pos + Lanes <= job.limit
         /\ job.start \in Int /\ job.limit \in Int /\ copy \in Nat /\ copy \in Copy
<1>1. /\ JobOK(job) /\ TypeOK /\ mode = "vector" /\ copy < Copies
      /\ (n = Copies * Lanes \/ (n = Lanes /\ copy = 0)) /\ i + n <= job.limit
  BY DEF Inv, ControlInv, ChunkInv, LaneInv
<1>2. /\ i \in Int /\ copy \in Nat /\ Copies \in 1..4 /\ Copies \in Nat /\ Lanes \in Nat /\ i >= job.start
      /\ job.start \in Int /\ job.limit \in Int
  <2>1. i \in Int /\ copy \in 0..Copies
    BY <1>1 DEF TypeOK
  <2>2. i >= job.start
    BY <1>1 DEF Inv, IndexInv
  <2> QED
    BY <1>1, <2>1, <2>2, CopiesType, LanesType, HeaderType
<1>3. copy * Lanes \in Nat /\ Copies * Lanes \in Nat /\ copy * Lanes + Lanes <= Copies * Lanes
  <2>1. copy + 1 <= Copies
    BY <1>1, <1>2
  <2>2. copy * Lanes + Lanes <= Copies * Lanes
    BY <1>2, <2>1, CopyFits
  <2> QED
    BY <1>2, <2>2
<1>4. Pos = i + copy * Lanes
  BY DEF Pos
<1>5. Pos \in Int /\ Pos >= job.start
  BY <1>2, <1>3, <1>4
<1>6. CASE n = Copies * Lanes
  <2>1. Pos + Lanes <= job.limit
    BY <1>1, <1>2, <1>3, <1>4, <1>6
  <2> QED
    BY <1>1, <1>2, <1>5, <2>1 DEF Copy
<1>7. CASE n = Lanes /\ copy = 0
  <2>1. Pos = i
    BY <1>2, <1>4, <1>7
  <2>2. Pos + Lanes <= job.limit
    BY <1>1, <1>2, <1>7, <2>1
  <2> QED
    BY <1>1, <1>2, <1>5, <2>2 DEF Copy
<1> QED
  BY <1>1, <1>6, <1>7

(* At the end of a chunk every fold has gone over it.                      *)
LEMMA ChunkFolded ==
  ASSUME Inv, ShortInv, LaneInv, FoldInv, pc = "statement", k > Len(job.body), NEW s \in Folds(job.body)
  PROVE  Total(s, accs, acc, 1, 0) = After(job, Pos + Lanes).acc[job.body[s].target]
<1>1. Inside(Pos)
  BY DoneInside
<1>2. Folded(s) = Total(s, accs, acc, 1, 0)
  BY FoldedIs DEF Merging
<1>3. s < k
  <2>1. s \in Int /\ s <= Len(job.body) /\ k \in Int /\ Len(job.body) \in Nat
    BY FoldType, BodyLength DEF Inv, TypeOK
  <2> QED
    BY <2>1
<1> QED
  BY <1>1, <1>2, <1>3 DEF FoldInv

(* The end of a body keeps FoldInv.                                        *)
LEMMA FoldEnd == ASSUME Inv, ShortInv, LaneInv, FoldInv, NextCopy \/ Advance PROVE FoldInv'
<1>1. /\ job' = job /\ acc' = acc /\ accs' = accs /\ pc = "statement" /\ k > Len(job.body) /\ JobOK(job)
  BY DEF NextCopy, Advance, Inv
<1>2. ASSUME NEW s \in Folds(job.body)
      PROVE  /\ Total(s, accs, acc, 1, 0) = After(job, Pos + Lanes).acc[job.body[s].target]
             /\ ~(s < 1) /\ Full(job.body)
  BY <1>1, ChunkFolded, FoldType DEF Full
<1>3. CASE NextCopy
  <2>1. pc' = "load" /\ k' = 1 /\ i' = i /\ copy' = copy + 1 /\ Full(job.body)
    BY <1>3 DEF NextCopy, StartBody, Goto
  <2>2. Pos' = Pos + Lanes
    <3>1. i \in Int /\ copy \in Nat /\ Lanes \in Nat
      BY <1>1, <2>1, FullChunk DEF Inv, TypeOK
    <3>2. (copy + 1) * Lanes = copy * Lanes + Lanes /\ copy * Lanes \in Nat
      BY <3>1
    <3>3. Pos = i + copy * Lanes /\ Pos' = i + (copy + 1) * Lanes
      BY <2>1 DEF Pos
    <3> QED
      BY <3>1, <3>2, <3>3
  <2>3. ASSUME NEW s \in Folds(job.body)
        PROVE  Folded(s)' = After(job, IF s < k' THEN Pos' + Lanes ELSE Pos').acc[job.body[s].target]
    <3>1. Folded(s)' = Total(s, accs, acc, 1, 0)
      BY <1>1, <2>1, FoldedNext
    <3> QED
      BY <1>2, <2>1, <2>2, <3>1
  <2> QED
    BY <1>1, <2>1, <2>3, FoldInBody
<1>4. CASE Advance /\ Full(job.body)
  <2>1. pc' = "main" /\ i' = i + n /\ ~Unrolled
    BY <1>4 DEF Advance, Goto
  <2>2. /\ Pos \in Int /\ Lanes \in Nat /\ Pos >= job.start /\ Pos + Lanes <= job.limit /\ copy \in Nat
        /\ job.start \in Int /\ job.limit \in Int /\ copy \in Copy
    BY <1>1, <1>4, FullChunk
  <2>3. i' = Pos + Lanes
    <3>1. (n = Copies * Lanes \/ (n = Lanes /\ copy = 0)) /\ i \in Int /\ Copies \in 1..4
      BY <1>1, <1>4, CopiesType DEF LaneInv, Inv, TypeOK
    <3>2. Pos = i + copy * Lanes
      BY DEF Pos
    <3>3. CASE n = Copies * Lanes
      <4>1. copy = Copies - 1
        BY <2>1, <2>2, <3>1, <3>3 DEF Unrolled, Copy
      <4>2. copy * Lanes + Lanes = Copies * Lanes /\ copy * Lanes \in Nat
        BY <2>2, <3>1, <4>1
      <4> QED
        BY <2>1, <2>2, <3>1, <3>2, <3>3, <4>2
    <3>4. CASE n = Lanes /\ copy = 0
      BY <2>1, <2>2, <3>1, <3>2, <3>4
    <3> QED
      BY <3>1, <3>3, <3>4
  <2>4. i' \in job.start..job.limit
    BY <2>2, <2>3
  <2>5. ASSUME NEW s \in Folds(job.body) PROVE Folded(s)' = After(job, i').acc[job.body[s].target]
    <3>1. Folded(s)' = Total(s, accs, acc, 1, 0)
      BY <1>1, <2>1, FoldedNext
    <3> QED
      BY <1>2, <2>3, <3>1
  <2> QED
    BY <1>1, <2>1, <2>4, <2>5, FoldAtMain
<1>5. CASE Advance /\ ~Full(job.body)
  <2>1. pc' = "test"
    BY <1>5 DEF Advance, Goto
  <2> QED
    BY <2>1, FoldElsewhere
<1> QED
  BY <1>3, <1>4, <1>5

(* A fold of the body folds the elements of its lanes.                     *)
LEMMA FoldVector == ASSUME Inv, HeldInv, LaneInv, FoldInv, VectorFold PROVE FoldInv'
<1> DEFINE vec == StatementVector(job.body[k], Held)
<1>1. /\ job' = job /\ i' = i /\ copy' = copy /\ acc' = acc /\ pc = "statement" /\ pc' = pc /\ k' = k + 1
      /\ k <= Len(job.body) /\ job.body[k].kind = "reduce" /\ CanLoad
      /\ accs' = [accs EXCEPT ![k][copy] = [l \in Lane |-> Fold(job.body[k].op, @[l], vec[l])]]
  BY DEF VectorFold, Running
<1>2. JobOK(job) /\ TypeOK /\ Planned(job)
  BY <1>1 DEF Inv, ControlInv
<1>3. k \in DOMAIN job.body /\ k \in Int /\ k \in Folds(job.body) /\ Full(job.body)
  <2>1. k \in 1..(Len(job.body) + 1)
    BY <1>2 DEF TypeOK
  <2>2. k \in DOMAIN job.body /\ k \in Int
    BY <1>1, <1>2, <2>1, BodyLength
  <2> QED
    BY <1>1, <2>2 DEF Folds, Full
<1>4. /\ Pos \in Int /\ Lanes \in Nat /\ Pos >= job.start /\ Pos + Lanes <= job.limit /\ copy \in Copy
      /\ job.start \in Int /\ job.limit \in Int
  BY <1>1, <1>3, FullChunk
<1>5. vec \in Vector
  BY <1>1, <1>2, <1>3, StatementVectorType
<1>6. accs \in [Folds(job.body) -> [Copy -> Vector]] /\ acc \in [AccNames -> Value]
  BY <1>2 DEF TypeOK
<1> HIDE DEF vec
<1>7. Pos' = Pos
  BY <1>1 DEF Pos
<1>8. Inside(Pos)' = Inside(Pos)
  BY <1>1, <1>7, InsideSame
<1>9. \A c \in Copy, l \in Lane :
        accs'[k][c][l] = IF c = copy THEN Fold(job.body[k].op, accs[k][c][l], vec[l]) ELSE accs[k][c][l]
  <2> TAKE c \in Copy, l \in Lane
  <2>1. CASE c = copy
    BY <1>1, <1>3, <1>4, <1>6, <2>1
  <2>2. CASE c # copy
    <3>1. accs'[k][c] = accs[k][c]
      BY <1>1, <1>3, <1>4, <1>6, <2>2
    <3> QED
      BY <2>2, <3>1
  <2> QED
    BY <2>1, <2>2
<1>10. ASSUME Inside(Pos)
       PROVE  Total(k, accs', acc, 1, 0) = After(job, Pos + Lanes).acc[job.body[k].target]
  <2>1. ChunkOK /\ \A l \in Lane : Live(job, Pos, l) => vec[l] = Turn(Pos + l, k)
    <3>1. /\ ChunkOK /\ MemoryAt(job, Pos, k - 1, mem) /\ TempsAt(job, Pos, k - 1, temps)
          /\ AheadAt(job, Pos, Held) /\ LengthAt(job, Pos, n)
          /\ LengthAt(job, Pos, LanesAfter(Leaves(job.body[k])))
          /\ \A l \in Lane : Live(job, Pos, l) =>
               StatementVector(job.body[k], Held)[l] =
                 Assigned(job, job.body[k], Pos + l, During(job, Pos + l, k - 1))
      BY <1>1, <1>3, <1>10, StatementLanes
    <3> QED
      BY <3>1 DEF Turn, vec
  <2> DEFINE high == Pos + Lanes
  <2>2. /\ high \in Int /\ Pos <= high /\ high - Pos = Lanes /\ high <= job.limit
    BY <1>4
  <2>3. ASSUME NEW l \in 0..(high - Pos - 1) PROVE vec[l] = Turn(Pos + l, k)
    <3>1. l \in Lane /\ Live(job, Pos, l)
      BY <1>4 DEF Lane, Live
    <3> QED
      BY <2>1, <3>1
  <2>4. ASSUME NEW x \in Pos..(high - 1) PROVE Indexed(x) /\ ~After(job, x).panicked
    <3>1. x \in Pos..job.limit /\ x \in Pos..(job.limit - 1) /\ x \in job.start..(job.limit - 1)
      BY <1>4
    <3>2. ~After(job, x).panicked
      BY <2>1, <3>1, ChunkKeeps
    <3>3. InBody(x)
      BY <1>2, <1>4, <1>10, <3>1, InsideBody
    <3> QED
      BY <3>1, <3>2, <3>3 DEF Indexed
  <2>5. After(job, Pos) \in State
    BY <1>2, <1>4, RunIs DEF ChunkOK
  <2>6. LocalsOK(job.body)
    BY <1>2 DEF Planned, Lowers
  <2>7. Total(k, accs, acc, 1, 0) = After(job, Pos).acc[job.body[k].target]
    <3>1. Folded(k) = Total(k, accs, acc, 1, 0)
      BY <1>1, FoldedIs DEF Merging
    <3>2. Folded(k) = After(job, IF k < k THEN Pos + Lanes ELSE Pos).acc[job.body[k].target]
      BY <1>1, <1>3, <1>10 DEF FoldInv
    <3>3. ~(k < k)
      BY <1>3
    <3> QED
      BY <3>1, <3>2, <3>3
  <2> HIDE DEF high
  <2>8. After(job, high).acc[job.body[k].target] =
          FoldOver(job.body[k].op, After(job, Pos).acc[job.body[k].target], vec, 0, high - Pos)
    <3>1. \A s \in Folds(job.body) : \A vals :
            (\A l \in 0..(high - Pos - 1) : vals[l] = Turn(Pos + l, s)) =>
              /\ Values(vals, 0, high - Pos)
              /\ After(job, high).acc[job.body[s].target] =
                   FoldOver(job.body[s].op, After(job, Pos).acc[job.body[s].target], vals, 0, high - Pos)
      <4>1. \A x \in Pos..(high - 1) : Indexed(x) /\ ~After(job, x).panicked
        BY <2>4
      <4> DEFINE low == Pos
      <4>2. low \in Int /\ low >= job.start /\ low <= high
        BY <1>4, <2>2
      <4> HIDE DEF low
      <4>3. /\ \A s \in Folds(job.body) : \A vals :
                 (\A l \in 0..(high - low - 1) : vals[l] = Turn(low + l, s)) =>
                   /\ Values(vals, 0, high - low)
                   /\ After(job, high).acc[job.body[s].target] =
                        FoldOver(job.body[s].op, After(job, low).acc[job.body[s].target], vals, 0, high - low)
            /\ \A t \in AccNames : Untargeted(t) => After(job, high).acc[t] = After(job, low).acc[t]
        BY <1>2, <2>2, <2>5, <2>6, <4>1, <4>2, AfterFolds DEF low
      <4> QED
        BY <4>3 DEF low
    <3> QED
      BY <1>3, <2>3, <3>1
  <2>9. Total(k, accs', acc, 1, 0) = FoldOver(job.body[k].op, Total(k, accs, acc, 1, 0), vec, 0, Lanes)
    BY <1>2, <1>3, <1>4, <1>5, <1>6, <1>9, VectorTotal
  <2> QED
    BY <2>2, <2>7, <2>8, <2>9 DEF high
<1>11. ASSUME NEW s \in Folds(job.body), Inside(Pos)'
       PROVE  Folded(s)' = After(job, IF s < k' THEN Pos' + Lanes ELSE Pos').acc[job.body[s].target]
  <2>1. Folded(s)' = Total(s, accs', acc, 1, 0)
    BY <1>1, FoldedNext
  <2>2. Inside(Pos)
    BY <1>8, <1>11
  <2>3. CASE s = k
    <3>1. s < k'
      BY <1>1, <1>3, <2>3
    <3> QED
      BY <1>7, <1>10, <2>1, <2>2, <2>3, <3>1
  <2>4. CASE s # k
    <3>1. accs'[s] = accs[s]
      BY <1>1, <1>6, <2>4
    <3>2. Folded(s)' = Total(s, accs, acc, 1, 0)
      BY <2>1, <3>1 DEF Total, LanesOf
    <3>3. Folded(s) = Total(s, accs, acc, 1, 0)
      BY <1>1, FoldedIs DEF Merging
    <3>4. s < k' <=> s < k
      <4>1. s \in Int
        BY <1>2, FoldType
      <4> QED
        BY <1>1, <1>3, <2>4, <4>1
    <3>5. Folded(s) = After(job, IF s < k THEN Pos + Lanes ELSE Pos).acc[job.body[s].target]
      BY <1>1, <2>2 DEF FoldInv
    <3> QED
      BY <1>7, <3>2, <3>3, <3>4, <3>5
  <2> QED
    BY <2>3, <2>4
<1> QED
  BY <1>1, <1>11, FoldInBody

(* What the combining code relies on, and what it leaves alone.            *)
LEMMA CombineFacts ==
  ASSUME Inv, FoldInv, pc = "combine"
  PROVE  /\ JobOK(job) /\ mode = "vector" /\ k \in Int
         /\ i \in job.start..job.limit /\ ~After(job, i).panicked /\ mem = After(job, i).mem /\ copy >= 1
         /\ copy \in 0..Copies /\ lane \in 0..Lanes /\ Copies \in 1..4 /\ Lanes \in Nat
         /\ accs \in [Folds(job.body) -> [Copy -> Vector]] /\ acc \in [AccNames -> Value]
         /\ \A s \in Folds(job.body) : Folded(s) = After(job, i).acc[job.body[s].target] /\ s \in Int
<1>1. JobOK(job) /\ TypeOK /\ mode = "vector"
  BY DEF Inv, ControlInv
<1>2. k \in 1..(Len(job.body) + 1) /\ Len(job.body) \in Nat
  BY <1>1, BodyLength DEF TypeOK
<1>3. /\ i \in job.start..job.limit /\ ~After(job, i).panicked /\ mem = After(job, i).mem /\ copy >= 1
      /\ \A s \in Folds(job.body) : Folded(s) = After(job, i).acc[job.body[s].target]
  BY DEF FoldInv
<1>4. \A s \in Folds(job.body) : s \in Int
  BY <1>1, FoldType
<1>5. /\ copy \in 0..Copies /\ lane \in 0..Lanes
      /\ accs \in [Folds(job.body) -> [Copy -> Vector]] /\ acc \in [AccNames -> Value]
  BY <1>1 DEF TypeOK
<1> QED
  BY <1>1, <1>2, <1>3, <1>4, <1>5, CopiesType, LanesType

(* Merging a copy keeps FoldInv,                                           *)
LEMMA FoldMerge == ASSUME Inv, FoldInv, MergeCopy PROVE FoldInv'
<1>1. /\ job' = job /\ i' = i /\ mem' = mem /\ acc' = acc /\ pc = "combine" /\ pc' = pc /\ k' = k /\ lane' = lane
      /\ k \in Folds(job.body) /\ copy < Copies /\ copy' = copy + 1
      /\ accs' = [accs EXCEPT ![k][0] = [l \in Lane |-> Fold(job.body[k].op, @[l], accs[k][copy][l])]]
  BY DEF MergeCopy, Combining
<1>2. /\ JobOK(job) /\ mode = "vector" /\ k \in Int
      /\ i \in job.start..job.limit /\ ~After(job, i).panicked /\ mem = After(job, i).mem /\ copy >= 1
      /\ copy \in 0..Copies /\ lane \in 0..Lanes /\ Copies \in 1..4 /\ Lanes \in Nat
      /\ accs \in [Folds(job.body) -> [Copy -> Vector]] /\ acc \in [AccNames -> Value]
      /\ \A s \in Folds(job.body) : Folded(s) = After(job, i).acc[job.body[s].target] /\ s \in Int
  BY <1>1, CombineFacts
<1>3. copy \in Int /\ copy \in 1..(Copies - 1) /\ copy' >= 1 /\ 0 \in Copy
  <2>1. copy \in Int
    BY <1>2
  <2> QED
    BY <1>1, <1>2, <2>1 DEF Copy
<1>4. ASSUME NEW s \in Folds(job.body) PROVE Folded(s)' = Folded(s)
  <2>1. /\ Folded(s) = IF s < k THEN acc[job.body[s].target]
                       ELSE Total(s, accs, acc, IF k = s THEN copy ELSE 1, IF k = s THEN lane ELSE 0)
        /\ Folded(s)' = IF s < k THEN acc[job.body[s].target]
                        ELSE Total(s, accs', acc, IF k = s THEN copy + 1 ELSE 1, IF k = s THEN lane ELSE 0)
    BY <1>1, FoldedIs, FoldedNext DEF Merging
  <2>2. CASE s = k
    <3>1. \A c \in Copy, l \in Lane :
            accs'[k][c][l] = IF c = 0 THEN Fold(job.body[k].op, accs[k][0][l], accs[k][copy][l]) ELSE accs[k][c][l]
      <4> TAKE c \in Copy, l \in Lane
      <4>1. CASE c = 0
        BY <1>1, <1>2, <4>1
      <4>2. CASE c # 0
        <5>1. accs'[k][c] = accs[k][c]
          BY <1>1, <1>2, <4>2
        <5> QED
          BY <4>2, <5>1
      <4> QED
        BY <4>1, <4>2
    <3>2. Total(k, accs', acc, copy + 1, lane) = Total(k, accs, acc, copy, lane)
      <4> DEFINE new == accs'
      <4>1. \A c \in Copy, l \in Lane :
              new[k][c][l] = IF c = 0 THEN Fold(job.body[k].op, accs[k][0][l], accs[k][copy][l]) ELSE accs[k][c][l]
        BY <3>1
      <4>2. k \in Folds(job.body)
        BY <1>1
      <4> HIDE DEF new
      <4>3. Total(k, new, acc, copy + 1, lane) = Total(k, accs, acc, copy, lane)
        BY <1>2, <1>3, <4>1, <4>2, MergeTotal
      <4> QED
        BY <4>3 DEF new
    <3>3. ~(s < k)
      BY <1>2, <2>2
    <3> QED
      BY <2>1, <2>2, <3>2, <3>3
  <2>3. CASE s # k
    <3>1. accs'[s] = accs[s]
      BY <1>1, <1>2, <2>3
    <3>2. Total(s, accs', acc, 1, 0) = Total(s, accs, acc, 1, 0)
      BY <3>1 DEF Total, LanesOf
    <3> QED
      BY <2>1, <2>3, <3>2
  <2> QED
    BY <2>2, <2>3
<1> QED
  BY <1>1, <1>2, <1>3, <1>4, FoldAtCombine

(* so does folding a lane,                                                 *)
LEMMA FoldOneLane == ASSUME Inv, FoldInv, FoldLane PROVE FoldInv'
<1>1. /\ job' = job /\ i' = i /\ mem' = mem /\ accs' = accs /\ pc = "combine" /\ pc' = pc /\ k' = k
      /\ k \in Folds(job.body) /\ copy >= Copies /\ lane < Lanes /\ copy' = copy /\ lane' = lane + 1
      /\ acc' = [acc EXCEPT ![job.body[k].target] = Fold(job.body[k].op, @, accs[k][0][lane])]
  BY DEF FoldLane, Combining
<1>2. /\ JobOK(job) /\ mode = "vector" /\ k \in Int
      /\ i \in job.start..job.limit /\ ~After(job, i).panicked /\ mem = After(job, i).mem /\ copy >= 1
      /\ copy \in 0..Copies /\ lane \in 0..Lanes /\ Copies \in 1..4 /\ Lanes \in Nat
      /\ accs \in [Folds(job.body) -> [Copy -> Vector]] /\ acc \in [AccNames -> Value]
      /\ \A s \in Folds(job.body) : Folded(s) = After(job, i).acc[job.body[s].target] /\ s \in Int
  BY <1>1, CombineFacts
<1>3. copy = Copies /\ lane \in 0..(Lanes - 1) /\ copy' >= 1
  BY <1>1, <1>2
<1>4. ASSUME NEW s \in Folds(job.body) PROVE Folded(s)' = Folded(s)
  <2>1. /\ Folded(s) = IF s < k THEN acc[job.body[s].target]
                       ELSE Total(s, accs, acc, IF k = s THEN copy ELSE 1, IF k = s THEN lane ELSE 0)
        /\ Folded(s)' = IF s < k THEN acc'[job.body[s].target]
                        ELSE Total(s, accs, acc', IF k = s THEN copy ELSE 1, IF k = s THEN lane + 1 ELSE 0)
    BY <1>1, FoldedIs, FoldedNext DEF Merging
  <2>2. CASE s = k
    <3>1. Total(k, accs, acc', Copies, lane + 1) = Total(k, accs, acc, Copies, lane)
      BY <1>1, <1>2, <1>3, LaneTotal
    <3>2. ~(s < k)
      BY <1>2, <2>2
    <3> QED
      BY <1>3, <2>1, <2>2, <3>1, <3>2
  <2>3. CASE s # k
    <3>1. job.body[s].target # job.body[k].target
      <4>1. LocalsOK(job.body)
        BY <1>2 DEF Inv, ControlInv, Planned, Lowers
      <4> QED
        BY <1>1, <2>3, <4>1 DEF LocalsOK
    <3>2. job.body[s].target \in AccNames
      BY <1>2, FoldType
    <3>3. acc'[job.body[s].target] = acc[job.body[s].target]
      BY <1>1, <1>2, <3>1, <3>2
    <3>4. Total(s, accs, acc', 1, 0) = Total(s, accs, acc, 1, 0)
      BY <3>3 DEF Total
    <3> QED
      BY <2>1, <2>3, <3>3, <3>4
  <2> QED
    BY <2>2, <2>3
<1> QED
  BY <1>1, <1>2, <1>3, <1>4, FoldAtCombine

(* and going on to the next fold.                                          *)
LEMMA FoldNext == ASSUME Inv, FoldInv, NextFold PROVE FoldInv'
<1>1. /\ job' = job /\ i' = i /\ mem' = mem /\ acc' = acc /\ accs' = accs /\ pc = "combine" /\ pc' = pc
      /\ k' = k + 1 /\ copy' = 1 /\ lane' = 0 /\ (k \in Folds(job.body) => lane = Lanes)
  BY DEF NextFold
<1>2. /\ JobOK(job) /\ mode = "vector" /\ k \in Int
      /\ i \in job.start..job.limit /\ ~After(job, i).panicked /\ mem = After(job, i).mem /\ copy >= 1
      /\ copy \in 0..Copies /\ lane \in 0..Lanes /\ Copies \in 1..4 /\ Lanes \in Nat
      /\ accs \in [Folds(job.body) -> [Copy -> Vector]] /\ acc \in [AccNames -> Value]
      /\ \A s \in Folds(job.body) : Folded(s) = After(job, i).acc[job.body[s].target] /\ s \in Int
  BY <1>1, CombineFacts
<1>3. copy' >= 1
  BY <1>1
<1>4. ASSUME NEW s \in Folds(job.body) PROVE Folded(s)' = Folded(s)
  <2>1. /\ Folded(s) = IF s < k THEN acc[job.body[s].target]
                       ELSE Total(s, accs, acc, IF k = s THEN copy ELSE 1, IF k = s THEN lane ELSE 0)
        /\ Folded(s)' = IF s < k + 1 THEN acc[job.body[s].target] ELSE Total(s, accs, acc, 1, 0)
    BY <1>1, FoldedIs, FoldedNext DEF Merging
  <2>2. CASE s = k
    <3>1. Total(s, accs, acc, copy, Lanes) = acc[job.body[s].target]
      BY <1>2, NoLaneTotal
    <3>2. ~(s < k) /\ s < k + 1 /\ lane = Lanes
      BY <1>1, <1>2, <2>2
    <3> QED
      BY <2>1, <2>2, <3>1, <3>2
  <2>3. CASE s # k
    <3>1. s < k + 1 <=> s < k
      BY <1>2, <2>3
    <3> QED
      BY <2>1, <2>3, <3>1
  <2> QED
    BY <2>2, <2>3
<1> QED
  BY <1>1, <1>2, <1>3, <1>4, FoldAtCombine

(* A step that changes nothing keeps it.                                   *)
LEMMA FoldSame == ASSUME FoldInv, UNCHANGED vars PROVE FoldInv'
<1>1. /\ job' = job /\ pc' = pc /\ i' = i /\ mem' = mem /\ acc' = acc /\ accs' = accs /\ k' = k /\ copy' = copy
      /\ lane' = lane
  BY DEF vars
<1>2. Pos' = Pos
  BY <1>1 DEF Pos
<1>3. Inside(Pos)' = Inside(Pos)
  BY <1>1, <1>2, InsideSame
<1>4. ASSUME NEW s PROVE Folded(s)' = Folded(s)
  BY <1>1, FoldedIs, FoldedNext DEF Merging
<1> QED
  BY <1>1, <1>2, <1>3, <1>4 DEF FoldInv

(* Every step keeps FoldInv.                                               *)
LEMMA FoldStep ==
  ASSUME Inv, ShortInv, HeldInv, StartInv, LaneInv, ScalarPrefix, FreshInv, FoldInv, [Next]_vars
  PROVE  FoldInv'
<1>1. CASE UNCHANGED vars
  BY <1>1, FoldSame
<1>2. CASE Hoist \/ OverlapCheck \/ LengthCheck \/ CopyCall
  <2>1. pc' \notin {"main", "combine", "load", "statement"}
    BY <1>2 DEF Hoist, OverlapCheck, LengthCheck, CopyCall, Stop, Goto, LoopLabel
  <2> QED
    BY <2>1, FoldElsewhere, SMTT(30)
<1>3. CASE VectorPanic \/ Remainder \/ ScalarBegin \/ ScalarStatement \/ ScalarAdvance
  <2>1. CASE VectorPanic \/ Remainder \/ ScalarBegin \/ ScalarAdvance
    <3>1. pc' \notin {"main", "combine", "load", "statement"}
      BY <2>1 DEF VectorPanic, Remainder, ScalarBegin, ScalarAdvance, Stop, Goto
    <3> QED
      BY <3>1, FoldElsewhere
  <2>2. CASE ScalarStatement
    <3>1. pc' \notin {"main", "combine", "load", "statement"}
      BY <2>2 DEF ScalarStatement, Stop, Goto
    <3> QED
      BY <3>1, FoldElsewhere
  <2> QED
    BY <1>3, <2>1, <2>2
<1>4. CASE ChunkTest
  <2>1. job' = job /\ pc' \in {"load", "done"} /\ Folds(job.body) = {}
    BY <1>4 DEF ChunkTest, StartBody, Stop, Goto, Inv, ControlInv, Full
  <2>2. CASE pc' = "load"
    BY <2>1, <2>2, FoldInBody
  <2>3. CASE pc' = "done"
    BY <2>3, FoldElsewhere
  <2> QED
    BY <2>1, <2>2, <2>3
<1>5. CASE CountTest
  BY <1>5, FoldCount
<1>6. CASE MainTest \/ SingleTest
  BY <1>6, FoldTest
<1>7. CASE LoadAhead \/ VectorLet \/ VectorStore
  BY <1>7, FoldOther
<1>8. CASE VectorFold
  BY <1>8, FoldVector
<1>9. CASE NextCopy \/ Advance
  BY <1>9, FoldEnd
<1>10. CASE MergeCopy
  BY <1>10, FoldMerge
<1>11. CASE FoldLane
  BY <1>11, FoldOneLane
<1>12. CASE NextFold
  BY <1>12, FoldNext
<1> QED
  BY <1>1, <1>2, <1>3, <1>4, <1>5, <1>6, <1>7, <1>8, <1>9, <1>10, <1>11, <1>12 DEF Next, Terminated

(* Every index below _i is folded exactly once, into a lane of a copy of   *)
(* an accumulator or into the accumulator itself, however many copies and  *)
(* lanes there are and however long the vector loop runs.                  *)
THEOREM FoldedExactlyOnce == Spec => []FoldedOnce
<1>1. Init => FreshInv /\ FoldInv
  BY DEF Init, FreshInv, FoldInv
<1>2. Init => ShortInv /\ HeldInv /\ StartInv /\ LaneInv /\ ScalarPrefix
  BY DEF Init, ShortInv, HeldInv, StartInv, LaneInv, ScalarPrefix
<1>3. /\ Inv /\ ShortInv /\ HeldInv /\ StartInv /\ LaneInv /\ ScalarPrefix /\ FreshInv /\ FoldInv /\ [Next]_vars
      => (ShortInv /\ HeldInv /\ StartInv /\ LaneInv /\ ScalarPrefix /\ FreshInv /\ FoldInv)'
  BY ShortStep, HeldStep, StartStep, LaneStep, PrefixStep, FreshStep, FoldStep
<1>4. Inv /\ FoldInv => FoldedOnce
  <2> SUFFICES ASSUME Inv, FoldInv, mode = "vector", pc \in {"main", "combine"}, NEW s \in Folds(job.body)
               PROVE  Folded(s) = Prefix.acc[job.body[s].target]
    BY DEF FoldedOnce
  <2>1. /\ i \in job.start..job.limit /\ Folded(s) = After(job, i).acc[job.body[s].target]
    BY DEF FoldInv
  <2>2. JobOK(job) /\ job.start \in Int /\ job.limit \in Int /\ i \in Int /\ i >= job.start /\ i <= job.limit
    BY <2>1, HeaderType DEF Inv
  <2>3. Prefix = After(job, IF i < job.limit THEN i ELSE IF job.start < job.limit THEN job.limit ELSE job.start)
    BY <2>2, PrefixIs DEF Prefix
  <2> QED
    BY <2>1, <2>2, <2>3
<1> QED
  BY <1>1, <1>2, <1>3, <1>4, Invariance, PTL DEF Spec

-----------------------------------------------------------------------------
(***************************************************************************)
(* The scalar remainder.                                                   *)
(***************************************************************************)

(* A statement does the same in two states that differ at most in the      *)
(* temporaries not yet defined.                                            *)
LEMMA ExecSame ==
  ASSUME JobOK(job), LocalsOK(job.body), NEW x \in Int, InBody(x), NEW s \in DOMAIN job.body,
         NEW st1 \in State, NEW st2 \in State,
         st1.mem = st2.mem, st1.acc = st2.acc, st1.value = st2.value,
         \A t \in TempNames : DefinedBefore(job.body, s, t) => st1.locals[t] = st2.locals[t]
  PROVE  LET n1 == ExecStatement(job, job.body[s], x, st1)
             n2 == ExecStatement(job, job.body[s], x, st2)
         IN  /\ n1.mem = n2.mem /\ n1.acc = n2.acc /\ n1.value = n2.value
             /\ n1.panicked = st1.panicked /\ n2.panicked = st2.panicked
             /\ n1 \in State /\ n2 \in State
             /\ \A t \in TempNames : DefinedBefore(job.body, s + 1, t) => n1.locals[t] = n2.locals[t]
<1> DEFINE stmt == job.body[s]
           n1 == ExecStatement(job, stmt, x, st1)
           n2 == ExecStatement(job, stmt, x, st2)
<1>1. s \in Int /\ (s - 1) + 1 = s /\ stmt \in Statement
  BY BodyLength, BodyType
<1>2. AgreeAt(x, st1, st2, s - 1)
  BY <1>1 DEF AgreeAt, SameElements
<1>3. Assigned(job, stmt, x, st1) = Assigned(job, stmt, x, st2)
  BY <1>2, AssignedSame
<1>4. AgreeAt(x, n1, n2, s)
  BY <1>2, AgreeNext
<1>5. n1 \in State /\ n2 \in State
  BY ExecState
<1>6. /\ n1.panicked = st1.panicked /\ n2.panicked = st2.panicked
      /\ stmt.kind = "store" => /\ n1.mem[ElementAddr(job, stmt.target, x)] = Assigned(job, stmt, x, st1)
                                /\ n2.mem[ElementAddr(job, stmt.target, x)] = Assigned(job, stmt, x, st2)
  BY ExecAssigns
<1>7. /\ \A a \in Addr : (stmt.kind = "store" => a # ElementAddr(job, stmt.target, x)) => n1.mem[a] = st1.mem[a]
      /\ \A a \in Addr : (stmt.kind = "store" => a # ElementAddr(job, stmt.target, x)) => n2.mem[a] = st2.mem[a]
  BY KeepsElements
<1>8. n1.acc = n2.acc
  <2>1. CASE stmt.kind # "reduce"
    <3>1. n1.acc = st1.acc /\ n2.acc = st2.acc
      BY <2>1, ExecFold
    <3> QED
      BY <3>1
  <2>2. CASE stmt.kind = "reduce"
    <3>1. /\ n1.acc = [st1.acc EXCEPT ![stmt.target] = Fold(stmt.op, st1.acc[stmt.target], Assigned(job, stmt, x, st1))]
          /\ n2.acc = [st2.acc EXCEPT ![stmt.target] = Fold(stmt.op, st2.acc[stmt.target], Assigned(job, stmt, x, st2))]
      BY <2>2, ExecFold
    <3> HIDE DEF n1, n2, stmt
    <3> QED
      BY <1>3, <3>1
  <2> QED
    BY <2>1, <2>2
<1> HIDE DEF n1, n2, stmt
<1>9. n1.mem = n2.mem
  <2>1. n1.mem \in [Addr -> Value] /\ n2.mem \in [Addr -> Value]
    BY <1>5 DEF State
  <2>2. ASSUME NEW a \in Addr PROVE n1.mem[a] = n2.mem[a]
    BY <1>3, <1>6, <1>7
  <2> QED
    BY <2>1, <2>2
<1>10. n1.value = n2.value /\ \A t \in TempNames : DefinedBefore(job.body, s + 1, t) => n1.locals[t] = n2.locals[t]
  BY <1>4 DEF AgreeAt
<1> QED
  BY <1>5, <1>6, <1>8, <1>9, <1>10 DEF n1, n2, stmt

(* What has to hold when the scalar loop is between two iterations.        *)
LEMMA RestAt ==
  ASSUME job' = job, pc' = "begin", Planned(job), ~SomeOverlap,
         i' >= job.start, i' <= job.limit \/ i' = job.start,
         ~After(job, i').panicked, mem' = After(job, i').mem, acc' = After(job, i').acc
  PROVE  RestInv'
<1>1. SomeOverlap' = SomeOverlap
  BY JobOnly
<1> QED
  BY <1>1 DEF RestInv

(* It starts where the vector loop stopped,                                *)
LEMMA RestCount == ASSUME Inv, StartInv, FreshInv, CountTest, mode' = "rest" PROVE RestInv'
<1>1. job' = job /\ pc = "count" /\ i' = i /\ acc' = acc /\ mem' = mem
  BY DEF CountTest
<1>2. JobOK(job) /\ mode = "vector" /\ Planned(job) /\ ~SomeOverlap
  BY <1>1 DEF Inv, ControlInv, ApartInv
<1>3. pc' = "begin"
  BY <1>2 DEF CountTest, Goto
<1>4. i = job.start /\ mem = Mem0 /\ acc = Acc0
  BY <1>1, <1>2 DEF StartInv, FreshInv
<1>5. job.start \in Int /\ job.limit \in Int /\ After(job, job.start) = InitialState
  BY <1>2, HeaderType, RunIs
<1> QED
  BY <1>1, <1>2, <1>3, <1>4, <1>5, RestAt DEF InitialState

(* After the vector loop the accumulators hold what was folded.            *)
LEMMA RestRemainder == ASSUME Inv, FreshInv, FoldInv, Remainder PROVE RestInv'
<1>1. /\ job' = job /\ i' = i /\ mem' = mem /\ acc' = acc /\ pc = "combine" /\ pc' = "begin"
      /\ k > Len(job.body)
  BY DEF Remainder, Goto
<1>2. /\ JobOK(job) /\ mode = "vector" /\ k \in Int
      /\ i \in job.start..job.limit /\ ~After(job, i).panicked /\ mem = After(job, i).mem /\ copy >= 1
      /\ copy \in 0..Copies /\ lane \in 0..Lanes /\ Copies \in 1..4 /\ Lanes \in Nat
      /\ accs \in [Folds(job.body) -> [Copy -> Vector]] /\ acc \in [AccNames -> Value]
      /\ \A s \in Folds(job.body) : Folded(s) = After(job, i).acc[job.body[s].target] /\ s \in Int
  BY <1>1, CombineFacts
<1>3. Planned(job) /\ ~SomeOverlap /\ Lowers(job) /\ LocalsOK(job.body)
  BY <1>1, <1>2 DEF Inv, ControlInv, ApartInv, Planned, Lowers
<1>4. job.start \in Int /\ job.limit \in Int /\ i \in Int /\ i >= job.start /\ i <= job.limit
  BY <1>2, HeaderType
<1>5. /\ After(job, i) \in State /\ After(job, job.start) = InitialState /\ InitialState \in State
      /\ InitialState.acc = Acc0
  BY <1>2, <1>4, RunIs, ValueAssumption DEF InitialState, State
<1>6. ASSUME NEW t \in AccNames PROVE acc[t] = After(job, i).acc[t]
  <2>1. CASE Untargeted(t)
    <3>1. \A x \in job.start..(i - 1) : Indexed(x) /\ ~After(job, x).panicked
      BY <1>2, <1>3, <1>4, ReachedIndexed
    <3>2. After(job, i).acc[t] = After(job, job.start).acc[t]
      BY <1>2, <1>3, <1>4, <1>5, <2>1, <3>1, AfterFolds
    <3>3. acc[t] = Acc0[t]
      BY <1>1, <1>2, <2>1 DEF FreshInv, Kept
    <3> QED
      BY <1>5, <3>2, <3>3
  <2>2. CASE ~Untargeted(t)
    <3>1. PICK s \in Folds(job.body) : job.body[s].target = t
      BY <2>2 DEF Untargeted
    <3>2. s \in Int /\ s <= Len(job.body) /\ Len(job.body) \in Nat
      BY <1>2, FoldType, BodyLength
    <3>3. s < k
      BY <1>1, <1>2, <3>2
    <3>4. Folded(s) = acc[t]
      BY <1>1, <3>1, <3>3, FoldedIs
    <3> QED
      BY <1>2, <3>1, <3>4
  <2> QED
    BY <2>1, <2>2
<1>7. acc = After(job, i).acc
  <2>1. After(job, i).acc \in [AccNames -> Value]
    BY <1>5 DEF State
  <2> QED
    BY <1>2, <1>6, <2>1
<1> QED
  BY <1>1, <1>2, <1>3, <1>4, <1>7, RestAt

(* and goes on as the source loop does.                                    *)
LEMMA RestBegin == ASSUME Inv, RestInv, mode = "rest", ScalarBegin PROVE RestInv'
<1>1. job' = job /\ mode' = mode /\ i' = i /\ mem' = mem /\ acc' = acc /\ pc = "begin" /\ locals' = locals
  BY DEF ScalarBegin, Stop, scalarVars
<1>2. /\ JobOK(job) /\ Planned(job) /\ ~SomeOverlap /\ i >= job.start /\ (i <= job.limit \/ i = job.start)
      /\ ~After(job, i).panicked /\ mem = After(job, i).mem /\ acc = After(job, i).acc /\ i \in Int
  BY <1>1 DEF RestInv, Inv, TypeOK
<1>3. SomeOverlap' = SomeOverlap
  BY <1>1, JobOnly
<1>4. CASE MoreIterations
  <2>1. pc' = "scalar" /\ k' = 1 /\ value' = RangeValue(job, i, mem) /\ i < job.limit
    BY <1>4 DEF ScalarBegin, Goto, MoreIterations, Step
  <2>2. i \in job.start..(job.limit - 1) /\ k' - 1 = 0
    BY <1>2, <2>1, HeaderType
  <2>3. During(job, i, 0) = [After(job, i) EXCEPT !.value = RangeValue(job, i, mem)] /\ After(job, i) \in State
    BY <1>2, <2>2, DuringIs
  <2>4. LET st == During(job, i, 0)
        IN  ~st.panicked /\ mem = st.mem /\ acc = st.acc /\ value' = st.value
    BY <1>2, <2>1, <2>3 DEF State
  <2>5. \A t \in TempNames : ~DefinedBefore(job.body, 1, t)
    BY DEF DefinedBefore
  <2>6. \A p \in 1..0 : StatementIn(p, i)
    OBVIOUS
  <2>7. InBody(i)' <=> InBody(i)
    BY <1>1 DEF InBody
  <2> QED
    BY <1>1, <1>2, <1>3, <2>1, <2>2, <2>4, <2>5, <2>6, <2>7 DEF RestInv
<1>5. CASE ~MoreIterations
  <2>1. pc' = "done"
    BY <1>5 DEF ScalarBegin, Stop, Goto
  <2> QED
    BY <1>1, <1>2, <1>3, <2>1 DEF RestInv
<1> QED
  BY <1>4, <1>5

(* A statement of the remainder does what that of the source does.         *)
LEMMA RestStatement == ASSUME Inv, RestInv, mode = "rest", ScalarStatement PROVE RestInv'
<1> DEFINE next == ExecStatement(job, job.body[k], i, Now)
           before == During(job, i, k - 1)
<1>1. job' = job /\ mode' = mode /\ i' = i /\ pc = "scalar" /\ k <= Len(job.body)
  BY DEF ScalarStatement, Stop
<1>2. /\ JobOK(job) /\ Planned(job) /\ ~SomeOverlap /\ i >= job.start /\ (i <= job.limit \/ i = job.start)
      /\ i < job.limit /\ ~After(job, i).panicked /\ i \in Int /\ TypeOK
  BY <1>1 DEF RestInv, Inv, TypeOK
<1>3. /\ InBody(i) =>
           /\ ~before.panicked /\ mem = before.mem /\ acc = before.acc /\ value = before.value
           /\ \A t \in TempNames : DefinedBefore(job.body, k, t) => locals[t] = before.locals[t]
      /\ ~InBody(i) => \A p \in 1..(k - 1) : StatementIn(p, i)
  BY <1>1 DEF RestInv
<1>4. k \in DOMAIN job.body /\ k \in Int /\ k \in 1..Len(job.body) /\ k - 1 \in 0..Len(job.body)
      /\ (k + 1) - 1 = k
  BY <1>1, <1>2, BodyLength DEF TypeOK
<1>5. i \in job.start..(job.limit - 1)
  BY <1>2, HeaderType
<1>6. SomeOverlap' = SomeOverlap /\ (InBody(i)' <=> InBody(i))
  BY <1>1, JobOnly DEF InBody
<1>7. Now \in State /\ Now.mem = mem /\ Now.acc = acc /\ Now.value = value /\ Now.locals = locals
      /\ Now.panicked = FALSE
  BY <1>2 DEF Now, State, TypeOK
<1> HIDE DEF next, before
<1>8. CASE next.panicked
  <2>1. pc' = "panic"
    BY <1>8 DEF ScalarStatement, Stop, Goto, next
  <2> QED
    BY <1>1, <1>2, <1>6, <2>1 DEF RestInv
<1>9. CASE ~next.panicked
  <2>1. pc' = pc /\ mem' = next.mem /\ acc' = next.acc /\ locals' = next.locals /\ value' = value /\ k' = k + 1
    BY <1>9 DEF ScalarStatement, next
  <2>2. ASSUME InBody(i)
        PROVE  LET st == During(job, i, k)
               IN  /\ ~st.panicked /\ next.mem = st.mem /\ next.acc = st.acc /\ value = st.value
                   /\ \A t \in TempNames : DefinedBefore(job.body, k + 1, t) => next.locals[t] = st.locals[t]
    <3>1. before \in State /\ During(job, i, k) = ExecStatement(job, job.body[k], i, before)
      <4>1. before \in State /\ During(job, i, k) = IF before.panicked THEN before
                                                  ELSE ExecStatement(job, job.body[k], i, before)
        BY <1>2, <1>4, <1>5, DuringIs DEF before
      <4> QED
        BY <1>3, <2>2, <4>1
    <3>2. LocalsOK(job.body)
      BY <1>2 DEF Planned, Lowers
    <3>3. /\ Now.mem = before.mem /\ Now.acc = before.acc /\ Now.value = before.value /\ ~before.panicked
          /\ \A t \in TempNames : DefinedBefore(job.body, k, t) => Now.locals[t] = before.locals[t]
      BY <1>3, <1>7, <2>2
    <3> DEFINE after == ExecStatement(job, job.body[k], i, before)
               now == Now
    <3> HIDE DEF now
    <3>4. /\ next.mem = after.mem /\ next.acc = after.acc /\ next.value = after.value
          /\ next.panicked = now.panicked /\ after.panicked = before.panicked
          /\ next \in State /\ after \in State
          /\ \A t \in TempNames : DefinedBefore(job.body, k + 1, t) => next.locals[t] = after.locals[t]
      <4>1. /\ now.mem = before.mem /\ now.acc = before.acc /\ now.value = before.value /\ now \in State
            /\ \A t \in TempNames : DefinedBefore(job.body, k, t) => now.locals[t] = before.locals[t]
        BY <1>7, <3>3 DEF now
      <4>2. next = ExecStatement(job, job.body[k], i, now)
        BY DEF next, now
      <4> QED
        BY <1>2, <1>4, <2>2, <3>1, <3>2, <4>1, <4>2, ExecSame
    <3>5. next.value = value
      BY <1>2, <1>4, <1>7, KeepsValue DEF next
    <3> HIDE DEF after
    <3> QED
      BY <3>1, <3>3, <3>4, <3>5 DEF after
  <2>3. ASSUME ~InBody(i) PROVE \A p \in 1..k : StatementIn(p, i)
    <3>1. ~StatementPanics(job, job.body[k], i, ScalarReads(job, job.body[k], i, mem, value), locals)
      BY <1>7, <1>9 DEF next, ExecStatement
    <3>2. SelectsSafe(job.body[k])
      BY <1>2, <1>4 DEF Planned, Lowers
    <3>3. StatementIn(k, i)
      BY <1>2, <1>4, <1>5, <3>1, <3>2, PanicFree
    <3> QED
      BY <1>3, <1>4, <2>3, <3>3
  <2>4. pc' = "scalar" /\ k' = k + 1 /\ k' - 1 = k /\ value' = value
    BY <1>1, <1>4, <2>1
  <2>5. ASSUME InBody(i)'
        PROVE  LET st == During(job, i, k)
               IN  /\ ~st.panicked /\ mem' = st.mem /\ acc' = st.acc /\ value' = st.value
                   /\ \A t \in TempNames : DefinedBefore(job.body, k', t) => locals'[t] = st.locals[t]
    BY <1>6, <2>1, <2>2, <2>4, <2>5
  <2>6. ASSUME ~InBody(i)' PROVE \A p \in 1..k : StatementIn(p, i)'
    BY <1>1, <1>6, <2>3, <2>6 DEF StatementIn
  <2> QED
    BY <1>1, <1>2, <1>6, <2>4, <2>5, <2>6 DEF RestInv
<1> QED
  BY <1>8, <1>9

(* At the end of the body every statement was inside its slices.           *)
LEMMA RestInside ==
  ASSUME Inv, RestInv, mode = "rest", pc = "scalar", k > Len(job.body)
  PROVE  InBody(i)
<1>1. JobOK(job) /\ i \in Int /\ k \in Int /\ Len(job.body) \in Nat /\ DOMAIN job.body = 1..Len(job.body)
  BY BodyLength DEF Inv, TypeOK
<1>2. ~InBody(i) => \A p \in 1..(k - 1) : StatementIn(p, i)
  BY DEF RestInv
<1> SUFFICES ASSUME ~InBody(i) PROVE FALSE
  OBVIOUS
<1>3. \A p \in DOMAIN job.body : StatementIn(p, i)
  BY <1>1, <1>2
<1> QED
  BY <1>1, <1>3, StatementsIn

(* The end of an iteration of the remainder is one of the source.          *)
LEMMA RestAdvance == ASSUME Inv, RestInv, mode = "rest", ScalarAdvance PROVE RestInv'
<1>1. /\ job' = job /\ mode' = mode /\ i' = i + 1 /\ pc = "scalar" /\ k > Len(job.body) /\ pc' = "begin"
      /\ mem' = mem /\ acc' = acc
  BY DEF ScalarAdvance, Step, Goto
<1>2. /\ JobOK(job) /\ Planned(job) /\ ~SomeOverlap /\ i >= job.start /\ i < job.limit
      /\ ~After(job, i).panicked /\ i \in Int /\ k \in 1..(Len(job.body) + 1) /\ Len(job.body) \in Nat
  BY <1>1, BodyLength DEF RestInv, Inv, TypeOK
<1>3. k - 1 = Len(job.body) /\ i \in job.start..(job.limit - 1) /\ job.start \in Int /\ job.limit \in Int
  BY <1>1, <1>2, HeaderType
<1>4. InBody(i)
  BY <1>1, RestInside
<1>5. LET st == During(job, i, k - 1) IN ~st.panicked /\ mem = st.mem /\ acc = st.acc
  BY <1>1, <1>4 DEF RestInv
<1>6. After(job, i + 1) = During(job, i, k - 1)
  BY <1>2, <1>3, RunIs
<1>7. i' >= job.start /\ i' <= job.limit
  BY <1>1, <1>2, <1>3
<1> QED
  BY <1>1, <1>2, <1>5, <1>6, <1>7, RestAt

(* Every step keeps RestInv.                                               *)
LEMMA RestStep == ASSUME Inv, StartInv, FreshInv, FoldInv, RestInv, [Next]_vars PROVE RestInv'
<1> SUFFICES ASSUME mode' = "rest" PROVE RestInv'
  BY DEF RestInv
<1>1. CASE UNCHANGED vars
  <2>1. /\ job' = job /\ mode' = mode /\ pc' = pc /\ i' = i /\ mem' = mem /\ acc' = acc /\ k' = k
        /\ value' = value /\ locals' = locals
    BY <1>1 DEF vars
  <2>2. SomeOverlap' = SomeOverlap /\ (InBody(i)' <=> InBody(i))
    BY <2>1, JobOnly DEF InBody
  <2> QED
    BY <2>1, <2>2 DEF RestInv, StatementIn
<1>2. CASE mode = "vector"
  <2>1. CASE CountTest
    BY <2>1, RestCount
  <2>2. CASE Remainder
    BY <2>2, RestRemainder
  <2>3. CASE Hoist \/ OverlapCheck \/ LengthCheck \/ CopyCall \/ ChunkTest \/ MainTest \/ SingleTest
    BY <1>2, <2>3 DEF Hoist, OverlapCheck, LengthCheck, CopyCall, ChunkTest, MainTest, SingleTest, Stop
  <2>4. CASE LoadAhead \/ VectorLet \/ VectorFold \/ VectorStore \/ VectorPanic \/ NextCopy \/ Advance
    BY <1>2, <2>4 DEF LoadAhead, VectorLet, VectorFold, VectorStore, VectorPanic, NextCopy, Advance, Stop
  <2>5. CASE MergeCopy \/ FoldLane \/ NextFold
    BY <1>2, <2>5 DEF MergeCopy, FoldLane, NextFold
  <2>6. CASE ScalarBegin \/ ScalarStatement \/ ScalarAdvance
    BY <1>2, <2>6 DEF ScalarBegin, ScalarStatement, ScalarAdvance, Inv, ControlInv
  <2> QED
    BY <1>1, <2>1, <2>2, <2>3, <2>4, <2>5, <2>6 DEF Next, Terminated
<1>3. CASE mode # "vector"
  <2>1. pc \in {"begin", "scalar", "done", "panic"}
    BY <1>3, SMTT(30) DEF Inv, ControlInv
  <2>2. ScalarBegin \/ ScalarStatement \/ ScalarAdvance \/ UNCHANGED vars
    BY <2>1 DEF Next, Terminated, Hoist, OverlapCheck, LengthCheck, CopyCall, ChunkTest, CountTest, MainTest,
       SingleTest, LoadAhead, VectorLet, VectorFold, VectorStore, VectorPanic, NextCopy, Advance, Running,
       MergeCopy, FoldLane, NextFold, Remainder, Combining
  <2>3. ScalarBegin \/ ScalarStatement \/ ScalarAdvance => mode = "rest"
    BY DEF ScalarBegin, ScalarStatement, ScalarAdvance, Stop
  <2> QED
    BY <1>1, <2>2, <2>3, RestBegin, RestStatement, RestAdvance
<1> QED
  BY <1>2, <1>3

-----------------------------------------------------------------------------
(***************************************************************************)
(* The loop as the source wrote it, run where nothing was rewritten or the *)
(* overlap check fell back to it, is the source loop state by state.       *)
(***************************************************************************)

(* Now is a state of the source loop.                                      *)
LEMMA NowIs ==
  ASSUME TypeOK
  PROVE  /\ Now \in State /\ Now.mem = mem /\ Now.acc = acc /\ Now.value = value
         /\ Now.locals = locals /\ Now.panicked = FALSE
BY DEF Now, State, TypeOK

(* How far the loop is, and which iterations remain.                       *)
LEMMA DoneIs ==
  ASSUME JobOK(job), i \in Int, Done \in 0..Iterations(job)
  PROVE  /\ job.step \in {-1, 1} /\ Done \in Int /\ Iterations(job) \in Nat
         /\ job.start \in Int /\ job.limit \in Int
         /\ (IF job.step = 1 THEN i < job.limit ELSE i >= job.start) <=> Done < Iterations(job)
         /\ Done < Iterations(job) =>
              /\ Done + 1 \in 1..Iterations(job) /\ IndexAt(job, job.step, Done + 1) = i
              /\ i \in job.start..(job.limit - 1)
<1>1. job.step \in {-1, 1} /\ job.start \in Int /\ job.limit \in Int
  BY DEF JobOK, HeaderOK
<1> QED
  BY <1>1 DEF Done, Iterations, IndexAt

(* It starts at the first iteration of the source loop.                    *)
LEMMA FirstDoneIs ==
  ASSUME JobOK(job), i = FirstIndex(job)
  PROVE  Done = 0 /\ Iterations(job) \in Nat /\ i \in Int
<1>1. job.step \in {-1, 1} /\ job.start \in Int /\ job.limit \in Int
  BY DEF JobOK, HeaderOK
<1> QED
  BY <1>1 DEF Done, Iterations, IndexAt, FirstIndex

(* A loop that is not rewritten starts as the source loop does.            *)
LEMMA OriginalInit == ASSUME Init PROVE OriginalInv
<1> SUFFICES ASSUME mode = "original" PROVE OriginalInv
  BY DEF OriginalInv
<1>1. JobOK(job) /\ i = FirstIndex(job) /\ pc = "begin"
  BY JobsAssumption DEF Init
<1>2. Now = InitialState
  BY DEF Init, Now, InitialState
<1>3. Run(job, job.step)[0] = InitialState
  BY <1>1, RunStates DEF JobOK, HeaderOK
<1> QED
  BY <1>1, <1>2, <1>3, FirstDoneIs DEF OriginalInv

(* The overlap check falls back before anything was done.                  *)
LEMMA OriginalFallback == ASSUME Inv, StartInv, FreshInv, OverlapCheck, mode = "vector" PROVE OriginalInv'
<1> SUFFICES ASSUME mode' = "original" PROVE OriginalInv'
  BY DEF OriginalInv
<1>1. job' = job /\ i' = FirstIndex(job) /\ pc' = "begin" /\ mem' = mem /\ acc' = acc
      /\ locals' = locals /\ value' = value /\ pc = "overlap"
  BY DEF OverlapCheck, Stop, Goto, scalarVars
<1>2. mem = Mem0 /\ acc = Acc0 /\ locals = [t \in TempNames |-> Zero] /\ value = Zero
  BY <1>1 DEF StartInv, FreshInv
<1>3. JobOK(job)
  BY DEF Inv
<1>4. Now' = InitialState
  BY <1>1, <1>2 DEF Now, InitialState
<1>5. Run(job, job.step)[0] = InitialState
  BY <1>3, RunStates DEF JobOK, HeaderOK
<1>6. Done' = 0 /\ Iterations(job) \in Nat
  <2>1. job.step \in {-1, 1} /\ job.start \in Int /\ job.limit \in Int
    BY <1>3 DEF JobOK, HeaderOK
  <2> QED
    BY <1>1, <2>1 DEF Done, Iterations, IndexAt, FirstIndex
<1> QED
  BY <1>1, <1>4, <1>5, <1>6 DEF OriginalInv

(* An iteration begins as that of the source,                              *)
LEMMA OriginalBegin == ASSUME Inv, OriginalInv, mode = "original", ScalarBegin PROVE OriginalInv'
<1>1. job' = job /\ mode' = mode /\ i' = i /\ mem' = mem /\ acc' = acc /\ pc = "begin" /\ locals' = locals
  BY DEF ScalarBegin, Stop, scalarVars
<1>2. JobOK(job) /\ TypeOK /\ i \in Int /\ Done \in 0..Iterations(job) /\ Run(job, job.step)[Done] = Now
  BY <1>1 DEF OriginalInv, Inv, TypeOK
<1>3. Done' = Done
  BY <1>1 DEF Done
<1>4. CASE MoreIterations
  <2>1. pc' = "scalar" /\ k' = 1 /\ value' = RangeValue(job, i, mem) /\ RangeValue(job, i, mem) \in Value
    BY <1>4, RangeValueType DEF ScalarBegin, Goto
  <2>2. Done < Iterations(job)
    BY <1>2, <1>4, DoneIs DEF MoreIterations, Step
  <2>3. Now \in State /\ Now.mem = mem /\ ~Now.panicked
    BY <1>2, NowIs
  <2>4. BodyRun(job, i, Now)[0] = [Now EXCEPT !.value = RangeValue(job, i, mem)]
    BY <1>2, <2>1, <2>3, BodyRunIs
  <2>5. Now' = [Now EXCEPT !.value = RangeValue(job, i, mem)]
    <3> DEFINE new == RangeValue(job, i, mem)
    <3>1. value' = new
      BY <2>1
    <3> HIDE DEF new
    <3>2. Now' = [Now EXCEPT !.value = new]
      <4> DEFINE cur == [Now EXCEPT !.value = new]
      <4>1. /\ cur \in State /\ cur.mem = mem /\ cur.acc = acc /\ cur.locals = locals
            /\ cur.value = new /\ cur.panicked = FALSE
        <5>1. new \in Value
          BY <2>1 DEF new
        <5>2. /\ Now \in State /\ Now.mem = mem /\ Now.acc = acc
              /\ Now.locals = locals /\ Now.panicked = FALSE
          BY <1>2, NowIs
        <5> QED
          BY <5>1, <5>2 DEF State
      <4> HIDE DEF cur
      <4>2. Now' = cur
        BY <1>1, <3>1, <4>1 DEF Now, State
      <4> QED
        BY <4>2 DEF cur
    <3> QED
      BY <3>2 DEF new
  <2>6. k' - 1 = 0
    BY <2>1
  <2> QED
    BY <1>1, <1>2, <1>3, <2>1, <2>2, <2>3, <2>4, <2>5, <2>6 DEF OriginalInv
<1>5. CASE ~MoreIterations
  BY <1>5 DEF ScalarBegin, Stop, Goto, OriginalInv
<1> QED
  BY <1>4, <1>5

(* each of its statements does what that of the source does,               *)
LEMMA OriginalStatement == ASSUME Inv, OriginalInv, mode = "original", ScalarStatement PROVE OriginalInv'
<1> DEFINE next == ExecStatement(job, job.body[k], i, Now)
           st == Run(job, job.step)[Done]
<1>1. job' = job /\ mode' = mode /\ i' = i /\ pc = "scalar" /\ k <= Len(job.body)
  BY DEF ScalarStatement, Stop
<1>2. /\ JobOK(job) /\ TypeOK /\ i \in Int /\ Done \in 0..Iterations(job) /\ Done < Iterations(job)
      /\ ~st.panicked /\ BodyRun(job, i, st)[k - 1] = Now
  BY <1>1 DEF OriginalInv, Inv, TypeOK
<1>3. k \in DOMAIN job.body /\ k \in Int /\ k \in 1..Len(job.body) /\ (k + 1) - 1 = k
  BY <1>1, <1>2, BodyLength DEF TypeOK
<1>4. Done' = Done
  BY <1>1 DEF Done
<1>5. CASE next.panicked
  BY <1>5 DEF ScalarStatement, Stop, Goto, OriginalInv
<1>6. CASE ~next.panicked
  <2>1. pc' = pc /\ mem' = next.mem /\ acc' = next.acc /\ locals' = next.locals /\ value' = value /\ k' = k + 1
    BY <1>6 DEF ScalarStatement
  <2>2. st \in State /\ RangeValue(job, i, st.mem) \in Value
    <3>1. st \in State /\ i \in job.start..(job.limit - 1)
      BY <1>2, DoneIs, RunStates
    <3> QED
      BY <1>2, <3>1, RangeValueIn DEF State
  <2>3. Now \in State /\ Now.value = value /\ ~Now.panicked
    BY <1>2, NowIs
  <2>4. BodyRun(job, i, st)[k] = next
    <3> HIDE DEF st
    <3>1. \A q \in 1..Len(job.body) :
            BodyRun(job, i, st)[q] = IF BodyRun(job, i, st)[q - 1].panicked THEN BodyRun(job, i, st)[q - 1]
                                     ELSE ExecStatement(job, job.body[q], i, BodyRun(job, i, st)[q - 1])
      BY <1>2, <2>2, BodyRunIs, ZenonT(60)
    <3> QED
      BY <1>2, <1>3, <2>3, <3>1
  <2>5. next \in State /\ next.value = value
    BY <1>2, <1>3, <2>3, ExecState, KeepsValue
  <2> HIDE DEF next
  <2>6. Now' = next
    BY <1>6, <2>1, <2>5 DEF Now, State
  <2> HIDE DEF st
  <2>7. k' - 1 = k
    BY <1>3, <2>1
  <2> QED
    BY <1>1, <1>2, <1>4, <2>1, <2>4, <2>6, <2>7 DEF OriginalInv, st
<1> QED
  BY <1>5, <1>6

(* and it ends as that of the source.                                      *)
LEMMA OriginalAdvance == ASSUME Inv, OriginalInv, mode = "original", ScalarAdvance PROVE OriginalInv'
<1> DEFINE st == Run(job, job.step)[Done]
<1>1. /\ job' = job /\ mode' = mode /\ i' = i + job.step /\ pc = "scalar" /\ k > Len(job.body) /\ pc' = "begin"
      /\ mem' = mem /\ acc' = acc /\ locals' = locals /\ value' = value
  BY DEF ScalarAdvance, Step, Goto, scalarVars
<1>2. /\ JobOK(job) /\ TypeOK /\ i \in Int /\ Done \in 0..Iterations(job) /\ Done < Iterations(job)
      /\ ~st.panicked /\ BodyRun(job, i, st)[k - 1] = Now
  BY <1>1 DEF OriginalInv, Inv, TypeOK
<1>3. k - 1 = Len(job.body)
  BY <1>1, <1>2, BodyLength DEF TypeOK
<1>4. /\ job.step \in {-1, 1} /\ Done + 1 \in 1..Iterations(job) /\ (Done + 1) - 1 = Done
      /\ IndexAt(job, job.step, Done + 1) = i /\ job.start \in Int /\ job.limit \in Int
  BY <1>2, DoneIs
<1>5. Run(job, job.step)[Done + 1] = Now
  BY <1>2, <1>3, <1>4, RunStates DEF ExecIteration
<1>6. Done' = Done + 1 /\ Done + 1 \in 0..Iterations(job)
  <2>1. Done' = Done + 1
    BY <1>1, <1>2, <1>4 DEF Done
  <2> QED
    BY <1>2, <1>4, <2>1, DoneIs
<1>7. Now' = Now
  BY <1>1 DEF Now
<1> QED
  BY <1>1, <1>5, <1>6, <1>7 DEF OriginalInv

(* Every step keeps OriginalInv.                                           *)
LEMMA OriginalStep == ASSUME Inv, StartInv, FreshInv, OriginalInv, [Next]_vars PROVE OriginalInv'
<1> SUFFICES ASSUME mode' = "original" PROVE OriginalInv'
  BY DEF OriginalInv
<1>1. CASE UNCHANGED vars
  BY <1>1 DEF vars, OriginalInv, Done, Now
<1>2. CASE mode = "vector"
  <2>1. CASE OverlapCheck
    BY <1>2, <2>1, OriginalFallback
  <2>2. CASE Hoist \/ LengthCheck \/ CopyCall \/ ChunkTest \/ MainTest \/ SingleTest \/ CountTest
    BY <1>2, <2>2 DEF Hoist, CountTest, LengthCheck, CopyCall, ChunkTest, MainTest, SingleTest, Stop
  <2>3. CASE LoadAhead \/ VectorLet \/ VectorFold \/ VectorStore \/ VectorPanic \/ NextCopy \/ Advance
    BY <1>2, <2>3 DEF LoadAhead, VectorLet, VectorFold, VectorStore, VectorPanic, NextCopy, Advance, Stop
  <2>4. CASE MergeCopy \/ FoldLane \/ NextFold \/ Remainder
    BY <1>2, <2>4 DEF MergeCopy, FoldLane, NextFold, Remainder
  <2>5. CASE ScalarBegin \/ ScalarStatement \/ ScalarAdvance
    BY <1>2, <2>5 DEF ScalarBegin, ScalarStatement, ScalarAdvance, Inv, ControlInv
  <2> QED
    BY <1>1, <2>1, <2>2, <2>3, <2>4, <2>5 DEF Next, Terminated
<1>3. CASE mode # "vector"
  <2>1. pc \in {"begin", "scalar", "done", "panic"}
    BY <1>3, SMTT(30) DEF Inv, ControlInv
  <2>2. ScalarBegin \/ ScalarStatement \/ ScalarAdvance \/ UNCHANGED vars
    BY <2>1 DEF Next, Terminated, Hoist, OverlapCheck, LengthCheck, CopyCall, ChunkTest, CountTest, MainTest,
       SingleTest, LoadAhead, VectorLet, VectorFold, VectorStore, VectorPanic, NextCopy, Advance, Running,
       MergeCopy, FoldLane, NextFold, Remainder, Combining
  <2>3. ScalarBegin \/ ScalarStatement \/ ScalarAdvance => mode = "original"
    BY DEF ScalarBegin, ScalarStatement, ScalarAdvance, Stop
  <2> QED
    BY <1>1, <2>2, <2>3, OriginalBegin, OriginalStatement, OriginalAdvance
<1> QED
  BY <1>2, <1>3

-----------------------------------------------------------------------------
(***************************************************************************)
(* How the code ends: wherever it stops, the source loop left the same, or *)
(* panicked.                                                               *)
(***************************************************************************)

(* A loop that does not run leaves everything as it was.                   *)
LEMMA EmptyEnd == ASSUME JobOK(job), ~Runs PROVE ScalarResult(job) = InitialState
<1>1. job.step \in {-1, 1} /\ job.start \in Int /\ job.limit \in Int
  BY DEF JobOK, HeaderOK
<1>2. Iterations(job) = 0
  BY <1>1 DEF Runs, Iterations
<1>3. Run(job, job.step)[0] = InitialState
  BY <1>1, RunStates
<1> QED
  BY <1>2, <1>3 DEF ScalarResult

(* A slice too short anywhere in the loop makes the source loop panic.     *)
LEMMA ShortEnd ==
  ASSUME JobOK(job), Lowers(job), NEW x \in job.start..(job.limit - 1), ~InBody(x)
  PROVE  ScalarResult(job).panicked
BY RunPanics DEF ScalarResult, JobOK, HeaderOK

(* What the iterations leave, done forwards up to the last, is what the    *)
(* source loop leaves, whichever way it counts.                            *)
LEMMA ForwardEnd ==
  ASSUME JobOK(job), Lowers(job), ~SomeOverlap, NEW at \in Int, at >= job.start, at >= job.limit,
         at <= job.limit \/ at = job.start, ~After(job, at).panicked
  PROVE  /\ ~ScalarResult(job).panicked
         /\ ScalarResult(job).mem = After(job, at).mem /\ ScalarResult(job).acc = After(job, at).acc
<1>1. at - job.start = Iterations(job)
  BY HeaderType DEF Iterations
<1>2. After(job, at) = Run(job, 1)[Iterations(job)]
  BY <1>1 DEF After
<1> QED
  BY <1>2, EitherWay

(* Where every access is inside its slice, now and in the last iteration,  *)
(* a vector load or store does not panic.                                  *)
LEMMA AccessIn ==
  ASSUME JobOK(job), NEW key \in Checked(job.body), NEW pos \in Int, pos < job.limit,
         Full(job.body) => pos + Lanes <= job.limit, InBody(pos), InBody(job.limit - 1)
  PROVE  AccessOK(key, pos)
<1>1. key \in Access /\ key[1] \in SliceNames /\ key[3] \in Int
  BY CheckedType, AccessType
<1>2. job.slices[key[1]].len \in Nat /\ job.limit \in Int /\ Lanes \in Nat
  BY <1>1, SliceType, HeaderType, LanesType
<1>3. pos + key[3] \in 0..(job.slices[key[1]].len - 1)
  BY DEF InBody, InRange
<1>4. job.limit - 1 + key[3] \in 0..(job.slices[key[1]].len - 1)
  BY DEF InBody, InRange
<1>5. CASE key[2] = "none"
  <2>1. key[3] = 0
    BY <1>5, NoOffset
  <2> QED
    BY <1>1, <1>2, <1>3, <1>4, <2>1 DEF AccessOK, OperandOK, OperandLow, OperandHigh, OperandLen
<1>6. CASE key[2] # "none"
  BY <1>1, <1>2, <1>3, <1>4, <1>6 DEF AccessOK, OperandOK, OperandLow, OperandHigh, OperandLen
<1> QED
  BY <1>5, <1>6

(* So a vector access that panics is one the source loop panics at.        *)
LEMMA AccessEnd ==
  ASSUME Inv, LaneInv, pc \in {"load", "statement"}, NEW key \in Checked(job.body), ~AccessOK(key, Pos)
  PROVE  ScalarResult(job).panicked
<1>1. JobOK(job) /\ TypeOK /\ mode = "vector" /\ Lowers(job)
  BY DEF Inv, ControlInv, Planned
<1>2. Pos \in Int /\ Pos < job.limit /\ Pos >= job.start /\ job.start \in Int /\ job.limit \in Int
  <2>1. i \in Int /\ copy \in Nat /\ Lanes \in Nat /\ i >= job.start
    BY <1>1, LanesType, CopiesType DEF Inv, IndexInv, TypeOK
  <2>2. copy * Lanes \in Nat
    BY <2>1
  <2>3. Pos < job.limit
    BY DEF LaneInv
  <2> QED
    BY <1>1, <2>1, <2>2, <2>3, HeaderType DEF Pos
<1>3. Full(job.body) => Pos + Lanes <= job.limit
  BY FullChunk
<1>4. ~InBody(Pos) \/ ~InBody(job.limit - 1)
  BY <1>1, <1>2, <1>3, AccessIn
<1>5. Pos \in job.start..(job.limit - 1) /\ job.limit - 1 \in job.start..(job.limit - 1)
  BY <1>2
<1> QED
  BY <1>1, <1>4, <1>5, ShortEnd

(* A loop without folds leaves the accumulators.                           *)
LEMMA NoFoldEnd ==
  ASSUME JobOK(job), Lowers(job), Folds(job.body) = {}, NEW at \in Int, at >= job.start,
         at <= job.limit \/ at = job.start, ~After(job, at).panicked
  PROVE  After(job, at).acc = Acc0
<1>1. After(job, job.start) = InitialState /\ After(job, job.start) \in State /\ After(job, at) \in State
  BY RunIs, HeaderType
<1>2. \A y \in job.start..(at - 1) : Indexed(y) /\ ~After(job, y).panicked
  BY ReachedIndexed
<1>3. \A t \in AccNames : Untargeted(t)
  BY DEF Untargeted
<1>4. LocalsOK(job.body)
  BY DEF Lowers
<1>5. \A t \in AccNames : Untargeted(t) => After(job, at).acc[t] = After(job, job.start).acc[t]
  BY <1>1, <1>2, <1>4, HeaderType, AfterFolds
<1>6. After(job, at).acc \in [AccNames -> Value] /\ Acc0 \in [AccNames -> Value]
  BY <1>1, ValueAssumption DEF State
<1>7. InitialState.acc = Acc0
  BY DEF InitialState
<1>8. \A t \in AccNames : After(job, at).acc[t] = Acc0[t]
  BY <1>1, <1>3, <1>5, <1>7
<1> QED
  BY <1>6, <1>8

(* Before the checks are done nothing was.                                 *)
LEMMA NothingEnd ==
  ASSUME JobOK(job), ~Runs, mem = Mem0, acc = Acc0
  PROVE  /\ ~ScalarResult(job).panicked
         /\ mem = ScalarResult(job).mem /\ acc = ScalarResult(job).acc
BY EmptyEnd DEF InitialState

(* The hoisting of the slices stops where the loop does not run, or where  *)
(* the first iteration reads a field of a nil pointer.                     *)
LEMMA EndHoist == ASSUME Inv, StartInv, FreshInv, Hoist PROVE EndInv'
<1>1. /\ JobOK(job) /\ job' = job /\ mem' = mem /\ acc' = acc /\ pc = "hoist" /\ mode = "vector"
      /\ job.start \in Int /\ job.limit \in Int
  BY HeaderType DEF Hoist, Stop, Inv, ControlInv
<1>2. mem = Mem0 /\ acc = Acc0 /\ Lowers(job)
  BY <1>1 DEF StartInv, FreshInv, Inv, ControlInv, Planned
<1>3. CASE pc' = "done"
  <2>1. ~Runs
    BY <1>3 DEF Hoist, Stop, Goto
  <2> QED
    BY <1>1, <1>2, <1>3, <2>1, NothingEnd DEF EndInv
<1>4. CASE pc' = "panic"
  <2>1. Hoists(job) # {} /\ job.nilRoot /\ (NonEmpty(job) \/ Runs)
    BY <1>4 DEF Hoist, Stop, Goto
  <2>2. Runs
    BY <1>1, <2>1 DEF NonEmpty, Runs
  <2>3. PICK access \in Checked(job.body) : access[1] \in job.fields
    BY <2>1 DEF Hoists, Refs
  <2>4. ~InBody(job.start)
    BY <2>1, <2>3 DEF InBody, InRange
  <2>5. job.start \in job.start..(job.limit - 1)
    BY <1>1, <2>2 DEF Runs
  <2> QED
    BY <1>1, <1>2, <1>4, <2>4, <2>5, ShortEnd DEF EndInv
<1>5. CASE pc' \notin {"done", "panic"}
  BY <1>5 DEF EndInv
<1> QED
  BY <1>3, <1>4, <1>5

(* The length checks stop where the loop does not run, or where the last   *)
(* iteration is past the end of a slice.                                   *)
LEMMA EndLength == ASSUME Inv, StartInv, FreshInv, LengthCheck PROVE EndInv'
<1>1. /\ JobOK(job) /\ job' = job /\ mem' = mem /\ acc' = acc /\ pc = "check" /\ mode = "vector"
      /\ job.start \in Int /\ job.limit \in Int
  BY HeaderType DEF LengthCheck, Stop, Inv, ControlInv
<1>2. mem = Mem0 /\ acc = Acc0 /\ Lowers(job)
  BY <1>1 DEF StartInv, FreshInv, Inv, ControlInv, Planned
<1>3. CASE pc' = "done"
  <2>1. ~Runs
    BY <1>3 DEF LengthCheck, Stop, Goto, LoopLabel
  <2> QED
    BY <1>1, <1>2, <1>3, <2>1, NothingEnd DEF EndInv
<1>4. CASE pc' = "panic"
  <2>1. PICK access \in LengthChecks : ~LengthOK(access)
    BY <1>4 DEF LengthCheck, Stop, Goto, LoopLabel
  <2>2. NonEmpty(job) \/ Runs
    BY <1>4, <2>1 DEF LengthCheck, Stop, Goto
  <2>3. Runs
    BY <1>1, <2>2 DEF NonEmpty, Runs
  <2>4. access \in Checked(job.body) /\ access[3] \in Int
    BY <1>1, <2>1, CheckedType, AccessType DEF LengthChecks
  <2>5. ~InBody(job.limit - 1)
    <3>1. job.limit + access[3] - 1 = job.limit - 1 + access[3]
      BY <1>1, <2>4
    <3> QED
      BY <2>1, <2>4, <3>1 DEF InBody, InRange, LengthOK
  <2>6. job.limit - 1 \in job.start..(job.limit - 1)
    BY <1>1, <2>3 DEF Runs
  <2> QED
    BY <1>1, <1>2, <1>4, <2>5, <2>6, ShortEnd DEF EndInv
<1>5. CASE pc' \notin {"done", "panic"}
  BY <1>5 DEF EndInv
<1> QED
  BY <1>3, <1>4, <1>5

(* The loop of partial vectors stops when every iteration is done.         *)
LEMMA EndChunks == ASSUME Inv, FreshInv, ScalarPrefix, ChunkTest PROVE EndInv'
<1>1. /\ JobOK(job) /\ job' = job /\ pc = "test" /\ mode = "vector" /\ ~Full(job.body) /\ ~SomeOverlap
      /\ job.start \in Int /\ job.limit \in Int /\ i \in Int /\ i >= job.start /\ Lowers(job)
  BY HeaderType DEF ChunkTest, Inv, ControlInv, ApartInv, IndexInv, TypeOK, Planned
<1>2. acc = Acc0 /\ ~Prefix.panicked /\ mem = Prefix.mem
  BY <1>1 DEF FreshInv, ScalarPrefix
<1>3. CASE i < job.limit
  BY <1>3 DEF ChunkTest, StartBody, Goto, EndInv
<1>4. CASE ~(i < job.limit)
  <2> DEFINE at == IF job.start < job.limit THEN job.limit ELSE job.start
  <2>1. pc' = "done" /\ mem' = mem /\ acc' = acc
    BY <1>4 DEF ChunkTest, Stop, Goto
  <2>2. at \in Int /\ at >= job.start /\ at >= job.limit /\ (at <= job.limit \/ at = job.start)
    BY <1>1
  <2>3. Prefix = After(job, at)
    BY <1>1, <1>4, PrefixIs DEF Prefix
  <2> HIDE DEF at
  <2>4. ~After(job, at).panicked /\ mem = After(job, at).mem
    BY <1>2, <2>3
  <2>5. acc = After(job, at).acc
    BY <1>1, <1>2, <2>2, <2>4, NoFoldEnd DEF Full
  <2> QED
    BY <1>1, <2>1, <2>2, <2>4, <2>5, ForwardEnd DEF EndInv
<1> QED
  BY <1>3, <1>4

(* A load ahead of the body panics only where the source loop does,        *)
LEMMA EndLoad == ASSUME Inv, LaneInv, LoadAhead PROVE EndInv'
<1>1. job' = job /\ pc = "load" /\ JobOK(job)
  BY DEF LoadAhead, Inv
<1>2. CASE LoadsOK(LoadsAhead(job.body))
  BY <1>2 DEF LoadAhead, Goto, EndInv
<1>3. CASE ~LoadsOK(LoadsAhead(job.body))
  <2>1. PICK key \in Keys(LoadsAhead(job.body)) : ~AccessOK(key, Pos)
    BY <1>3 DEF LoadsOK
  <2>2. key \in Checked(job.body)
    BY DEF Checked, Keys, LoadsAhead
  <2>3. pc' = "panic"
    BY <1>3 DEF LoadAhead, Stop, Goto
  <2> QED
    BY <1>1, <2>1, <2>2, <2>3, AccessEnd DEF EndInv
<1> QED
  BY <1>2, <1>3

(* and so does any other vector access.                                    *)
LEMMA EndVector == ASSUME Inv, LaneInv, VectorPanic PROVE EndInv'
<1>1. job' = job /\ pc = "statement" /\ JobOK(job) /\ k \in DOMAIN job.body /\ pc' = "panic"
  BY BodyLength DEF VectorPanic, Inv, TypeOK, Stop, Goto
<1>2. CASE ~CanLoad
  <2>1. PICK key \in Keys(LoadsOf(job.body[k])) : ~AccessOK(key, Pos)
    BY <1>2 DEF CanLoad, LoadsOK
  <2>2. key \in Checked(job.body)
    BY <1>1 DEF Checked, Keys, AllLoads
  <2> QED
    BY <1>1, <2>1, <2>2, AccessEnd DEF EndInv
<1>3. CASE job.body[k].kind = "store" /\ ~AccessOK(AtIndex(job.body[k].target), Pos)
  <2>1. AtIndex(job.body[k].target) \in Checked(job.body)
    BY <1>1, <1>3 DEF Checked, Stored, Stores
  <2> QED
    BY <1>1, <1>3, <2>1, AccessEnd DEF EndInv
<1> QED
  BY <1>2, <1>3 DEF VectorPanic

(* A scalar loop stops when every iteration is done,                       *)
LEMMA EndBegin == ASSUME Inv, RestInv, OriginalInv, ScalarBegin PROVE EndInv'
<1>1. /\ JobOK(job) /\ job' = job /\ pc = "begin" /\ mode \in {"rest", "original"} /\ TypeOK
      /\ job.start \in Int /\ job.limit \in Int /\ i \in Int
  BY HeaderType DEF ScalarBegin, Inv, ControlInv, TypeOK
<1>2. CASE MoreIterations
  BY <1>2 DEF ScalarBegin, Goto, EndInv
<1>3. CASE ~MoreIterations /\ mode = "rest"
  <2>1. pc' = "done" /\ mem' = mem /\ acc' = acc
    BY <1>3 DEF ScalarBegin, Stop, Goto
  <2>2. /\ Lowers(job) /\ ~SomeOverlap /\ i >= job.start /\ (i <= job.limit \/ i = job.start)
        /\ ~After(job, i).panicked /\ mem = After(job, i).mem /\ acc = After(job, i).acc
    BY <1>1, <1>3 DEF RestInv, Planned
  <2>3. i >= job.limit
    BY <1>1, <1>3 DEF MoreIterations, Step
  <2> QED
    BY <1>1, <2>1, <2>2, <2>3, ForwardEnd DEF EndInv
<1>4. CASE ~MoreIterations /\ mode = "original"
  <2>1. pc' = "done" /\ mem' = mem /\ acc' = acc
    BY <1>4 DEF ScalarBegin, Stop, Goto
  <2>2. Done \in 0..Iterations(job) /\ Run(job, job.step)[Done] = Now
    BY <1>1, <1>4 DEF OriginalInv
  <2>3. Done = Iterations(job)
    <3>1. ~(Done < Iterations(job)) /\ Done \in Int /\ Iterations(job) \in Nat
      BY <1>1, <1>4, <2>2, DoneIs DEF MoreIterations, Step
    <3> QED
      BY <2>2, <3>1
  <2>4. ScalarResult(job) = Now
    BY <2>2, <2>3 DEF ScalarResult
  <2> QED
    BY <1>1, <2>1, <2>4, NowIs DEF EndInv
<1> QED
  BY <1>1, <1>2, <1>3, <1>4

(* or panics in an iteration the source loop panics in.                    *)
LEMMA EndStatement == ASSUME Inv, RestInv, OriginalInv, ScalarStatement PROVE EndInv'
<1> DEFINE next == ExecStatement(job, job.body[k], i, Now)
<1>1. /\ JobOK(job) /\ job' = job /\ pc = "scalar" /\ mode \in {"rest", "original"} /\ TypeOK
      /\ i \in Int /\ k \in DOMAIN job.body /\ k \in Int /\ k \in 1..Len(job.body)
  BY BodyLength DEF ScalarStatement, Inv, ControlInv, TypeOK
<1>2. Now \in State /\ ~Now.panicked
  BY <1>1, NowIs
<1>3. CASE ~next.panicked
  BY <1>1, <1>3 DEF ScalarStatement, EndInv
<1>4. CASE next.panicked /\ mode = "rest"
  <2>1. pc' = "panic"
    BY <1>4 DEF ScalarStatement, Stop, Goto
  <2>2. Lowers(job) /\ i >= job.start /\ i < job.limit
    BY <1>1, <1>4 DEF RestInv, Planned
  <2>3. i \in job.start..(job.limit - 1)
    BY <1>1, <2>2, HeaderType
  <2>4. ~InBody(i)
    BY <1>1, <1>2, <1>4, ExecAssigns
  <2> QED
    BY <1>1, <2>1, <2>2, <2>3, <2>4, ShortEnd DEF EndInv
<1>5. CASE next.panicked /\ mode = "original"
  <2> DEFINE st == Run(job, job.step)[Done]
             run == BodyRun(job, i, st)
  <2>1. pc' = "panic"
    BY <1>5 DEF ScalarStatement, Stop, Goto
  <2>2. /\ Done \in 0..Iterations(job) /\ Done < Iterations(job) /\ ~st.panicked /\ run[k - 1] = Now
    BY <1>1, <1>5 DEF OriginalInv
  <2>3. /\ job.step \in {-1, 1} /\ Done + 1 \in 1..Iterations(job) /\ (Done + 1) - 1 = Done
        /\ IndexAt(job, job.step, Done + 1) = i /\ i \in job.start..(job.limit - 1)
        /\ Iterations(job) \in Nat /\ Done \in Int
    BY <1>1, <2>2, DoneIs
  <2>4. st \in State
    BY <1>1, <2>2, <2>3, RunStates
  <2>5. RangeValue(job, i, st.mem) \in Value
    BY <1>1, <2>3, <2>4, RangeValueIn DEF State
  <2> HIDE DEF st
  <2>6. \A q \in 1..Len(job.body) : run[q] = IF run[q - 1].panicked THEN run[q - 1]
                                             ELSE ExecStatement(job, job.body[q], i, run[q - 1])
    <3>1. \A q \in 1..Len(job.body) :
            BodyRun(job, i, st)[q] = IF BodyRun(job, i, st)[q - 1].panicked THEN BodyRun(job, i, st)[q - 1]
                                     ELSE ExecStatement(job, job.body[q], i, BodyRun(job, i, st)[q - 1])
      <4>1. JobOK(job)
        BY <1>1
      <4> QED
        BY <4>1, <2>4, <2>5, BodyRunIs, ZenonT(60)
    <3> QED
      BY <3>1
  <2> HIDE DEF run
  <2>7. run[k] = next
    BY <1>1, <1>2, <2>2, <2>6
  <2>8. k \in 0..Len(job.body)
    BY <1>1, BodyLength
  <2>9. run[k].panicked
    BY <1>5, <2>7
  <2>10. run[Len(job.body)].panicked
    BY <1>1, <2>4, <2>5, <2>8, <2>9, BodyStaysPanicked DEF run
  <2>11. Run(job, job.step)[Done + 1].panicked
    <3>1. Run(job, job.step)[Done + 1] = IF st.panicked THEN st ELSE ExecIteration(job, i, st)
      BY <1>1, <2>3, RunStates DEF st
    <3> QED
      BY <2>2, <2>10, <3>1 DEF ExecIteration, run
  <2>12. Done + 1 \in 0..Iterations(job) /\ Iterations(job) \in (Done + 1)..Iterations(job)
    BY <2>2, <2>3
  <2>13. ScalarResult(job).panicked
    BY <1>1, <2>3, <2>11, <2>12, RunStaysPanicked DEF ScalarResult
  <2> QED
    BY <1>1, <2>1, <2>13 DEF EndInv
<1> QED
  BY <1>1, <1>3, <1>4, <1>5

(* The one statement of a copy stores one load, of another element.        *)
LEMMA CopyBody ==
  ASSUME JobOK(job), Lowers(job), IsCopy(job.body)
  PROVE  LET s == job.body[1]
             ld == s.other[1].loads[1]
         IN  /\ 1 \in DOMAIN job.body /\ Len(job.body) = 1 /\ Folds(job.body) = {}
             /\ Stores(job.body) = {1} /\ Stored(job.body) = {s.target} /\ s.target \in SliceNames
             /\ ld \in LoadsOf(s) /\ ld \in Load /\ ld \in AllLoads(job.body)
             /\ Key(ld) # AtIndex(s.target)
             /\ AllLoads(job.body) = {ld} /\ Checked(job.body) = {AtIndex(s.target), Key(ld)}
             /\ s.arms = <<>> /\ OtherValue(s) = s.other[1] /\ s.other[1] \in Expr
             /\ s.other[1].fn = "id" /\ Len(s.other[1].loads) = 1 /\ s.other[1].temps = <<>>
             /\ s.kind = "store"
<1> DEFINE s == job.body[1]
           e == s.other[1]
           ld == e.loads[1]
<1>1. 1 \in DOMAIN job.body /\ Len(job.body) = 1 /\ DOMAIN job.body = {1}
  BY BodyLength DEF IsCopy
<1>2. s \in Statement /\ StatementOK(s) /\ s.kind = "store" /\ s.target \in SliceNames /\ IsLoad(s)
  BY <1>1, BodyType DEF IsCopy, StatementOK
<1>3. Len(s.arms) = 0 /\ s.arms \in Seq(Arm) /\ HasElse(s) /\ e.fn = "id" /\ Len(e.loads) = 1
  <2>1. ~IsIf(s) /\ e.fn = "id" /\ Len(e.loads) = 1
    BY <1>2 DEF IsLoad
  <2>2. s.arms \in Seq(Arm)
    BY <1>2 DEF Statement
  <2>3. HasElse(s)
    BY <1>2, <2>1 DEF StatementOK
  <2> QED
    BY <2>1, <2>2, <2>3, LenProperties DEF IsIf
<1>4. s.arms = <<>> /\ DOMAIN s.arms = {}
  BY <1>3, EmptySeq, LenProperties
<1>5. OtherValue(s) = e /\ e \in Expr
  <2>1. OtherValue(s) = e
    BY <1>3 DEF OtherValue
  <2> QED
    BY <1>2, <2>1, OtherValueType
<1>6. Loads(e) = {ld} /\ ld \in Load
  <2>1. e.loads \in Seq(Load)
    BY <1>5 DEF Expr
  <2>2. DOMAIN e.loads = 1..1
    BY <1>3, <2>1, LenProperties
  <2>3. DOMAIN e.loads = {1}
    BY <2>2
  <2> QED
    BY <2>1, <2>3, ElementOfSeq, <1>3 DEF Loads
<1>7. LoadsOf(s) = {ld}
  BY <1>4, <1>5, <1>6 DEF LoadsOf
<1>8. AllLoads(job.body) = {ld}
  BY <1>1, <1>7 DEF AllLoads
<1>9. Stores(job.body) = {1} /\ Folds(job.body) = {}
  BY <1>1, <1>2 DEF Stores, Folds
<1>10. Stored(job.body) = {s.target}
  BY <1>9 DEF Stored
<1>11. Checked(job.body) = {AtIndex(s.target), Key(ld)}
  BY <1>8, <1>10 DEF Checked, Keys
<1>12. Key(ld) # AtIndex(s.target)
  BY <1>2, <1>9 DEF Lowers, SelfCopy
<1>13. e.temps = <<>>
  <2>1. e.temps \in Seq(TempNames)
    BY <1>5 DEF Expr
  <2>2. \A t \in Temps(e) : t \in TempsRead(s)
    BY <1>5 DEF TempsRead
  <2>3. \A t \in TempsRead(s) : DefinedBefore(job.body, 1, t)
    BY <1>1 DEF Lowers, LocalsOK
  <2>4. \A t \in Temps(e) : FALSE
    BY <2>2, <2>3 DEF DefinedBefore
  <2>5. DOMAIN e.temps = {}
    BY <2>4 DEF Temps
  <2> DEFINE held == e.temps
  <2> HIDE DEF held
  <2>6. held \in Seq(TempNames) /\ DOMAIN held = {}
    BY <2>1, <2>5 DEF held
  <2>7. Len(held) \in Nat /\ DOMAIN held = 1..Len(held)
    BY <2>6, LenProperties
  <2>8. ~(Len(held) \in Nat \ {0})
    <3>1. ~(1 \in 1..Len(held))
      BY <2>6, <2>7
    <3> QED
      BY <2>7, <3>1
  <2>9. held = <<>>
    BY <2>6, <2>8, EmptySeq
  <2> QED
    BY <2>9 DEF held
<1> HIDE DEF s, e, ld
<1> QED
  BY <1>1, <1>2, <1>3, <1>4, <1>5, <1>6, <1>7, <1>8, <1>9, <1>10, <1>11, <1>12, <1>13 DEF s, e, ld

(* It assigns what the loaded element holds.                               *)
LEMMA CopyAssigns ==
  ASSUME JobOK(job), Lowers(job), IsCopy(job.body), NEW x, NEW st \in State
  PROVE  LET s == job.body[1]
             ld == s.other[1].loads[1]
         IN  Assigned(job, s, x, st) = ScalarReads(job, s, x, st.mem, st.value)[ld]
<1> DEFINE s == job.body[1]
           e == s.other[1]
           ld == e.loads[1]
           reads == ScalarReads(job, s, x, st.mem, st.value)
<1>1. /\ 1 \in DOMAIN job.body /\ ld \in LoadsOf(s) /\ s.arms = <<>> /\ OtherValue(s) = e /\ e.fn = "id"
      /\ Len(e.loads) = 1 /\ e.temps = <<>>
  BY CopyBody
<1>2. reads[ld] \in Value
  BY <1>1, BodyType, ScalarReadsType DEF State
<1> HIDE DEF reads
<1>3. TakesOther(s, reads, st.locals)
  BY <1>1 DEF TakesOther
<1>4. SelectValue(s, reads, st.locals) = ExprValue(e, reads, st.locals)
  BY <1>1, <1>3, SMTT(30) DEF SelectValue
<1>5. [y \in 1..Len(e.loads) |-> reads[e.loads[y]]] \o [y \in 1..Len(e.temps) |-> st.locals[e.temps[y]]]
        = <<reads[ld]>>
  <2> DEFINE v == reads[ld]
  <2>1. [y \in 1..Len(e.loads) |-> reads[e.loads[y]]] = <<v>>
    BY <1>1
  <2>2. [y \in 1..Len(e.temps) |-> st.locals[e.temps[y]]] = <<>>
    BY <1>1
  <2>3. v \in Value
    BY <1>2
  <2> HIDE DEF v
  <2>4. <<v>> \o <<>> = <<v>>
    BY <2>3, SMTT(30)
  <2> QED
    BY <2>1, <2>2, <2>4 DEF v
<1>6. ExprValue(e, reads, st.locals) = reads[ld]
  BY <1>1, <1>2, <1>5, OperationsAssumption DEF ExprValue
<1> QED
  BY <1>4, <1>6 DEF Assigned, reads

(* When no length is checked before a copy, it copies a slice to itself.   *)
LEMMA CopyChecked ==
  ASSUME JobOK(job), Lowers(job), IsCopy(job.body)
  PROVE  LengthChecks # {}
<1> DEFINE dst == job.body[1].target
           ld == job.body[1].other[1].loads[1]
<1>1. /\ Checked(job.body) = {AtIndex(dst), Key(ld)} /\ Key(ld) # AtIndex(dst) /\ ld \in Load
  BY CopyBody
<1> HIDE DEF dst, ld
<1> SUFFICES ASSUME LengthChecks = {} PROVE FALSE
  OBVIOUS
<1>2. \A access \in Checked(job.body) : access[2] = "none" /\ access[1] = job.trip
  BY DEF LengthChecks
<1>3. dst = job.trip
  BY <1>1, <1>2 DEF AtIndex
<1>4. ld.kind = "none" /\ ld.ref = job.trip /\ Key(ld)[3] = 0
  <2>1. Key(ld) \in Checked(job.body)
    BY <1>1
  <2>2. Key(ld)[2] = "none" /\ Key(ld)[1] = job.trip
    BY <1>2, <2>1
  <2> QED
    BY <2>1, <2>2, NoOffset DEF Key
<1> QED
  BY <1>1, <1>3, <1>4 DEF Key, AtIndex

(* copy panics only where the source loop does.                            *)
LEMMA EndCopyPanic == ASSUME Inv, FreshInv, CopyCall, pc' = "panic" PROVE ScalarResult(job).panicked
<1> DEFINE dst == AtIndex(job.body[1].target)
           src == Key(job.body[1].other[1].loads[1])
           high == IF Capped(job) THEN job.limit ELSE job.slices[dst[1]].len
           from == OperandLow(src, job.start)
<1>1. /\ JobOK(job) /\ pc = "copy" /\ mode = "vector" /\ IsCopy(job.body) /\ Lowers(job)
      /\ job.start \in Int /\ job.limit \in Int
  BY HeaderType DEF CopyCall, Inv, ControlInv, Planned
<1>2. Runs
  BY <1>1, CopyChecked, SMTT(30) DEF FreshInv
<1>3. ~(/\ 0 <= job.start /\ job.start <= high /\ high <= job.slices[dst[1]].len
        /\ 0 <= from /\ from <= job.slices[src[1]].len)
  BY DEF CopyCall, Goto
<1>4. dst \in Checked(job.body) /\ src \in Checked(job.body) /\ job.body[1].target \in Stored(job.body)
  BY <1>1, CopyBody
<1>5. /\ src[1] \in SliceNames /\ src[3] \in Int /\ dst[1] \in SliceNames /\ dst[1] = job.body[1].target
      /\ dst[2] = "none" /\ dst[3] = 0
  BY <1>1, <1>4, CheckedType, AccessType, SMTT(30) DEF AtIndex
<1>6. job.slices[src[1]].len \in Nat /\ job.slices[dst[1]].len \in Nat
  BY <1>1, <1>5, SliceType
<1>7. high = job.limit
  <2>1. OperandHigh(dst) = job.limit
    BY <1>1, <1>4, TargetHigh
  <2> QED
    BY <1>5, <2>1 DEF OperandHigh
<1>8. from = job.start + src[3]
  BY DEF OperandLow
<1> HIDE DEF dst, src, high, from
<1>9. ~InBody(job.start) \/ ~InBody(job.limit - 1)
  <2> SUFFICES ASSUME InBody(job.start), InBody(job.limit - 1) PROVE FALSE
    OBVIOUS
  <2>1. job.start + src[3] \in 0..(job.slices[src[1]].len - 1)
    BY <1>4 DEF InBody, InRange
  <2>2. job.start + dst[3] \in 0..(job.slices[dst[1]].len - 1)
    BY <1>4 DEF InBody, InRange
  <2>3. job.limit - 1 + dst[3] \in 0..(job.slices[dst[1]].len - 1)
    BY <1>4 DEF InBody, InRange
  <2> QED
    BY <1>1, <1>2, <1>3, <1>5, <1>6, <1>7, <1>8, <2>1, <2>2, <2>3 DEF Runs
<1>10. job.start \in job.start..(job.limit - 1) /\ job.limit - 1 \in job.start..(job.limit - 1)
  BY <1>1, <1>2, SMTT(30) DEF Runs
<1> QED
  BY <1>1, <1>9, <1>10, ShortEnd, SMTT(30)

(* Iteration by iteration, a copy moves elements as they were before it.   *)
LEMMA CopyElement ==
  ASSUME ChunkOK, Pos = job.start, Lowers(job), IsCopy(job.body), NEW x \in job.start..(job.limit - 1)
  PROVE  LET ref == job.body[1].target
             ld == job.body[1].other[1].loads[1]
         IN  After(job, job.limit).mem[ElementAddr(job, ref, x)] = Mem0[ElementAddr(job, ld.ref, x + ld.off)]
<1> DEFINE s == job.body[1]
           ref == s.target
           ld == s.other[1].loads[1]
           to == ElementAddr(job, ref, x)
           at == ElementAddr(job, ld.ref, x + ld.off)
           before == During(job, x, 0)
<1>1. /\ JobOK(job) /\ ~SomeOverlap /\ Inside(job.start) /\ x \in Int /\ x \in Pos..(job.limit - 1)
      /\ job.start \in Int /\ job.limit \in Int /\ Pos \in Int
  BY HeaderType DEF ChunkOK
<1>2. RangeValueFresh(job.body) /\ DependencesForward(job)
  BY Zenon DEF Lowers
<1>3. /\ 1 \in DOMAIN job.body /\ Len(job.body) = 1 /\ s.kind = "store"
      /\ Stored(job.body) = {ref} /\ ref \in SliceNames /\ ld \in LoadsOf(s) /\ ld \in AllLoads(job.body)
      /\ ld \in Load /\ Key(ld) # AtIndex(ref) /\ Checked(job.body) = {AtIndex(ref), Key(ld)}
  BY <1>1, CopyBody
<1>4. InBody(x) /\ before \in State /\ During(job, x, 1) = ExecStatement(job, s, x, before)
  BY <1>1, <1>3, DuringNext
<1>5. During(job, x, 1).mem[to] = Assigned(job, s, x, before)
  <2> DEFINE next == ExecStatement(job, s, x, before)
  <2> HIDE DEF before
  <2>1. next.mem[to] = Assigned(job, s, x, before)
    BY <1>1, <1>3, <1>4, ExecAssigns
  <2> QED
    BY <1>4, <2>1, SMTT(30)
<1>6. Assigned(job, s, x, before) = ScalarReads(job, s, x, before.mem, before.value)[ld]
  BY <1>1, <1>4, CopyAssigns, SMTT(30)
<1>7. at \in Addr /\ ScalarReads(job, s, x, before.mem, before.value)[ld] = before.mem[at]
  <2> DEFINE reads == ScalarReads(job, s, x, During(job, x, 1 - 1).mem, During(job, x, 1 - 1).value)
  <2>1. at \in Addr /\ reads[ld] = During(job, x, 1 - 1).mem[at]
    BY <1>1, <1>2, <1>3, ReadsMemory
  <2>2. During(job, x, 1 - 1) = before
    OBVIOUS
  <2> HIDE DEF before, at, ld, s
  <2>3. reads = ScalarReads(job, s, x, before.mem, before.value)
    BY <2>2
  <2> HIDE DEF reads
  <2> QED
    BY <2>1, <2>2, <2>3, Zenon
<1>8. before.mem = After(job, x).mem
  <2>1. x \in job.start..(job.limit - 1)
    OBVIOUS
  <2>2. After(job, x) \in State /\ before = [After(job, x) EXCEPT !.value = RangeValue(job, x, After(job, x).mem)]
    BY <1>1, DuringIs
  <2> DEFINE st == After(job, x)
             v == RangeValue(job, x, After(job, x).mem)
  <2>3. st \in State /\ before = [st EXCEPT !.value = v]
    BY <2>2
  <2> HIDE DEF st, v, before
  <2>4. before.mem = st.mem
    BY <2>3, SMTT(30) DEF State
  <2> QED
    BY <2>4 DEF st
<1>9. ld.off \in Int /\ ld.ref \in SliceNames /\ Key(ld)[1] = ld.ref /\ Key(ld)[3] = ld.off /\ Key(ld)[2] = ld.kind
  <2>1. Key(ld) \in Access
    BY <1>3, KeyType
  <2>2. Key(ld)[1] = ld.ref /\ Key(ld)[3] = ld.off /\ Key(ld)[2] = ld.kind
    BY DEF Key
  <2> QED
    BY <2>1, <2>2, AccessType
<1>10. /\ at = ElementAddr(job, ld.ref, x + ld.off) /\ to = ElementAddr(job, ref, x)
       /\ Key(ld) \in Checked(job.body) /\ AtIndex(ref) \in Checked(job.body) /\ ref \in Stored(job.body)
  <2>1. Checked(job.body) = {AtIndex(ref), Key(ld)} /\ Stored(job.body) = {ref}
    BY <1>3
  <2> HIDE DEF s, ref, ld
  <2> QED
    BY <2>1
<1> HIDE DEF s, ref, ld, to, at, before
<1>11. \A y \in job.start..(x - 1) : at # ElementAddr(job, ref, y)
  <2> SUFFICES ASSUME NEW y \in job.start..(x - 1), at = ElementAddr(job, ref, y) PROVE FALSE
    OBVIOUS
  <2>1. y \in job.start..(job.limit - 1) /\ y < x /\ y \in Int
    BY <1>1
  <2>2. ref = Key(ld)[1] /\ y = x + Key(ld)[3]
    <3> DEFINE key == Key(ld)
    <3>1. key \in Checked(job.body) /\ key[1] = ld.ref /\ key[3] = ld.off
      BY <1>9, <1>10
    <3>2. ElementAddr(job, ref, y) = ElementAddr(job, key[1], x + key[3])
      BY <1>10, <3>1
    <3> HIDE DEF key
    <3>3. job.start >= job.start
      BY <1>1
    <3>4. ref = key[1] /\ y = x + key[3]
      BY <1>1, <1>10, <2>1, <3>1, <3>2, <3>3, SameElement
    <3> QED
      BY <3>4 DEF key
  <2>3. ld.off < 0
    BY <1>1, <1>9, <2>1, <2>2
  <2>4. ld.kind # "none"
    BY <1>1, <1>9, <1>10, <2>3, NoOffset
  <2>5. ld.off > 0
    BY <1>2, <1>3, <1>9, <1>10, <2>2, <2>4 DEF DependencesForward
  <2> QED
    BY <1>9, <2>3, <2>5
<1>12. After(job, x).mem[at] = Mem0[at]
  <2>1. x \in Pos..job.limit
    BY <1>1
  <2>2. \A other \in Stored(job.body), y \in Pos..(x - 1) : at # ElementAddr(job, other, y)
    BY <1>3, <1>11
  <2>3. After(job, x).mem[at] = After(job, Pos).mem[at]
    BY <1>1, <1>7, <2>1, <2>2, ChunkKeeps
  <2>4. After(job, Pos) = InitialState
    BY <1>1, RunIs
  <2>5. InitialState.mem = Mem0
    BY DEF InitialState
  <2> QED
    BY <2>3, <2>4, <2>5
<1>13. After(job, x + 1) = During(job, x, 1) /\ ~After(job, x + 1).panicked
  <2>1. ~After(job, x).panicked /\ ~After(job, x + 1).panicked
    <3>1. x \in Pos..job.limit /\ x + 1 \in Pos..job.limit
      BY <1>1
    <3> QED
      BY <3>1, ChunkKeeps
  <2> QED
    BY <1>1, <1>3, <2>1, RunIs
<1>14. After(job, job.limit).mem[to] = After(job, x + 1).mem[to]
  <2>1. x + 1 \in Int /\ x + 1 >= job.start /\ x + 1 <= job.limit /\ job.limit \in (x + 1)..job.limit
    BY <1>1
  <2>2. Inside(x + 1)
    <3>1. \A access \in Checked(job.body) : access[3] \in Int
      BY <1>1, CheckedType, AccessType
    <3> QED
      BY <1>1, <2>1, <3>1 DEF Inside
  <2>3. to \in Addr
    <3>1. AtIndex(ref) \in Checked(job.body) /\ AtIndex(ref)[1] = ref /\ AtIndex(ref)[3] = 0
      BY <1>10 DEF AtIndex
    <3>2. InRange(job, ref, x + 0)
      BY <1>4, <3>1 DEF InBody
    <3>3. x + 0 = x
      BY <1>1
    <3> QED
      BY <1>1, <1>3, <1>10, <3>2, <3>3, ElementAddrType
  <2>4. \A other \in Stored(job.body), y \in (x + 1)..(job.limit - 1) : to # ElementAddr(job, other, y)
    <3>1. job.slices[ref].base \in Int
      BY <1>1, <1>3, SliceType
    <3> QED
      BY <1>1, <1>3, <1>10, <3>1 DEF ElementAddr
  <2> QED
    BY <1>1, <1>13, <2>1, <2>2, <2>3, <2>4, AfterKeeps
<1>15. After(job, job.limit).mem[to] = Mem0[at]
  BY <1>5, <1>6, <1>7, <1>8, <1>12, <1>13, <1>14
<1> QED
  BY <1>15 DEF s, ref, ld, to, at

(* So the call that copies them all at once leaves what the loop leaves.   *)
LEMMA EndCopyDone ==
  ASSUME Inv, StartInv, FreshInv, ShortInv, CopyCall, pc' = "done"
  PROVE  /\ ~ScalarResult(job).panicked
         /\ mem' = ScalarResult(job).mem /\ acc' = ScalarResult(job).acc
<1> DEFINE ref == job.body[1].target
           ld == job.body[1].other[1].loads[1]
           dst == AtIndex(ref)
           src == Key(ld)
           high == IF Capped(job) THEN job.limit ELSE job.slices[dst[1]].len
           from == OperandLow(src, job.start)
           moved == job.slices[src[1]].len - from
           to(a) == a - ElementAddr(job, dst[1], job.start)
<1>1. /\ JobOK(job) /\ TypeOK /\ pc = "copy" /\ mode = "vector" /\ IsCopy(job.body) /\ Lowers(job) /\ ~SomeOverlap
      /\ job.start \in Int /\ job.limit \in Int
  BY HeaderType DEF CopyCall, Inv, ControlInv, ApartInv, Planned
<1>2. /\ 0 <= job.start /\ job.start <= high /\ high <= job.slices[dst[1]].len
      /\ 0 <= from /\ from <= job.slices[src[1]].len
      /\ mem' = [a \in Addr |-> IF to(a) \in 0..(high - job.start - 1) /\ to(a) < moved
                                THEN mem[ElementAddr(job, src[1], from) + to(a)] ELSE mem[a]]
      /\ acc' = acc
  BY DEF CopyCall, Stop, Goto
<1>3. mem = Mem0 /\ acc = Acc0 /\ i = job.start /\ copy = 0
  BY <1>1, SMTT(30) DEF StartInv, FreshInv
<1>4. /\ dst \in Checked(job.body) /\ src \in Checked(job.body) /\ Checked(job.body) = {dst, src}
      /\ Stored(job.body) = {ref} /\ ref \in SliceNames /\ Folds(job.body) = {} /\ ld \in Load
  BY <1>1, CopyBody
<1>5. /\ dst[1] = ref /\ dst[2] = "none" /\ dst[3] = 0
      /\ src[1] = ld.ref /\ src[3] = ld.off /\ ld.off \in Int /\ ld.ref \in SliceNames
  <2>1. src \in Access
    BY <1>4, KeyType
  <2> QED
    BY <2>1, AccessType DEF AtIndex, Key
<1>6. high = job.limit
  <2>1. OperandHigh(dst) = job.limit
    BY <1>1, <1>4, TargetHigh
  <2> QED
    BY <1>5, <2>1 DEF OperandHigh
<1>7. from = job.start + ld.off
  BY <1>5, SMTT(30) DEF OperandLow
<1>8. /\ job.slices[ref].base \in Nat /\ job.slices[ref].len \in Nat /\ job.slices[ld.ref].len \in Nat
      /\ job.slices[ld.ref].base \in Nat /\ MemSize \in Nat
  BY <1>1, <1>4, <1>5, SliceType, ValueAssumption
<1>9. 0 <= job.start /\ job.start <= job.limit /\ 0 <= job.start + ld.off
  BY <1>2, <1>6, <1>7
<1>10. mem' = [a \in Addr |->
                 LET x == a - ElementAddr(job, ref, job.start)
                 IN  IF x \in 0..(job.limit - job.start - 1) /\ x < job.slices[ld.ref].len - (job.start + ld.off)
                     THEN Mem0[ElementAddr(job, ld.ref, job.start + ld.off) + x] ELSE Mem0[a]]
  BY <1>2, <1>3, <1>5, <1>6, <1>7
<1> HIDE DEF dst, src, high, from, moved, to, ref, ld
<1>11. job.start \in Int /\ job.limit \in Int /\ ld.off \in Int
  BY <1>1, <1>5
<1>12. CASE ~Runs
  <2>1. job.limit = job.start
    BY <1>9, <1>12, <1>11 DEF Runs
  <2>2. \A x \in Int : x \notin 0..(job.limit - job.start - 1)
    BY <1>1, <2>1
  <2>3. \A a \in Addr : a - ElementAddr(job, ref, job.start) \in Int
    BY <1>8, <1>11 DEF ElementAddr, Addr
  <2>4. mem' = [a \in Addr |-> Mem0[a]]
    BY <1>10, <2>2, <2>3
  <2>5. mem' = Mem0
    BY <2>4, ValueAssumption
  <2> QED
    BY <1>1, <1>2, <1>3, <1>12, <2>5, EmptyEnd DEF InitialState
<1>13. CASE Runs
  <2>1. job.start < job.limit /\ job.limit # 0
    BY <1>9, <1>13, <1>11 DEF Runs
  <2>2. ~NilFields /\ LengthsOK
    BY <1>1, <1>13 DEF ShortInv
  <2>3. InTrip
    BY <1>1, <2>1, <2>2, ChecksSuffice DEF InTrip
  <2>4. Inside(job.start)
    BY <1>4, <1>5, <1>9, <1>11, <2>3 DEF Inside
  <2>5. Pos = job.start
    <3>1. 0 * Lanes = 0
      BY LanesType
    <3> QED
      BY <1>1, <1>3, <3>1 DEF Pos
  <2>6. ChunkOK
    <3>1. ~After(job, job.start).panicked
      BY <1>1, RunIs DEF InitialState
    <3> QED
      BY <1>1, <2>1, <2>4, <2>5, <3>1 DEF ChunkOK
  <2>7. ~After(job, job.limit).panicked /\ After(job, job.limit) \in State
    <3>1. job.limit \in Pos..job.limit
      BY <1>1, <2>1, <2>5
    <3> QED
      BY <1>1, <2>1, <2>6, <3>1, ChunkKeeps, RunIs
  <2>8. ASSUME NEW a \in Addr PROVE mem'[a] = After(job, job.limit).mem[a]
    <3> DEFINE b == a - ElementAddr(job, ref, job.start)
               x == job.start + b
    <3>1. b \in Int /\ x \in Int /\ a \in Int /\ a = ElementAddr(job, ref, x)
      BY <1>8, <1>11 DEF ElementAddr, Addr
    <3>2. CASE b \in 0..(job.limit - job.start - 1)
      <4>1. x \in job.start..(job.limit - 1)
        BY <1>1, <3>1, <3>2, SMTT(30)
      <4>2. After(job, job.limit).mem[a] = Mem0[ElementAddr(job, ld.ref, x + ld.off)]
        BY <1>1, <2>5, <2>6, <3>1, <4>1, CopyElement DEF ref, ld
      <4>3. x + ld.off < job.slices[ld.ref].len
        <5>1. job.limit - 1 + ld.off < job.slices[ld.ref].len
          <6>1. InRange(job, src[1], job.limit - 1 + src[3])
            BY <1>4, <2>3 DEF InTrip
          <6>2. InRange(job, ld.ref, job.limit - 1 + ld.off)
            BY <1>5, <6>1
          <6> QED
            BY <1>8, <1>11, <6>2 DEF InRange
        <5> QED
          BY <1>8, <1>11, <3>1, <4>1, <5>1
      <4>4. b < job.slices[ld.ref].len - (job.start + ld.off)
        BY <1>8, <1>11, <3>1, <4>3
      <4>5. ElementAddr(job, ld.ref, job.start + ld.off) + b = ElementAddr(job, ld.ref, x + ld.off)
        BY <1>8, <1>11, <3>1 DEF ElementAddr
      <4> HIDE DEF x, b
      <4>6. mem'[a] = Mem0[ElementAddr(job, ld.ref, job.start + ld.off) + b]
        BY <1>10, <3>2, <4>4 DEF b
      <4> QED
        BY <4>2, <4>5, <4>6
    <3>3. CASE b \notin 0..(job.limit - job.start - 1)
      <4>1. mem'[a] = Mem0[a]
        BY <1>10, <3>3
      <4>2. \A other \in Stored(job.body), y \in Pos..(job.limit - 1) : a # ElementAddr(job, other, y)
        BY <1>4, <1>8, <1>11, <2>5, <3>1, <3>3 DEF ElementAddr
      <4>3. job.limit \in Pos..job.limit
        BY <1>1, <2>1, <2>5
      <4>4. After(job, job.limit).mem[a] = After(job, Pos).mem[a]
        BY <2>6, <4>2, <4>3, ChunkKeeps
      <4>5. After(job, Pos) = InitialState
        BY <1>1, <2>5, RunIs
      <4>6. InitialState.mem = Mem0
        BY DEF InitialState
      <4> QED
        BY <4>1, <4>4, <4>5, <4>6
    <3> QED
      BY <3>2, <3>3
  <2>9. mem' = After(job, job.limit).mem
    <3>1. After(job, job.limit).mem \in [Addr -> Value]
      BY <2>7 DEF State
    <3>2. mem' = [a \in Addr |-> mem'[a]]
      BY <1>10
    <3> QED
      BY <2>8, <3>1, <3>2
  <2>10. After(job, job.limit).acc = Acc0
    BY <1>1, <1>4, <2>1, <2>7, NoFoldEnd
  <2> QED
    BY <1>1, <1>2, <1>3, <2>1, <2>7, <2>9, <2>10, ForwardEnd
<1> QED
  BY <1>12, <1>13, SMTT(30)

(* Every step keeps EndInv.                                                *)
LEMMA EndStep ==
  ASSUME Inv, ShortInv, StartInv, LaneInv, ScalarPrefix, FreshInv, RestInv, OriginalInv, EndInv, [Next]_vars
  PROVE  EndInv'
<1>1. job' = job
  BY JobKept
<1>2. CASE UNCHANGED vars
  BY <1>2 DEF vars, EndInv
<1>3. CASE Hoist \/ LengthCheck \/ ChunkTest
  BY <1>3, EndHoist, EndLength, EndChunks
<1>4. CASE CopyCall
  <2>1. pc' \in {"done", "panic"}
    BY <1>4 DEF CopyCall, Stop, Goto
  <2>2. CASE pc' = "done"
    BY <1>1, <1>4, <2>2, EndCopyDone DEF EndInv
  <2>3. CASE pc' = "panic"
    BY <1>1, <1>4, <2>3, EndCopyPanic DEF EndInv
  <2> QED
    BY <2>1, <2>2, <2>3, SMTT(30)
<1>5. CASE LoadAhead \/ VectorPanic
  BY <1>5, EndLoad, EndVector
<1>6. CASE ScalarBegin \/ ScalarStatement
  BY <1>6, EndBegin, EndStatement
<1>7. CASE OverlapCheck \/ CountTest \/ MainTest \/ SingleTest \/ NextCopy \/ Advance
  BY <1>7 DEF OverlapCheck, CountTest, MainTest, SingleTest, NextCopy, Advance, StartBody, Stop, Goto, EndInv
<1>8. CASE VectorLet \/ VectorFold \/ VectorStore \/ MergeCopy \/ FoldLane \/ NextFold \/ Remainder \/ ScalarAdvance
  BY <1>8 DEF VectorLet, VectorFold, VectorStore, Running, MergeCopy, FoldLane, NextFold, Combining,
     Remainder, ScalarAdvance, Goto, EndInv
<1> QED
  BY <1>2, <1>3, <1>4, <1>5, <1>6, <1>7, <1>8 DEF Next, Terminated

-----------------------------------------------------------------------------
(***************************************************************************)
(* The promise of the rewrite.                                             *)
(***************************************************************************)

(* Everything the invariants say, at once.                                 *)
AllInv ==
  /\ Inv /\ ShortInv /\ HeldInv /\ StartInv /\ LaneInv /\ ScalarPrefix
  /\ FreshInv /\ FoldInv /\ RestInv /\ OriginalInv /\ EndInv

(* They hold when the code starts,                                         *)
LEMMA AllInit == ASSUME Init PROVE AllInv
<1>1. Inv
  BY InvInit
<1>2. ShortInv /\ HeldInv /\ StartInv /\ LaneInv /\ ScalarPrefix
  BY DEF Init, ShortInv, HeldInv, StartInv, LaneInv, ScalarPrefix
<1>3. FreshInv /\ FoldInv /\ RestInv /\ EndInv
  BY DEF Init, FreshInv, FoldInv, RestInv, EndInv
<1> QED
  BY <1>1, <1>2, <1>3, OriginalInit DEF AllInv

(* and every step keeps them.                                              *)
LEMMA AllStep == ASSUME AllInv, [Next]_vars PROVE AllInv'
<1>1. Inv' /\ ShortInv' /\ HeldInv' /\ StartInv'
  BY InvStep, ShortStep, HeldStep, StartStep DEF AllInv
<1>2. LaneInv' /\ ScalarPrefix'
  BY LaneStep, PrefixStep DEF AllInv
<1>3. FreshInv' /\ FoldInv'
  BY FreshStep, FoldStep DEF AllInv
<1>4. RestInv' /\ OriginalInv' /\ EndInv'
  BY RestStep, OriginalStep, EndStep DEF AllInv
<1> QED
  BY <1>1, <1>2, <1>3, <1>4 DEF AllInv

(* When the code ends, memory and accumulators are what the source loop    *)
(* leaves, and it panics only where the source loop panics: for every      *)
(* loop, for slices that overlap in any way, for every number of lanes.    *)
THEOREM EndsAsSource == Spec => []EndInv
<1>1. AllInv /\ [Next]_vars => AllInv'
  BY AllStep
<1>2. AllInv => EndInv
  BY DEF AllInv
<1>3. Init => AllInv
  BY AllInit, SMTT(30)
<1> QED
  BY <1>1, <1>2, <1>3, PTL DEF Spec

(* Once it ended the code does nothing more.                               *)
Final == pc \in {"done", "panic"}

(* A step of the code leaves the job, and once it ended everything.        *)
LEMMA Ends == ASSUME [Next]_vars PROVE job' = job /\ (Final => UNCHANGED vars)
BY DEF Next, vars, Hoist, OverlapCheck, LengthCheck, CopyCall, ChunkTest, CountTest, MainTest,
   SingleTest, LoadAhead, VectorLet, VectorFold, VectorStore, VectorPanic, NextCopy, Advance,
   MergeCopy, FoldLane, NextFold, Remainder, ScalarBegin, ScalarStatement, ScalarAdvance,
   Terminated, Running, Combining, Final

(* The code emitted for a loop implements what it promises: every step is  *)
(* invisible to the function around the loop, but the one that ends it,    *)
(* which does what the whole source loop does.                             *)
THEOREM ImplementsContract == Spec => KeepsContract
<1>1. Init => Contract!Init
  BY JobsAssumption DEF Init, Contract!Init
<1>2. [Next]_vars /\ EndInv' => [Contract!Finish \/ Contract!Panic]_(Contract!vars)
  <2> SUFFICES ASSUME [Next]_vars, EndInv' PROVE [Contract!Finish \/ Contract!Panic]_(Contract!vars)
    OBVIOUS
  <2>1. CASE Final
    BY <2>1, Ends DEF vars, Contract!vars
  <2>2. CASE ~Final /\ pc' = "done"
    BY <2>2, Ends DEF EndInv, Contract!Finish, Final
  <2>3. CASE ~Final /\ pc' = "panic"
    BY <2>3, Ends DEF EndInv, Contract!Panic, Final, Contract!vars
  <2>4. CASE ~Final /\ ~Final'
    BY <2>4, Ends DEF Contract!vars, Final
  <2> QED
    BY <2>1, <2>2, <2>3, <2>4 DEF Final
<1> QED
  BY <1>1, <1>2, EndsAsSource, PTL DEF Spec, KeepsContract, Contract!Spec
=============================================================================
