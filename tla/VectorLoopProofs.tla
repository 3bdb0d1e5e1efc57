--------------------------- MODULE VectorLoopProofs ---------------------------
(***************************************************************************)
(* What holds of the emitted code for every job, vector length, plan       *)
(* constant and memory.                                                    *)
(***************************************************************************)
EXTENDS VectorLoop, SequenceTheorems, FiniteSetTheorems, TLAPS
LOCAL INSTANCE FiniteSetsExt

-----------------------------------------------------------------------------
(***************************************************************************)
(* Least elements, which stand in for induction: a property that fails     *)
(* somewhere fails somewhere first.  A set takes the place of the          *)
(* property, and a function that of the step of a recursive definition.    *)
(***************************************************************************)

(* A nonempty set of naturals has a least element; "the first arm whose    *)
(* condition holds" and "the lowest offset" are meant in this sense.       *)
(* Otherwise the naturals up to one of its elements that some element does *)
(* not exceed would be as many as those but the last.                      *)
LEMMA LeastNatural == ASSUME NEW S \in SUBSET Nat, S # {} PROVE \E x \in S : \A y \in S : x <= y
<1> SUFFICES ASSUME \A x \in S : \E y \in S : y < x PROVE FALSE
  OBVIOUS
<1>1. PICK top \in S : TRUE
  OBVIOUS
<1> DEFINE D == {x \in 0..top : \E y \in S : y <= x}
           E == D \ {top}
           f == [x \in D |-> x - 1]
<1>2. top \in Nat /\ top \in D
  BY <1>1
<1>3. IsFiniteSet(D)
  <2>1. IsFiniteSet(0..top)
    BY <1>2, FS_Interval
  <2> QED
    BY <2>1, FS_Subset
<1>4. IsFiniteSet(E) /\ Cardinality(E) < Cardinality(D)
  <2> HIDE DEF D
  <2>1. Cardinality(D) \in Nat
    BY <1>3, FS_CardinalityType
  <2>2. IsFiniteSet(E) /\ Cardinality(E) = IF top \in D THEN Cardinality(D) - 1 ELSE Cardinality(D)
    BY <1>3, FS_RemoveElement
  <2> QED
    BY <1>2, <2>1, <2>2
<1>5. f \in [D -> E]
  <2> SUFFICES ASSUME NEW x \in D PROVE x - 1 \in E
    OBVIOUS
  <2>1. PICK y \in S : y <= x
    OBVIOUS
  <2>2. PICK z \in S : z < y
    OBVIOUS
  <2>3. x \in 0..top /\ y \in Nat /\ z \in Nat
    OBVIOUS
  <2>4. x - 1 \in 0..top /\ z <= x - 1 /\ x - 1 # top
    BY <1>2, <2>1, <2>2, <2>3
  <2> QED
    BY <2>2, <2>4
<1>6. \A x, y \in D : f[x] = f[y] => x = y
  OBVIOUS
<1> HIDE DEF D, E, f
<1>7. \E x, y \in D : x # y /\ f[x] = f[y]
  BY <1>3, <1>4, <1>5, FS_PigeonHole
<1> QED
  BY <1>6, <1>7

(* What holds at zero and is passed on by every number below N holds up to *)
(* N.                                                                      *)
LEMMA StepByStep ==
  ASSUME NEW N \in Nat, NEW G, 0 \in G, \A m \in 0..(N - 1) : m \in G => m + 1 \in G
  PROVE  \A m \in 0..N : m \in G
<1> DEFINE Bad == {m \in 0..N : m \notin G}
<1> SUFFICES ASSUME Bad # {} PROVE FALSE
  OBVIOUS
<1>1. Bad \in SUBSET Nat
  OBVIOUS
<1>2. PICK m \in Bad : \A y \in Bad : m <= y
  <2> HIDE DEF Bad
  <2> QED
    BY <1>1, LeastNatural
<1>3. m \in 0..N /\ m \notin G /\ m # 0
  OBVIOUS
<1>4. m - 1 \in 0..(N - 1) /\ m - 1 + 1 = m /\ m - 1 \in 0..N
  BY <1>3
<1>5. m - 1 \notin G
  BY <1>3, <1>4
<1>6. m - 1 \in Bad
  BY <1>4, <1>5
<1>7. m <= m - 1
  <2> HIDE DEF Bad
  <2> QED
    BY <1>2, <1>6
<1> QED
  BY <1>3, <1>7

(* There is a sequence that starts with d and goes on as F says.           *)
Follows(f, N, d, F) == f = [m \in 0..N |-> IF m = 0 THEN d ELSE F[<<f[m - 1], m>>]]

LEMMA SequenceExists ==
  ASSUME NEW D, NEW d \in D, NEW N \in Nat, NEW F \in [D \X (1..N) -> D]
  PROVE  \E f \in [0..N -> D] : Follows(f, N, d, F)
<1> DEFINE Good(f, m) == f \in [0..m -> D] /\ f[0] = d /\ \A x \in 1..m : f[x] = F[<<f[x - 1], x>>]
           G == {m \in 0..N : \E f : Good(f, m)}
<1>1. 0 \in G
  <2>1. Good([m \in 0..0 |-> d], 0)
    OBVIOUS
  <2> HIDE DEF Good
  <2> QED
    BY <2>1
<1>2. ASSUME NEW m \in 0..(N - 1), m \in G PROVE m + 1 \in G
  <2>1. PICK f : Good(f, m)
    BY <1>2
  <2> DEFINE g == [x \in 0..(m + 1) |-> IF x <= m THEN f[x] ELSE F[<<f[m], m + 1>>]]
  <2>2. f[m] \in D /\ m + 1 \in 1..N
    BY <2>1
  <2>3. F[<<f[m], m + 1>>] \in D
    BY <2>2
  <2>4. (\A x \in 0..m : g[x] = f[x] /\ f[x] \in D) /\ g[m + 1] = F[<<f[m], m + 1>>]
    BY <2>1
  <2>5. g \in [0..(m + 1) -> D] /\ g[0] = d
    BY <2>1, <2>3, <2>4
  <2>6. \A x \in 1..(m + 1) : g[x] = F[<<g[x - 1], x>>]
    <3> TAKE x \in 1..(m + 1)
    <3>1. x - 1 \in 0..m
      OBVIOUS
    <3>2. g[x - 1] = f[x - 1]
      BY <2>4, <3>1
    <3>3. CASE x <= m
      BY <2>1, <2>4, <3>2, <3>3
    <3>4. CASE x = m + 1
      <4>1. x - 1 = m
        BY <3>4
      <4> HIDE DEF g
      <4> QED
        BY <2>4, <3>2, <3>4, <4>1
    <3> QED
      BY <3>3, <3>4
  <2>7. Good(g, m + 1)
    <3> HIDE DEF g
    <3> QED
      BY <2>5, <2>6
  <2> HIDE DEF Good, g
  <2> QED
    BY <2>2, <2>7
<1>3. N \in G
  <2> HIDE DEF G
  <2> QED
    BY <1>1, <1>2, StepByStep
<1>4. PICK f : Good(f, N)
  BY <1>3
<1>5. f = [m \in 0..N |-> f[m]]
  BY <1>4
<1>6. \A m \in 0..N : f[m] = IF m = 0 THEN d ELSE F[<<f[m - 1], m>>]
  BY <1>4
<1> QED
  BY <1>4, <1>5, <1>6 DEF Follows

(* A nonempty set of ints, the machine's, has a Min and a Max.             *)
LEMMA IntsBounded ==
  ASSUME NEW S \in SUBSET (-MaxInt..MaxInt), S # {}
  PROVE  /\ Min(S) \in S /\ \A x \in S : Min(S) <= x
         /\ Max(S) \in S /\ \A x \in S : x <= Max(S)
<1>0. MaxInt \in Nat /\ \A x \in S : x \in Int /\ -MaxInt <= x /\ x <= MaxInt
  BY NamesAssumption
<1>1. \E x \in S : \A y \in S : x <= y
  <2> DEFINE T == {x + MaxInt : x \in S}
  <2>1. T \in SUBSET Nat /\ T # {}
    <3>1. \A t \in T : t \in Nat
      BY <1>0
    <3> QED
      BY <3>1, Zenon
  <2>2. PICK t \in T : \A y \in T : t <= y
    BY <2>1, LeastNatural
  <2>3. PICK x \in S : t = x + MaxInt
    BY <2>2
  <2>4. \A y \in S : x + MaxInt <= y + MaxInt
    BY <2>2, <2>3
  <2> QED
    BY <2>3, <2>4, <1>0
<1>2. \E x \in S : \A y \in S : y <= x
  <2> DEFINE T == {MaxInt - x : x \in S}
  <2>1. T \in SUBSET Nat /\ T # {}
    <3>1. \A t \in T : t \in Nat
      BY <1>0
    <3> QED
      BY <3>1, Zenon
  <2>2. PICK t \in T : \A y \in T : t <= y
    BY <2>1, LeastNatural
  <2>3. PICK x \in S : t = MaxInt - x
    BY <2>2
  <2>4. \A y \in S : MaxInt - x <= MaxInt - y
    BY <2>2, <2>3
  <2> QED
    BY <2>3, <2>4, <1>0
<1>3. Min(S) \in S /\ \A x \in S : Min(S) <= x
  BY <1>1 DEF Min
<1>4. Max(S) \in S /\ \A x \in S : Max(S) >= x
  BY <1>2 DEF Max
<1> QED
  BY <1>3, <1>4, <1>0

-----------------------------------------------------------------------------
(***************************************************************************)
(* Types of the pieces of a job.                                           *)
(***************************************************************************)
Access == SliceNames \X OffsetKind \X (-MaxInt..MaxInt)

(* A load's key is a slice, how the offset is written, and an int.         *)
LEMMA KeyType == \A ld \in Load : Key(ld) \in Access
  BY DEF Key, Access, Load

(* The access at the index itself is one.                                  *)
LEMMA AtIndexType == \A ref \in SliceNames : AtIndex(ref) \in Access /\ LoadAtIndex(ref) \in Load
  BY NamesAssumption DEF AtIndex, LoadAtIndex, Access, Load, OffsetKind

(* An arm has an expression for its value and expressions to compare.      *)
LEMMA ArmType ==
  ASSUME NEW s \in Statement, NEW a \in DOMAIN s.arms
  PROVE  s.arms[a].val \in Expr /\ s.arms[a].cond.clauses \in Seq(Expr)
<1>1. s.arms \in Seq(Arm)
  BY DEF Statement
<1>2. s.arms[a] \in Arm
  BY <1>1
<1>3. s.arms[a].cond \in Cond /\ s.arms[a].val \in Expr
  BY <1>2 DEF Arm
<1> QED
  BY <1>3 DEF Cond

(* The value without an else branch is an expression too.                  *)
LEMMA OtherValueType == ASSUME NEW s, StatementOK(s) PROVE OtherValue(s) \in Expr
<1>1. s \in Statement
  BY DEF StatementOK
<1>2. CASE HasElse(s)
  BY <1>1, <1>2 DEF OtherValue, HasElse, Statement
<1>3. CASE ~HasElse(s) /\ s.kind = "store"
  <2>1. LoadAtIndex(s.target) \in Load
    BY <1>3, AtIndexType DEF StatementOK
  <2>2. ReadOf(<<LoadAtIndex(s.target)>>) \in Expr
    <3>1. << >> \in Seq(TempNames) /\ <<LoadAtIndex(s.target)>> \in Seq(Load)
      BY <2>1
    <3>2. "id" \in Fns /\ MaxArity \in Nat /\ 1 <= MaxArity
      BY NamesAssumption
    <3>3. ReadOf(<<LoadAtIndex(s.target)>>) \in [fn: Fns, loads: Seq(Load), temps: Seq(TempNames)]
      BY <3>1, <3>2 DEF ReadOf
    <3>4. Len(<<LoadAtIndex(s.target)>>) + Len(<< >>) <= MaxArity
      BY <3>2
    <3> QED
      BY <3>3, <3>4, Zenon DEF ReadOf, Expr
  <2> QED
    BY <1>3, <2>2 DEF OtherValue
<1>4. CASE ~HasElse(s) /\ s.kind # "store"
  <2>1. s.kind = "let"
    BY <1>1, <1>4 DEF StatementOK, Statement, HasElse
  <2>2. UseOf(s.target) \in Expr
    <3>1. << >> \in Seq(Load) /\ <<s.target>> \in Seq(TempNames)
      BY <2>1 DEF StatementOK
    <3>2. "id" \in Fns /\ MaxArity \in Nat /\ 1 <= MaxArity
      BY NamesAssumption
    <3>3. UseOf(s.target) \in [fn: Fns, loads: Seq(Load), temps: Seq(TempNames)]
      BY <3>1, <3>2 DEF UseOf
    <3>4. Len(<< >>) + Len(<<s.target>>) <= MaxArity
      BY <3>2
    <3> QED
      BY <3>3, <3>4, Zenon DEF UseOf, Expr
  <2> QED
    BY <1>4, <2>1, <2>2 DEF OtherValue
<1> QED
  BY <1>2, <1>3, <1>4

(* The leaves of an expression are loads.                                  *)
LEMMA ExprLoadsType == ASSUME NEW e \in Expr PROVE Loads(e) \subseteq Load
  BY DEF Loads, Expr

(* The loads of a statement are those of its conditions and its values.    *)
LEMMA LoadsParts ==
  ASSUME NEW s, NEW ld
  PROVE  ld \in LoadsOf(s) <=>
           \/ \E a \in DOMAIN s.arms : ld \in CondLoads(s.arms[a].cond) \cup Loads(s.arms[a].val)
           \/ ld \in Loads(OtherValue(s))
  BY DEF LoadsOf

(* So are those of a statement, its conditions included.                   *)
LEMMA LoadsOfType == ASSUME NEW s, StatementOK(s) PROVE LoadsOf(s) \subseteq Load
<1>1. s \in Statement
  BY DEF StatementOK
<1>2. \A a \in DOMAIN s.arms : Loads(s.arms[a].val) \subseteq Load
  BY <1>1, ArmType, ExprLoadsType
<1>3. \A a \in DOMAIN s.arms : CondLoads(s.arms[a].cond) \subseteq Load
  <2> TAKE a \in DOMAIN s.arms
  <2>1. s.arms[a].cond.clauses \in Seq(Expr)
    BY <1>1, ArmType
  <2>2. \A m \in DOMAIN s.arms[a].cond.clauses : Loads(s.arms[a].cond.clauses[m]) \subseteq Load
    BY <2>1, ExprLoadsType
  <2> QED
    BY <2>2 DEF CondLoads
<1>4. Loads(OtherValue(s)) \subseteq Load
  BY OtherValueType, ExprLoadsType
<1> QED
  BY <1>2, <1>3, <1>4, LoadsParts

-----------------------------------------------------------------------------
(***************************************************************************)
(* Expressions yield elements.                                             *)
(***************************************************************************)
(* An expression whose leaves are elements is one.                         *)
LEMMA ExprValueType ==
  ASSUME NEW e \in Expr, NEW reads, \A ld \in Loads(e) : reads[ld] \in Value,
         NEW held \in [TempNames -> Value]
  PROVE  ExprValue(e, reads, held) \in Value
<1> DEFINE xs == [x \in 1..Len(e.loads) |-> reads[e.loads[x]]]
           ys == [x \in 1..Len(e.temps) |-> held[e.temps[x]]]
<1>1. e.loads \in Seq(Load) /\ e.temps \in Seq(TempNames) /\ e.fn \in Fns
      /\ Len(e.loads) + Len(e.temps) <= MaxArity
  BY DEF Expr
<1>2. xs \in Seq(Value) /\ Len(xs) = Len(e.loads)
  BY <1>1 DEF Loads
<1>3. ys \in Seq(Value) /\ Len(ys) = Len(e.temps)
  BY <1>1
<1> HIDE DEF xs, ys
<1>4. xs \o ys \in Seq(Value) /\ Len(xs \o ys) = Len(xs) + Len(ys)
  BY <1>2, <1>3, ConcatProperties
<1>5. Len(xs \o ys) \in 0..MaxArity
  <2>1. Len(e.loads) \in Nat /\ Len(e.temps) \in Nat /\ MaxArity \in Nat
    BY <1>1, NamesAssumption
  <2>2. Len(xs \o ys) = Len(e.loads) + Len(e.temps)
    BY <1>2, <1>3, <1>4
  <2>3. \A x, y, m \in Nat : x + y <= m => x + y \in 0..m
    OBVIOUS
  <2> QED
    BY <1>1, <2>1, <2>2, <2>3
<1>7. xs \o ys \in [1..Len(xs \o ys) -> Value]
  BY <1>4, LenProperties
<1>6. Apply(e.fn, xs \o ys) \in Value
  BY <1>1, <1>5, <1>7, OperationsAssumption
<1> QED
  BY <1>6 DEF ExprValue, xs, ys

(* Of the arms whose condition holds, one comes first.                     *)
LEMMA SomeArmTaken ==
  ASSUME NEW s \in Statement, NEW reads, NEW held, ~TakesOther(s, reads, held)
  PROVE  \E a \in DOMAIN s.arms : TakesArm(s, a, reads, held)
<1> DEFINE S == {a \in DOMAIN s.arms : CondHolds(s.arms[a].cond, reads, held)}
<1>1. DOMAIN s.arms = 1..Len(s.arms) /\ Len(s.arms) \in Nat
  BY DEF Statement
<1>2. S \in SUBSET Nat /\ S # {}
  BY <1>1 DEF TakesOther
<1>3. PICK a \in S : \A b \in S : a <= b
  BY <1>2, LeastNatural
<1>4. \A b \in 1..(a - 1) : b \in DOMAIN s.arms /\ b \notin S
  BY <1>1, <1>3
<1> QED
  BY <1>3, <1>4 DEF TakesArm

(* So is the value an if/else if chain selects.                            *)
LEMMA SelectValueType ==
  ASSUME NEW s, StatementOK(s), NEW reads, \A ld \in LoadsOf(s) : reads[ld] \in Value,
         NEW held \in [TempNames -> Value]
  PROVE  SelectValue(s, reads, held) \in Value
<1>1. s \in Statement
  BY DEF StatementOK
<1>2. CASE TakesOther(s, reads, held)
  <2>1. \A ld \in Loads(OtherValue(s)) : reads[ld] \in Value
    BY LoadsParts
  <2> QED
    BY <1>2, <2>1, OtherValueType, ExprValueType DEF SelectValue
<1>3. CASE ~TakesOther(s, reads, held)
  <2> DEFINE a == CHOOSE b \in DOMAIN s.arms : TakesArm(s, b, reads, held)
  <2>1. a \in DOMAIN s.arms
    BY <1>1, <1>3, SomeArmTaken
  <2> HIDE DEF a
  <2>2. s.arms[a].val \in Expr
    BY <1>1, <2>1, ArmType
  <2>3. \A ld \in Loads(s.arms[a].val) : reads[ld] \in Value
    BY <2>1, LoadsParts
  <2>4. ExprValue(s.arms[a].val, reads, held) \in Value
    BY <2>2, <2>3, ExprValueType
  <2> QED
    BY <1>3, <2>4 DEF SelectValue, a
<1> QED
  BY <1>2, <1>3

-----------------------------------------------------------------------------
(***************************************************************************)
(* Partial loads and stores stay inside their slice.                       *)
(***************************************************************************)
(* A vector has at least one lane, and no length is NoLanes.               *)
LEMMA LanesType == Lanes \in Nat /\ Lanes >= 1 /\ NoLanes \notin Int
  BY LanesAssumption, PlanAssumption

(* A body is emitted at most four times.                                   *)
LEMMA CopiesType == Copies \in 1..4
  BY DEF Copies

(* A slice of a job lies in memory.                                        *)
LEMMA SliceType ==
  ASSUME JobOK(job), NEW ref \in SliceNames
  PROVE  /\ job.slices[ref].base \in Nat /\ job.slices[ref].len \in Nat
         /\ job.slices[ref].base + job.slices[ref].len <= MemSize
  BY DEF JobOK, SlicesOK

(* The bounds of a job are ints.                                           *)
LEMMA HeaderType == ASSUME JobOK(job) PROVE job.start \in Int /\ job.limit \in Int
  BY DEF JobOK, HeaderOK

(* Each statement of a job is one the lowering builds.                     *)
LEMMA BodyType ==
  ASSUME JobOK(job), NEW s \in DOMAIN job.body
  PROVE  StatementOK(job.body[s]) /\ job.body[s] \in Statement
  BY DEF JobOK, StatementOK

(* A body is numbered from 1.                                              *)
LEMMA BodyLength == ASSUME JobOK(job) PROVE Len(job.body) \in Nat /\ DOMAIN job.body = 1..Len(job.body)
  BY DEF JobOK

(* The three parts of an access.                                           *)
LEMMA AccessType ==
  ASSUME NEW key \in Access
  PROVE  key[1] \in SliceNames /\ key[2] \in OffsetKind /\ key[3] \in Int
<1>1. MaxInt \in Nat
  BY NamesAssumption
<1> QED
  BY <1>1 DEF Access

(* An operand that can be sliced lies in its slice, and covers at most a   *)
(* vector.                                                                 *)
LEMMA CoveredType ==
  ASSUME JobOK(job), NEW key \in Access, NEW pos \in Int, OperandOK(key, pos)
  PROVE  /\ Covered(key, pos) \in 0..Lanes
         /\ OperandLow(key, pos) \in Nat
         /\ OperandLow(key, pos) + Covered(key, pos) <= OperandHigh(key)
         /\ OperandHigh(key) \in Int /\ OperandHigh(key) <= job.slices[key[1]].len
<1>1. OperandHigh(key) \in Int
  BY SliceType, HeaderType, AccessType DEF OperandHigh
<1>2. OperandLow(key, pos) \in Int
  BY AccessType DEF OperandLow
<1> QED
  BY <1>1, <1>2, LanesType DEF Covered, OperandOK, OperandLen

(* A load of an operand that can be sliced reads memory, or zeros.         *)
LEMMA LoadVectorType ==
  ASSUME JobOK(job), NEW key \in Access, NEW pos \in Int, OperandOK(key, pos), mem \in [Addr -> Value]
  PROVE  LoadVector(key, pos) \in Vector
<1> DEFINE low == OperandLow(key, pos)
           covered == Covered(key, pos)
<1>1. \A l \in Lane : l < covered => ElementAddr(job, key[1], low) + l \in Addr
  <2>1. covered \in 0..Lanes /\ low \in Nat /\ low + covered <= job.slices[key[1]].len
    BY CoveredType, AccessType, SliceType
  <2>2. /\ job.slices[key[1]].base \in Nat /\ job.slices[key[1]].len \in Nat
        /\ job.slices[key[1]].base + job.slices[key[1]].len <= MemSize
    BY SliceType, AccessType
  <2>3. MemSize \in Nat
    BY ValueAssumption
  <2>4. \A l \in Lane : l \in Nat
    BY LanesType DEF Lane
  <2>5. ElementAddr(job, key[1], low) = job.slices[key[1]].base + low
    BY DEF ElementAddr
  <2>6. \A b, len, w, c, l, m \in Nat :
          w + c <= len /\ b + len <= m /\ l < c => (b + w) + l \in 0..(m - 1)
    OBVIOUS
  <2>7. covered \in Nat
    BY <2>1, LanesType
  <2> HIDE DEF low, covered
  <2> QED
    BY <2>1, <2>2, <2>3, <2>4, <2>5, <2>6, <2>7 DEF Addr
<1>2. \A l \in Lane : (IF l < covered THEN mem[ElementAddr(job, key[1], low) + l] ELSE Zero) \in Value
  BY <1>1, ValueAssumption
<1> QED
  BY <1>2 DEF LoadVector, Vector

(* A store keeps memory a memory.                                          *)
LEMMA StoreVectorType ==
  ASSUME JobOK(job), NEW key \in Access, NEW pos \in Int, OperandOK(key, pos),
         mem \in [Addr -> Value], NEW vec \in Vector
  PROVE  StoreVector(key, pos, vec) \in [Addr -> Value]
<1>1. Covered(key, pos) \in 0..Lanes
  BY CoveredType
<1>2. \A l \in 0..(Covered(key, pos) - 1) : vec[l] \in Value
  BY <1>1, LanesType DEF Vector, Lane
<1> QED
  BY <1>2 DEF StoreVector

(* A store writes nothing outside its operand.                             *)
LEMMA StoreVectorWithin ==
  ASSUME JobOK(job), NEW key \in Access, NEW pos \in Int, OperandOK(key, pos),
         NEW vec, NEW a \in Addr, StoreVector(key, pos, vec)[a] # mem[a]
  PROVE  a - job.slices[key[1]].base \in OperandLow(key, pos)..(OperandHigh(key) - 1)
<1> DEFINE low == OperandLow(key, pos)
           l == a - ElementAddr(job, key[1], low)
<1>1. l \in 0..(Covered(key, pos) - 1)
  BY DEF StoreVector
<1>2. /\ Covered(key, pos) \in 0..Lanes /\ low \in Nat /\ OperandHigh(key) \in Int
      /\ low + Covered(key, pos) <= OperandHigh(key)
  BY CoveredType
<1>3. a \in Int /\ job.slices[key[1]].base \in Int /\ l = a - (job.slices[key[1]].base + low)
  BY SliceType, AccessType, ValueAssumption DEF Addr, ElementAddr
<1> HIDE DEF low, l
<1> QED
  BY <1>1, <1>2, <1>3, LanesType DEF low

-----------------------------------------------------------------------------
(***************************************************************************)
(* The vectors a statement works with.                                     *)
(***************************************************************************)
(* Each unrolled copy of a body works at an int.                           *)
LEMMA PosType == ASSUME TypeOK PROVE Pos \in Int
<1>1. i \in Int /\ copy \in Nat /\ Lanes \in Nat
  BY CopiesType, LanesType DEF TypeOK
<1> QED
  BY <1>1 DEF Pos

(* The keys of loads are accesses.                                         *)
LEMMA KeysType == ASSUME NEW loads \in SUBSET Load PROVE Keys(loads) \subseteq Access
  BY KeyType DEF Keys

(* What is loaded, and what was loaded before, are vectors.                *)
LEMMA WithLoadsType ==
  ASSUME TypeOK, JobOK(job), NEW loads \in SUBSET Load, LoadsOK(loads)
  PROVE  \A key \in DOMAIN WithLoads(loads) : WithLoads(loads)[key] \in Vector
<1>1. \A key \in Keys(loads) \ DOMAIN loaded : LoadVector(key, Pos) \in Vector
  <2> TAKE key \in Keys(loads) \ DOMAIN loaded
  <2>1. key \in Access
    BY KeysType
  <2>2. OperandOK(key, Pos)
    BY DEF LoadsOK, AccessOK
  <2> QED
    BY <2>1, <2>2, PosType, LoadVectorType DEF TypeOK
<1>2. \A key \in DOMAIN loaded : loaded[key] \in Vector
  BY DEF TypeOK
<1> QED
  BY <1>1, <1>2 DEF WithLoads

(* A statement over a vector yields a vector.                              *)
LEMMA StatementVectorType ==
  ASSUME TypeOK, JobOK(job), k \in DOMAIN job.body, CanLoad
  PROVE  StatementVector(job.body[k], Held) \in Vector
<1> DEFINE s == job.body[k]
<1>1. StatementOK(s) /\ LoadsOf(s) \in SUBSET Load
  BY BodyType, LoadsOfType
<1>2. \A ld \in LoadsOf(s) : Key(ld) \in DOMAIN Held
  BY DEF Held, WithLoads, Keys
<1>3. \A key \in DOMAIN Held : Held[key] \in Vector
  BY <1>1, WithLoadsType DEF Held, CanLoad
<1>4. temps \in [TempNames -> Vector]
  BY DEF TypeOK
<1> HIDE DEF s
<1>5. ASSUME NEW l \in Lane PROVE LaneValue(s, Held, l) \in Value
  <2> DEFINE reads == [ld \in LoadsOf(s) |-> Held[Key(ld)][l]]
             held == [t \in TempNames |-> temps[t][l]]
  <2>1. \A ld \in LoadsOf(s) : reads[ld] \in Value
    BY <1>2, <1>3 DEF Vector
  <2>2. held \in [TempNames -> Value]
    BY <1>4 DEF Vector
  <2> HIDE DEF reads, held
  <2>3. SelectValue(s, reads, held) \in Value
    BY <1>1, <2>1, <2>2, SelectValueType
  <2> QED
    BY <2>3 DEF LaneValue, reads, held
<1> QED
  BY <1>5 DEF StatementVector, Vector, s

(* The first load of a chunk gives its length.                             *)
LEMMA LanesAfterType ==
  ASSUME TypeOK, JobOK(job), NEW loads \in SUBSET Load, LoadsOK(loads),
         NEW leaves, Lists(leaves, loads), n = NoLanes => DOMAIN loaded = {}
  PROVE  /\ LanesAfter(leaves) \in Nat \cup {NoLanes}
         /\ n # NoLanes => LanesAfter(leaves) = n
         /\ LanesAfter(leaves) = NoLanes => loads = {} /\ DOMAIN WithLoads(loads) = {}
<1>1. CASE n # NoLanes
  BY <1>1 DEF LanesAfter, TypeOK
<1>2. CASE n = NoLanes /\ leaves = << >>
  <2>1. loads = {}
    BY <1>2 DEF Lists
  <2> QED
    BY <1>2, <2>1 DEF LanesAfter, WithLoads, Keys
<1>3. CASE n = NoLanes /\ leaves # << >>
  <2>1. leaves[1] \in loads
    BY <1>3 DEF Lists
  <2>2. Key(leaves[1]) \in Keys(loads) \ DOMAIN loaded /\ Key(leaves[1]) \in Access
    BY <1>3, <2>1, KeyType DEF Keys
  <2>3. OperandOK(Key(leaves[1]), Pos)
    BY <2>2 DEF LoadsOK, AccessOK
  <2>4. Covered(Key(leaves[1]), Pos) \in Nat
    BY <2>2, <2>3, PosType, CoveredType, LanesType
  <2> QED
    BY <1>3, <2>4, LanesType DEF LanesAfter
<1> QED
  BY <1>1, <1>2, <1>3

-----------------------------------------------------------------------------
(***************************************************************************)
(* The scalar statements keep memory, accumulators and locals elements.    *)
(***************************************************************************)
(* An element in range lies in memory.                                     *)
LEMMA ElementAddrType ==
  ASSUME JobOK(job), NEW ref \in SliceNames, NEW index, InRange(job, ref, index)
  PROVE  ElementAddr(job, ref, index) \in Addr
<1>1. index \in 0..(job.slices[ref].len - 1)
  BY DEF InRange
<1>2. /\ job.slices[ref].base \in Nat /\ job.slices[ref].len \in Nat
      /\ job.slices[ref].base + job.slices[ref].len <= MemSize /\ MemSize \in Nat
  BY SliceType, ValueAssumption
<1> QED
  BY <1>1, <1>2 DEF ElementAddr, Addr

(* A scalar read yields an element.                                        *)
LEMMA ScalarReadsType ==
  ASSUME JobOK(job), NEW s, StatementOK(s), NEW index,
         NEW m \in [Addr -> Value], NEW v \in Value
  PROVE  \A ld \in LoadsOf(s) : ScalarReads(job, s, index, m, v)[ld] \in Value
<1> TAKE ld \in LoadsOf(s)
<1>1. ld.ref \in SliceNames
  BY LoadsOfType DEF Load
<1>2. InRange(job, ld.ref, index + ld.off) => m[ElementAddr(job, ld.ref, index + ld.off)] \in Value
  BY <1>1, ElementAddrType
<1>3. Zero \in Value
  BY ValueAssumption
<1> QED
  BY <1>2, <1>3 DEF ScalarReads

(* A state of the scalar loop between two statements.                      *)
State == [mem: [Addr -> Value], acc: [AccNames -> Value], locals: [TempNames -> Value],
          value: Value, panicked: BOOLEAN]

(* The value a statement assigns in a state of the scalar loop.            *)
Assigned(j, s, x, st) == SelectValue(s, ScalarReads(j, s, x, st.mem, st.value), st.locals)

(* It is an element.                                                       *)
LEMMA AssignedType ==
  ASSUME JobOK(job), NEW s \in DOMAIN job.body, NEW x, NEW st \in State
  PROVE  Assigned(job, job.body[s], x, st) \in Value
<1> DEFINE stmt == job.body[s]
           reads == ScalarReads(job, stmt, x, st.mem, st.value)
<1>1. StatementOK(stmt)
  BY BodyType
<1>2. st.mem \in [Addr -> Value] /\ st.locals \in [TempNames -> Value] /\ st.value \in Value
  BY DEF State
<1>3. \A ld \in LoadsOf(stmt) : reads[ld] \in Value
  BY <1>1, <1>2, ScalarReadsType
<1> HIDE DEF stmt, reads
<1>4. SelectValue(stmt, reads, st.locals) \in Value
  BY <1>1, <1>2, <1>3, SelectValueType
<1> QED
  BY <1>4 DEF Assigned, stmt, reads

(* A statement panics, keeps what there is, or changes one element, one    *)
(* temporary or one accumulator.                                           *)
Outcome(s, x, st, next) ==
  LET new == Assigned(job, s, x, st)
  IN  \/ next = [st EXCEPT !.panicked = TRUE]
      \/ next = st
      \/ /\ s.kind = "store"
         /\ next = [st EXCEPT !.mem = [st.mem EXCEPT ![ElementAddr(job, s.target, x)] = new]]
      \/ /\ s.kind = "let"
         /\ next = [st EXCEPT !.locals = [st.locals EXCEPT ![s.target] = new]]
      \/ /\ s.kind = "reduce"
         /\ next = [st EXCEPT !.acc = [st.acc EXCEPT ![s.target] = Fold(s.op, st.acc[s.target], new)]]

(* Every statement of the source loop has one of these outcomes.           *)
LEMMA ExecCases ==
  ASSUME JobOK(job), NEW s \in DOMAIN job.body, NEW x, NEW st \in State
  PROVE  Outcome(job.body[s], x, st, ExecStatement(job, job.body[s], x, st))
<1> DEFINE stmt == job.body[s]
<1>1. stmt.kind \in {"store", "let", "reduce"}
  BY BodyType DEF Statement
<1> HIDE DEF stmt
<1> DEFINE reads == ScalarReads(job, stmt, x, st.mem, st.value)
           new == SelectValue(stmt, reads, st.locals)
<1>2. ExecStatement(job, stmt, x, st) =
        IF StatementPanics(job, stmt, x, reads, st.locals) THEN [st EXCEPT !.panicked = TRUE]
        ELSE IF ~Assigns(stmt, reads, st.locals) THEN st
        ELSE CASE stmt.kind = "store" -> [st EXCEPT !.mem[ElementAddr(job, stmt.target, x)] = new]
               [] stmt.kind = "let" -> [st EXCEPT !.locals[stmt.target] = new]
               [] stmt.kind = "reduce" -> [st EXCEPT !.acc[stmt.target] = Fold(stmt.op, @, new)]
  BY DEF ExecStatement
<1>3. Assigned(job, stmt, x, st) = new
  BY DEF Assigned
<1> HIDE DEF reads, new
<1> QED
  BY <1>1, <1>2, <1>3 DEF stmt, reads, Outcome

(* A state of the scalar loop stays one.                                   *)
LEMMA ExecState ==
  ASSUME JobOK(job), NEW s \in DOMAIN job.body, NEW x, NEW st \in State
  PROVE  ExecStatement(job, job.body[s], x, st) \in State
<1> DEFINE new == Assigned(job, job.body[s], x, st)
           next == ExecStatement(job, job.body[s], x, st)
           stmt == job.body[s]
<1>1. /\ new \in Value
      /\ StatementOK(stmt) /\ stmt \in Statement
  BY AssignedType, BodyType
<1>2. \/ next = [st EXCEPT !.panicked = TRUE]
      \/ next = st
      \/ next = [st EXCEPT !.mem = [st.mem EXCEPT ![ElementAddr(job, stmt.target, x)] = new]]
      \/ next = [st EXCEPT !.locals = [st.locals EXCEPT ![stmt.target] = new]]
      \/ /\ stmt.kind = "reduce"
         /\ next = [st EXCEPT !.acc = [st.acc EXCEPT ![stmt.target] = Fold(stmt.op, st.acc[stmt.target], new)]]
  <2>1. Outcome(stmt, x, st, next)
    BY ExecCases
  <2> QED
    BY <2>1 DEF Outcome
<1>3. stmt.kind = "reduce" => Fold(stmt.op, st.acc[stmt.target], new) \in Value
  BY <1>1, OperationsAssumption DEF StatementOK, Statement, State
<1> HIDE DEF stmt, new, next
<1>4. /\ st.mem \in [Addr -> Value] /\ st.acc \in [AccNames -> Value]
      /\ st.locals \in [TempNames -> Value] /\ st.value \in Value
      /\ st = [mem |-> st.mem, acc |-> st.acc, locals |-> st.locals, value |-> st.value,
               panicked |-> st.panicked] /\ st.panicked \in BOOLEAN
  BY DEF State
<1>5. next \in State
  <2>1. CASE next = [st EXCEPT !.panicked = TRUE]
    BY <1>4, <2>1 DEF State
  <2>2. CASE next = [st EXCEPT !.mem = [st.mem EXCEPT ![ElementAddr(job, stmt.target, x)] = new]]
    <3>1. [st.mem EXCEPT ![ElementAddr(job, stmt.target, x)] = new] \in [Addr -> Value]
      BY <1>1, <1>4
    <3> QED
      BY <1>4, <2>2, <3>1 DEF State
  <2>3. CASE next = [st EXCEPT !.locals = [st.locals EXCEPT ![stmt.target] = new]]
    <3>1. [st.locals EXCEPT ![stmt.target] = new] \in [TempNames -> Value]
      BY <1>1, <1>4
    <3> QED
      BY <1>4, <2>3, <3>1 DEF State
  <2>4. CASE /\ stmt.kind = "reduce"
             /\ next = [st EXCEPT !.acc = [st.acc EXCEPT ![stmt.target] = Fold(stmt.op, st.acc[stmt.target], new)]]
    <3>1. [st.acc EXCEPT ![stmt.target] = Fold(stmt.op, st.acc[stmt.target], new)] \in [AccNames -> Value]
      BY <1>3, <1>4, <2>4
    <3> QED
      BY <1>4, <2>4, <3>1 DEF State
  <2>5. CASE next = st
    BY <2>5 DEF State
  <2> QED
    BY <1>2, <2>1, <2>2, <2>3, <2>4, <2>5
<1> QED
  BY <1>5 DEF next, stmt

-----------------------------------------------------------------------------
(***************************************************************************)
(* The inductive invariant.  ControlInv ties the program counter to the    *)
(* kind of loop that was emitted, IndexInv says that _i never falls below  *)
(* the start, ChunkInv that a chunk of unknown length has done nothing     *)
(* yet, ApartInv that past the overlap check no pair of slices overlaps.   *)
(***************************************************************************)
ControlInv ==
  /\ mode = "vector" => pc \notin {"begin", "scalar"} /\ Planned(job)
  /\ mode # "vector" => pc \in {"begin", "scalar", "done", "panic"}
  /\ pc = "test" => ~Full(job.body)
  /\ pc \in {"count", "main", "combine"} => Full(job.body)
  /\ pc = "copy" => IsCopy(job.body)

IndexInv == mode # "original" \/ job.step = 1 => i >= job.start

ChunkInv ==
  pc \in {"load", "statement"} =>
    /\ copy < Copies
    /\ pc = "load" => k = 1
    /\ n = NoLanes =>
         /\ DOMAIN loaded = {} /\ ~Full(job.body)
         /\ pc = "statement" => \A s \in 1..(k - 1) : job.body[s].kind # "store"

ApartInv == mode = "vector" /\ pc \notin {"hoist", "overlap", "done", "panic"} => ~SomeOverlap

Inv ==
  /\ JobOK(job)
  /\ TypeOK
  /\ ControlInv
  /\ IndexInv
  /\ ChunkInv
  /\ ApartInv

(* The loop that is run never changes.                                     *)
LEMMA JobKept == ASSUME [Next]_vars PROVE job' = job
  BY DEF Next, vars, Hoist, OverlapCheck, LengthCheck, CopyCall, ChunkTest, CountTest, MainTest,
         SingleTest, LoadAhead, VectorLet, VectorFold, VectorStore, VectorPanic, NextCopy, Advance,
         MergeCopy, FoldLane, NextFold, Remainder, ScalarBegin, ScalarStatement, ScalarAdvance,
         Terminated

(* What depends on the job only stays.                                     *)
LEMMA JobOnly ==
  ASSUME job' = job
  PROVE  Copies' = Copies /\ Copy' = Copy /\ SomeOverlap' = SomeOverlap
  BY DEF Copies, Copy, SomeOverlap, LoopvecOverlap, Low, High, Whole

(* The code starts well formed.                                            *)
LEMMA TypeInit == ASSUME Init PROVE TypeOK
<1>1. JobOK(job)
  BY JobsAssumption DEF Init
<1>2. i \in Int
  BY <1>1, HeaderType DEF Init, FirstIndex, IndexAt
<1>3. ZeroVector \in Vector /\ Zero \in Value
  BY ValueAssumption DEF ZeroVector, Vector
<1>4. /\ temps \in [TempNames -> Vector] /\ locals \in [TempNames -> Value]
      /\ accs \in [Folds(job.body) -> [Copy -> Vector]]
  BY <1>3 DEF Init
<1>5. k \in 1..(Len(job.body) + 1) /\ copy \in 0..Copies /\ lane \in 0..Lanes
  BY <1>1, BodyLength, CopiesType, LanesType DEF Init
<1>6. \A key \in DOMAIN loaded : loaded[key] \in Vector
  BY DEF Init, Empty
<1> QED
  BY <1>2, <1>3, <1>4, <1>5, <1>6, ValueAssumption DEF Init, TypeOK

(* Only an element of an operand that can be sliced is copied.             *)
LEMMA CopyCallWithin ==
  ASSUME Inv, CopyCall
  PROVE  /\ mem' \in [Addr -> Value]
         /\ \A a \in Addr : mem'[a] # mem[a] =>
              /\ a - job.slices[job.body[1].target].base >= job.start
              /\ a - job.slices[job.body[1].target].base <
                   IF Capped(job) THEN job.limit ELSE job.slices[job.body[1].target].len
<1> DEFINE dst == job.body[1].target
           src == Key(job.body[1].other[1].loads[1])
           high == IF Capped(job) THEN job.limit ELSE job.slices[dst].len
           from == OperandLow(src, job.start)
<1>1. JobOK(job) /\ TypeOK /\ IsCopy(job.body)
  BY DEF Inv, ControlInv, CopyCall
<1>2. 1 \in DOMAIN job.body /\ StatementOK(job.body[1])
  BY <1>1, BodyLength, BodyType DEF IsCopy
<1>3. dst \in SliceNames
  BY <1>1, <1>2 DEF IsCopy, StatementOK
<1>4. src \in Access
  <2>1. OtherValue(job.body[1]) = job.body[1].other[1]
    BY <1>1, <1>2 DEF IsCopy, IsLoad, OtherValue, StatementOK
  <2>2. job.body[1].other[1] \in Expr
    BY <1>2, <2>1, OtherValueType
  <2>3. job.body[1].other[1].loads \in Seq(Load) /\ Len(job.body[1].other[1].loads) = 1
    BY <1>1, <2>2 DEF IsCopy, IsLoad, Expr
  <2>4. job.body[1].other[1].loads[1] \in Load
    BY <2>3
  <2> QED
    BY <2>4, KeyType
<1>5. src[1] \in SliceNames /\ from \in Int /\ high \in Int /\ job.start \in Int
  BY <1>1, <1>3, <1>4, AccessType, HeaderType, SliceType DEF OperandLow
<1>6. CASE /\ 0 <= job.start /\ job.start <= high /\ high <= job.slices[dst].len
           /\ 0 <= from /\ from <= job.slices[src[1]].len
  <2> DEFINE to == ElementAddr(job, dst, job.start)
             at == ElementAddr(job, src[1], from)
             moved == job.slices[src[1]].len - from
  <2>1. mem' = [a \in Addr |-> IF a - to \in 0..(high - job.start - 1) /\ a - to < moved
                               THEN mem[at + (a - to)] ELSE mem[a]]
    BY <1>6 DEF CopyCall, AtIndex
  <2>2. to = job.slices[dst].base + job.start /\ at = job.slices[src[1]].base + from
    BY DEF ElementAddr
  <2>3. /\ job.slices[dst].base \in Nat /\ job.slices[src[1]].base \in Nat
        /\ job.slices[src[1]].len \in Nat
        /\ job.slices[src[1]].base + job.slices[src[1]].len <= MemSize
    BY <1>1, <1>3, <1>5, SliceType
  <2>4. MemSize \in Nat /\ \A a \in Addr : a \in Int
    BY ValueAssumption DEF Addr
  <2> HIDE DEF to, at, moved, high, from, src, dst
  <2>5. ASSUME NEW a \in Addr, a - to \in 0..(high - job.start - 1), a - to < moved
        PROVE  at + (a - to) \in Addr
    <3>1. a - to \in Nat /\ a - to < job.slices[src[1]].len - from
      BY <1>5, <2>5 DEF moved
    <3> QED
      BY <1>5, <1>6, <2>2, <2>3, <2>4, <3>1 DEF Addr
  <2>6. mem \in [Addr -> Value]
    BY <1>1 DEF TypeOK
  <2>7. mem' \in [Addr -> Value]
    BY <2>1, <2>5, <2>6
  <2>8. ASSUME NEW a \in Addr, mem'[a] # mem[a]
        PROVE  a - job.slices[dst].base >= job.start /\ a - job.slices[dst].base < high
    <3>1. a - to \in 0..(high - job.start - 1)
      BY <2>1, <2>8
    <3> QED
      BY <1>5, <2>2, <2>3, <2>4, <3>1
  <2> QED
    BY <2>7, <2>8 DEF high, dst
<1>7. CASE ~(/\ 0 <= job.start /\ job.start <= high /\ high <= job.slices[dst].len
             /\ 0 <= from /\ from <= job.slices[src[1]].len)
  BY <1>1, <1>7 DEF CopyCall, Stop, AtIndex, TypeOK
<1> QED
  BY <1>6, <1>7

(* A range value variable is read at an index of its slice.                *)
LEMMA RangeValueIn ==
  ASSUME JobOK(job), NEW m \in [Addr -> Value],
         NEW x, HasRangeValue(job) => x \in job.start..(job.limit - 1)
  PROVE  RangeValue(job, x, m) \in Value
<1>1. CASE HasRangeValue(job)
  <2>1. PICK ld \in AllLoads(job.body) : ld.fromRange
    BY <1>1 DEF HasRangeValue
  <2>2. ld \in Load
    BY BodyType, LoadsOfType DEF AllLoads
  <2>3. ld.ref = job.trip /\ job.start = 0 /\ job.trip \in SliceNames
    BY <2>1, <2>2 DEF JobOK, RangeValueOK, Load
  <2>4. job.limit = job.slices[job.trip].len /\ ~(job.trip \in job.fields /\ job.nilRoot)
    BY <2>3 DEF JobOK, HeaderOK
  <2>5. InRange(job, job.trip, x)
    BY <1>1, <2>3, <2>4, SliceType DEF InRange
  <2> QED
    BY <1>1, <2>3, <2>5, ElementAddrType DEF RangeValue
<1>2. CASE ~HasRangeValue(job)
  BY <1>2, ValueAssumption DEF RangeValue
<1> QED
  BY <1>1, <1>2

(* What range yields in an iteration of the scalar loop is an element.     *)
LEMMA RangeValueType == ASSUME Inv, MoreIterations PROVE RangeValue(job, i, mem) \in Value
<1>1. JobOK(job) /\ TypeOK /\ job.start \in Int /\ job.limit \in Int
  BY HeaderType DEF Inv
<1>2. HasRangeValue(job) => job.step = 1
  BY <1>1 DEF HasRangeValue, JobOK, RangeValueOK
<1>3. HasRangeValue(job) => i \in job.start..(job.limit - 1)
  BY <1>1, <1>2 DEF Inv, IndexInv, TypeOK, MoreIterations, Step
<1> QED
  BY <1>1, <1>3, RangeValueIn DEF TypeOK

(* A loop without a fold stores something, so at the end of a chunk its    *)
(* length is known.                                                        *)
LEMMA ChunkKnown == ASSUME Inv, Advance PROVE n # NoLanes
<1>1. JobOK(job) /\ TypeOK
  BY DEF Inv
<1>2. Len(job.body) \in Nat /\ DOMAIN job.body = 1..Len(job.body)
  BY <1>1, BodyLength
<1> SUFFICES ASSUME n = NoLanes PROVE FALSE
  OBVIOUS
<1>3. Planned(job) /\ ~Full(job.body) /\ k = Len(job.body) + 1
      /\ \A s \in 1..(k - 1) : job.body[s].kind # "store"
  BY <1>1, <1>2 DEF Inv, ControlInv, ChunkInv, Advance, TypeOK
<1> DEFINE last == Len(job.body)
<1>4. last \in DOMAIN job.body
  BY <1>2, <1>3 DEF Planned, Lowers
<1>5. job.body[last].kind = "let"
  BY <1>1, <1>2, <1>3, <1>4, BodyType DEF Full, Folds, Statement
<1>6. \E p \in DOMAIN job.body : p > last
  BY <1>3, <1>4, <1>5 DEF Planned, Lowers, LocalsOK
<1> QED
  BY <1>2, <1>6

(* Every step of the code leaves it well formed.                           *)
LEMMA TypeStep == ASSUME Inv, [Next]_vars PROVE TypeOK'
<1>1. JobOK(job) /\ TypeOK
  BY DEF Inv
<1>2. job' = job /\ Copies' = Copies /\ Copy' = Copy
  BY JobKept, JobOnly
<1>3. Len(job.body) \in Nat /\ DOMAIN job.body = 1..Len(job.body) /\ Copies \in 1..4
      /\ Lanes \in Nat /\ Lanes >= 1 /\ NoLanes \notin Int
  BY <1>1, BodyLength, CopiesType, LanesType
<1> USE <1>2, <1>3
<1>4. ASSUME Hoist \/ OverlapCheck \/ LengthCheck \/ VectorPanic \/ Remainder PROVE TypeOK'
  <2>1. job.start \in Int /\ job.limit \in Int
    BY <1>1, HeaderType
  <2>2. CASE OverlapCheck
    BY <1>1, <2>1, <2>2 DEF TypeOK, OverlapCheck, Stop, Goto, vectorVars, scalarVars, FirstIndex, IndexAt
  <2>3. CASE Hoist
    BY <1>1, <2>3 DEF TypeOK, Hoist, Stop, Goto, vectorVars, scalarVars
  <2>4. CASE LengthCheck
    BY <1>1, <2>1, <2>4 DEF TypeOK, LengthCheck, Stop, Goto, LoopLabel, vectorVars, scalarVars
  <2>5. CASE VectorPanic \/ Remainder
    BY <1>1, <2>1, <2>5
    DEF TypeOK, VectorPanic, Remainder, Stop, Goto, LoopLabel, vectorVars, scalarVars, FirstIndex, IndexAt
  <2> QED
    BY <1>4, <2>2, <2>3, <2>4, <2>5
<1>5. ASSUME CopyCall PROVE TypeOK'
  <2>1. mem' \in [Addr -> Value]
    BY <1>1, <1>5, CopyCallWithin DEF Inv, TypeOK
  <2> QED
    BY <1>1, <1>5, <2>1
    DEF TypeOK, CopyCall, Stop, Goto, vectorVars, scalarVars
<1>6. ASSUME ChunkTest \/ MainTest \/ SingleTest \/ NextCopy PROVE TypeOK'
  <2>1. Copies * Lanes \in Nat
    OBVIOUS
  <2>2. \A key \in DOMAIN Empty : Empty[key] \in Vector
    BY DEF Empty
  <2>3. CASE ChunkTest
    BY <1>1, <2>2, <2>3 DEF TypeOK, ChunkTest, StartBody, Stop, Goto, vectorVars, scalarVars
  <2>4. CASE MainTest
    BY <1>1, <2>1, <2>2, <2>4 DEF TypeOK, MainTest, StartBody, Goto, scalarVars
  <2>5. CASE SingleTest
    BY <1>1, <2>2, <2>5 DEF TypeOK, SingleTest, StartBody, Goto, scalarVars
  <2>6. CASE NextCopy
    <3>1. copy + 1 \in 0..Copies
      BY <1>1, <2>6 DEF NextCopy, Unrolled, TypeOK
    <3> QED
      BY <1>1, <2>2, <2>6, <3>1 DEF TypeOK, NextCopy, StartBody, Goto, scalarVars
  <2> QED
    BY <1>6, <2>3, <2>4, <2>5, <2>6
<1>7. ASSUME CountTest PROVE TypeOK'
  <2>1. FreshAccs \in [Folds(job.body) -> [Copy -> Vector]]
    <3>1. \A s \in Folds(job.body) : Identity(job.body[s].op) \in Value
      BY <1>1, BodyType, OperationsAssumption DEF Folds, Statement
    <3> QED
      BY <3>1 DEF FreshAccs, Vector
  <2> QED
    BY <1>1, <1>7, <2>1 DEF TypeOK, CountTest, Goto, scalarVars
<1>8. ASSUME LoadAhead PROVE TypeOK'
  <2> DEFINE loads == LoadsAhead(job.body)
             leaves == LeavesAhead(job.body)
  <2>1. CASE LoadsOK(loads)
    <3>1. loads \in SUBSET Load
      BY <1>1, BodyType, LoadsOfType DEF LoadsAhead, AllLoads
    <3>2. Lists(leaves, loads)
      BY <1>1 DEF JobOK
    <3>3. n = NoLanes => DOMAIN loaded = {}
      BY <1>8 DEF Inv, ChunkInv, LoadAhead
    <3> HIDE DEF loads, leaves
    <3>4. LanesAfter(leaves) \in Nat \cup {NoLanes}
      BY <1>1, <2>1, <3>1, <3>2, <3>3, LanesAfterType
    <3>5. \A key \in DOMAIN WithLoads(loads) : WithLoads(loads)[key] \in Vector
      BY <1>1, <2>1, <3>1, WithLoadsType
    <3> QED
      BY <1>1, <1>8, <2>1, <3>4, <3>5 DEF TypeOK, LoadAhead, Goto, scalarVars, loads, leaves
  <2>2. CASE ~LoadsOK(loads)
    BY <1>1, <1>8, <2>2 DEF TypeOK, LoadAhead, Stop, Goto, vectorVars, scalarVars
  <2> QED
    BY <2>1, <2>2
<1>9. ASSUME k \in DOMAIN job.body, CanLoad, pc = "statement"
      PROVE  /\ StatementVector(job.body[k], Held) \in Vector
             /\ \A key \in DOMAIN Held : Held[key] \in Vector
             /\ LanesAfter(Leaves(job.body[k])) \in Nat \cup {NoLanes}
             /\ k + 1 \in 1..(Len(job.body) + 1)
  <2>1. LoadsOf(job.body[k]) \in SUBSET Load
    BY <1>1, <1>9, BodyType, LoadsOfType
  <2>2. Lists(Leaves(job.body[k]), LoadsOf(job.body[k]))
    BY <1>1, <1>9 DEF JobOK
  <2>3. n = NoLanes => DOMAIN loaded = {}
    BY <1>9 DEF Inv, ChunkInv
  <2>4. LanesAfter(Leaves(job.body[k])) \in Nat \cup {NoLanes}
    BY <1>1, <1>9, <2>1, <2>2, <2>3, LanesAfterType DEF CanLoad
  <2>5. \A key \in DOMAIN Held : Held[key] \in Vector
    BY <1>1, <1>9, <2>1, WithLoadsType DEF CanLoad, Held
  <2>6. StatementVector(job.body[k], Held) \in Vector
    BY <1>1, <1>9, StatementVectorType
  <2> QED
    BY <1>9, <2>4, <2>5, <2>6
<1>10. ASSUME VectorLet PROVE TypeOK'
  <2>1. k \in DOMAIN job.body /\ CanLoad /\ pc = "statement"
    BY <1>1, <1>10 DEF VectorLet, Running, TypeOK
  <2> QED
    BY <1>1, <1>9, <1>10, <2>1 DEF TypeOK, VectorLet, scalarVars
<1>11. ASSUME VectorFold PROVE TypeOK'
  <2>1. k \in DOMAIN job.body /\ CanLoad /\ pc = "statement"
    BY <1>1, <1>11 DEF VectorFold, Running, TypeOK
  <2>2. k \in Folds(job.body) /\ job.body[k].op \in FoldOps
    BY <1>1, <1>11, <2>1, BodyType DEF VectorFold, Running, Folds, Statement
  <2>3. copy \in Copy
    BY <1>1, <2>1 DEF Inv, ChunkInv, TypeOK, Copy
  <2> DEFINE vec == StatementVector(job.body[k], Held)
             folded == [l \in Lane |-> Fold(job.body[k].op, accs[k][copy][l], vec[l])]
  <2>4. accs \in [Folds(job.body) -> [Copy -> Vector]] /\ vec \in Vector
    BY <1>1, <1>9, <2>1 DEF TypeOK
  <2> HIDE DEF vec
  <2>5. folded \in Vector
    BY <2>2, <2>3, <2>4, OperationsAssumption DEF Vector
  <2>6. accs' = [accs EXCEPT ![k][copy] = folded]
    BY <1>11 DEF VectorFold, vec
  <2> HIDE DEF folded
  <2>7. accs' \in [Folds(job.body) -> [Copy -> Vector]]
    BY <2>2, <2>3, <2>4, <2>5, <2>6
  <2> QED
    BY <1>1, <1>9, <1>11, <2>1, <2>7 DEF TypeOK, VectorFold, scalarVars
<1>12. ASSUME VectorStore PROVE TypeOK'
  <2> DEFINE key == AtIndex(job.body[k].target)
             vec == StatementVector(job.body[k], Held)
  <2>1. k \in DOMAIN job.body /\ CanLoad /\ pc = "statement"
    BY <1>1, <1>12 DEF VectorStore, Running, TypeOK
  <2>2. key \in Access
    BY <1>1, <1>12, <2>1, BodyType, AtIndexType DEF VectorStore, Running, StatementOK
  <2>3. OperandOK(key, Pos)
    BY <1>12 DEF VectorStore, AccessOK
  <2> HIDE DEF key, vec
  <2>4. vec \in Vector
    BY <1>9, <2>1 DEF vec
  <2>5. StoreVector(key, Pos, vec) \in [Addr -> Value]
    BY <1>1, <2>2, <2>3, <2>4, PosType, StoreVectorType DEF TypeOK
  <2>6. Covered(key, Pos) \in Nat
    BY <1>1, <2>2, <2>3, PosType, CoveredType
  <2>7. n' \in Nat \cup {NoLanes}
    BY <1>9, <1>12, <2>1, <2>6 DEF VectorStore, key
  <2>8. \A x \in DOMAIN loaded' : loaded'[x] \in Vector
    BY <1>9, <1>12, <2>1 DEF VectorStore, LoadedAfterStore
  <2>9. mem' \in [Addr -> Value]
    BY <1>12, <2>5 DEF VectorStore, key, vec
  <2> QED
    BY <1>1, <1>9, <1>12, <2>1, <2>7, <2>8, <2>9 DEF TypeOK, VectorStore, scalarVars
<1>13. ASSUME Advance PROVE TypeOK'
  <2>1. n \in Nat
    BY <1>13, ChunkKnown DEF Inv, TypeOK
  <2> QED
    BY <1>1, <1>13, <2>1 DEF TypeOK, Advance, Goto, scalarVars
<1>14. ASSUME MergeCopy \/ FoldLane \/ NextFold PROVE TypeOK'
  <2>1. accs \in [Folds(job.body) -> [Copy -> Vector]] /\ acc \in [AccNames -> Value]
    BY <1>1 DEF TypeOK
  <2>2. \A s \in Folds(job.body) : job.body[s].op \in FoldOps /\ job.body[s].target \in AccNames
    BY <1>1, BodyType DEF Folds, StatementOK, Statement
  <2>3. CASE MergeCopy
    <3>1. k \in Folds(job.body) /\ copy \in Copy /\ 0 \in Copy
      BY <1>1, <2>3 DEF MergeCopy, Combining, TypeOK, Copy
    <3> DEFINE merged == [l \in Lane |-> Fold(job.body[k].op, accs[k][0][l], accs[k][copy][l])]
    <3>2. merged \in Vector
      BY <2>1, <2>2, <3>1, OperationsAssumption DEF Vector
    <3>3. accs' = [accs EXCEPT ![k][0] = merged]
      BY <2>3 DEF MergeCopy
    <3> HIDE DEF merged
    <3>4. accs' \in [Folds(job.body) -> [Copy -> Vector]]
      BY <2>1, <3>1, <3>2, <3>3
    <3>5. copy + 1 \in 0..Copies
      BY <3>1 DEF Copy
    <3> QED
      BY <1>1, <2>3, <3>4, <3>5 DEF TypeOK, MergeCopy, scalarVars
  <2>4. CASE FoldLane
    <3>1. k \in Folds(job.body) /\ lane \in Lane /\ 0 \in Copy
      BY <1>1, <2>4 DEF FoldLane, Combining, TypeOK, Copy, Lane
    <3>2. accs[k][0][lane] \in Value
      BY <2>1, <3>1 DEF Vector
    <3>3. Fold(job.body[k].op, acc[job.body[k].target], accs[k][0][lane]) \in Value
      BY <2>1, <2>2, <3>1, <3>2, OperationsAssumption
    <3>4. acc' \in [AccNames -> Value]
      BY <2>1, <2>2, <2>4, <3>1, <3>3 DEF FoldLane
    <3>5. lane + 1 \in 0..Lanes
      BY <3>1 DEF Lane
    <3> QED
      BY <1>1, <2>4, <3>4, <3>5 DEF TypeOK, FoldLane, scalarVars
  <2>5. CASE NextFold
    <3>1. k + 1 \in 1..(Len(job.body) + 1)
      BY <1>1, <2>5 DEF TypeOK, NextFold
    <3> QED
      BY <1>1, <2>5, <3>1 DEF TypeOK, NextFold, scalarVars
  <2> QED
    BY <1>14, <2>3, <2>4, <2>5
<1>16. ASSUME ScalarBegin PROVE TypeOK'
  <2>1. CASE MoreIterations
    <3>1. RangeValue(job, i, mem) \in Value
      BY <2>1, RangeValueType
    <3> QED
      BY <1>1, <1>16, <2>1, <3>1 DEF TypeOK, ScalarBegin, Goto, vectorVars
  <2>2. CASE ~MoreIterations
    BY <1>1, <1>16, <2>2 DEF TypeOK, ScalarBegin, Stop, Goto, vectorVars, scalarVars
  <2> QED
    BY <2>1, <2>2
<1>17. ASSUME ScalarStatement PROVE TypeOK'
  <2> DEFINE next == ExecStatement(job, job.body[k], i, Now)
  <2>1. k \in DOMAIN job.body
    BY <1>1, <1>17 DEF ScalarStatement, TypeOK
  <2>2. CASE next.panicked
    BY <1>1, <1>17, <2>2 DEF TypeOK, ScalarStatement, Stop, Goto, vectorVars, scalarVars
  <2>3. CASE ~next.panicked
    <3> HIDE DEF next
    <3>1. next.mem \in [Addr -> Value] /\ next.acc \in [AccNames -> Value]
          /\ next.locals \in [TempNames -> Value]
      <4>1. Now \in State
        BY <1>1 DEF Now, State, TypeOK
      <4>2. next \in State
        BY <1>1, <2>1, <4>1, ExecState DEF next
      <4> QED
        BY <4>2 DEF State
    <3>2. mem' = next.mem /\ acc' = next.acc /\ locals' = next.locals /\ k' = k + 1
          /\ UNCHANGED <<mode, pc, i, vectorVars, value>>
      BY <1>17, <2>3 DEF ScalarStatement, next
    <3> QED
      BY <1>1, <2>1, <3>1, <3>2 DEF TypeOK, vectorVars
  <2> QED
    BY <2>2, <2>3
<1>18. ASSUME ScalarAdvance PROVE TypeOK'
  <2>1. Step \in Int
    BY <1>1 DEF Step, JobOK, HeaderOK
  <2> QED
    BY <1>1, <1>18, <2>1 DEF TypeOK, ScalarAdvance, Goto, vectorVars, scalarVars
<1>19. ASSUME Terminated \/ UNCHANGED vars PROVE TypeOK'
  BY <1>1, <1>19 DEF TypeOK, Terminated, vars
<1> QED
  BY <1>4, <1>5, <1>6, <1>7, <1>8, <1>9, <1>10, <1>11, <1>12, <1>13, <1>14, <1>16, <1>17,
     <1>18, <1>19 DEF Next

-----------------------------------------------------------------------------
(* Each part of the code is reached by the kind of loop it is for.         *)
LEMMA ControlStep == ASSUME Inv, [Next]_vars PROVE ControlInv'
<1>1. job' = job
  BY JobKept
<1>2. ControlInv
  BY DEF Inv
<1> USE <1>1, <1>2 DEF ControlInv, Stop, Goto, StartBody
<1>3. CASE Hoist \/ OverlapCheck \/ LengthCheck \/ CopyCall \/ VectorPanic
  BY <1>3 DEF Hoist, OverlapCheck, LengthCheck, CopyCall, VectorPanic, LoopLabel
<1>4. CASE ChunkTest \/ CountTest \/ MainTest \/ SingleTest \/ NextCopy \/ Advance
  BY <1>4 DEF ChunkTest, CountTest, MainTest, SingleTest, NextCopy, Advance
<1>5. CASE LoadAhead \/ VectorLet \/ VectorFold \/ VectorStore
  BY <1>5 DEF LoadAhead, VectorLet, VectorFold, VectorStore, Running
<1>6. CASE MergeCopy \/ FoldLane \/ NextFold \/ Remainder
  BY <1>6 DEF MergeCopy, FoldLane, NextFold, Remainder, Combining
<1>7. CASE ScalarBegin \/ ScalarStatement \/ ScalarAdvance
  BY <1>7 DEF ScalarBegin, ScalarStatement, ScalarAdvance
<1>8. CASE Terminated \/ UNCHANGED vars
  BY <1>8 DEF Terminated, vars
<1> QED
  BY <1>3, <1>4, <1>5, <1>6, <1>7, <1>8 DEF Next

(* _i moves by the length of a chunk, which is not negative.               *)
LEMMA IndexStep == ASSUME Inv, [Next]_vars PROVE IndexInv'
<1>1. job' = job /\ JobOK(job) /\ TypeOK
  BY JobKept DEF Inv
<1>2. IndexInv /\ ControlInv /\ i \in Int /\ job.start \in Int /\ job.step \in {-1, 1}
  BY <1>1 DEF Inv, TypeOK, JobOK, HeaderOK
<1> USE <1>1, <1>2 DEF IndexInv
<1>3. CASE OverlapCheck
  BY <1>3 DEF OverlapCheck, Stop, FirstIndex, IndexAt
<1>4. CASE Advance
  <2>1. n \in Nat
    BY <1>4, ChunkKnown DEF TypeOK
  <2> QED
    BY <1>4, <2>1 DEF Advance
<1>5. CASE ScalarAdvance
  <2>1. pc = "scalar" /\ mode # "vector" /\ mode' = mode /\ i' = i + Step
    BY <1>5 DEF ScalarAdvance, ControlInv
  <2>2. CASE mode = "rest"
    BY <2>1, <2>2 DEF Step
  <2>3. CASE mode # "rest"
    <3>1. mode = "original" /\ Step = job.step
      BY <2>1, <2>3 DEF TypeOK, Step
    <3> QED
      BY <2>1, <3>1
  <2> QED
    BY <2>2, <2>3
<1>6. CASE ScalarBegin \/ ScalarStatement
  BY <1>6 DEF ScalarBegin, ScalarStatement, Stop
<1>7. CASE Hoist \/ LengthCheck \/ CopyCall \/ VectorPanic \/ ChunkTest \/ MainTest \/ SingleTest
  BY <1>7 DEF Hoist, LengthCheck, CopyCall, VectorPanic, ChunkTest, MainTest, SingleTest, Stop
<1>8. CASE CountTest \/ Remainder \/ NextCopy
  BY <1>8 DEF CountTest, Remainder, NextCopy, ControlInv
<1>9. CASE LoadAhead \/ VectorLet \/ VectorFold \/ VectorStore
  BY <1>9 DEF LoadAhead, VectorLet, VectorFold, VectorStore, Stop
<1>10. CASE MergeCopy \/ FoldLane \/ NextFold
  BY <1>10 DEF MergeCopy, FoldLane, NextFold
<1>11. CASE Terminated \/ UNCHANGED vars
  BY <1>11 DEF Terminated, vars
<1> QED
  BY <1>3, <1>4, <1>5, <1>6, <1>7, <1>8, <1>9, <1>10, <1>11 DEF Next

(* A chunk learns its length with its first load or store.                 *)
LEMMA ChunkStep == ASSUME Inv, [Next]_vars PROVE ChunkInv'
<1>1. job' = job /\ Copies' = Copies /\ JobOK(job) /\ TypeOK /\ ChunkInv /\ ControlInv
  BY JobKept, JobOnly DEF Inv
<1>2. Copies \in 1..4 /\ Lanes \in Nat /\ NoLanes \notin Int /\ Copies * Lanes \in Int
  BY CopiesType, LanesType
<1>3. k \in 1..(Len(job.body) + 1) /\ copy \in Nat /\ DOMAIN job.body = 1..Len(job.body) /\ Len(job.body) \in Nat
  BY <1>1, <1>2, BodyLength DEF TypeOK
<1> USE <1>1, <1>2, <1>3 DEF ChunkInv, Goto
<1>4. CASE ChunkTest
  BY <1>4 DEF ChunkTest, StartBody, Stop, Empty, ControlInv
<1>5. CASE MainTest \/ SingleTest \/ NextCopy
  BY <1>5 DEF MainTest, SingleTest, NextCopy, StartBody, Unrolled
<1>6. CASE LoadAhead
  <2> DEFINE loads == LoadsAhead(job.body)
             leaves == LeavesAhead(job.body)
  <2>1. loads \in SUBSET Load
    BY BodyType, LoadsOfType DEF LoadsAhead, AllLoads
  <2>2. Lists(leaves, loads)
    BY DEF JobOK
  <2>3. n = NoLanes => DOMAIN loaded = {}
    BY <1>6 DEF LoadAhead
  <2> HIDE DEF loads, leaves
  <2>4. LoadsOK(loads) /\ LanesAfter(leaves) = NoLanes =>
          DOMAIN WithLoads(loads) = {} /\ n = NoLanes
    BY <2>1, <2>2, <2>3, LanesAfterType
  <2> QED
    BY <1>6, <2>4 DEF LoadAhead, Stop, loads, leaves
<1>7. CASE VectorLet
  <2> DEFINE loads == LoadsOf(job.body[k])
             leaves == Leaves(job.body[k])
  <2>1. k \in DOMAIN job.body /\ LoadsOK(loads) /\ pc = "statement"
    BY <1>7 DEF VectorLet, Running, CanLoad
  <2>2. loads \in SUBSET Load /\ Lists(leaves, loads)
    BY <2>1, BodyType, LoadsOfType DEF JobOK
  <2>3. n = NoLanes => DOMAIN loaded = {}
    BY <2>1
  <2> HIDE DEF loads, leaves
  <2>4. LanesAfter(leaves) = NoLanes => DOMAIN WithLoads(loads) = {} /\ n = NoLanes
    BY <2>1, <2>2, <2>3, LanesAfterType
  <2>5. n' = LanesAfter(leaves) /\ loaded' = WithLoads(loads) /\ k' = k + 1
        /\ job.body[k].kind = "let" /\ UNCHANGED <<pc, copy>>
    BY <1>7 DEF VectorLet, Running, Held, loads, leaves
  <2> QED
    BY <2>1, <2>4, <2>5
<1>8. CASE VectorFold
  <2>1. Full(job.body)
    BY <1>8 DEF VectorFold, Running, Full, Folds
  <2> QED
    BY <1>8, <2>1 DEF VectorFold, Running
<1>9. CASE VectorStore
  <2>1. pc' = "statement" /\ pc = "statement" /\ copy' = copy
    BY <1>9 DEF VectorStore, Running
  <2>2. n' # NoLanes
    <3> DEFINE key == AtIndex(job.body[k].target)
    <3>1. key \in Access
      BY <1>9, BodyType, AtIndexType DEF VectorStore, Running, StatementOK
    <3>2. OperandOK(key, Pos)
      BY <1>9 DEF VectorStore, AccessOK
    <3> HIDE DEF key
    <3>3. Covered(key, Pos) \in Nat
      BY <3>1, <3>2, PosType, CoveredType
    <3> QED
      BY <1>9, <3>3 DEF VectorStore, key
  <2> QED
    BY <2>1, <2>2
<1>10. CASE Hoist \/ OverlapCheck \/ LengthCheck \/ CopyCall \/ VectorPanic \/ CountTest
  BY <1>10 DEF Hoist, OverlapCheck, LengthCheck, CopyCall, VectorPanic, CountTest, Stop, LoopLabel
<1>11. CASE Advance \/ MergeCopy \/ FoldLane \/ NextFold \/ Remainder
  BY <1>11 DEF Advance, MergeCopy, FoldLane, NextFold, Remainder, Combining
<1>12. CASE ScalarBegin \/ ScalarStatement \/ ScalarAdvance
  BY <1>12 DEF ScalarBegin, ScalarStatement, ScalarAdvance, Stop
<1>13. CASE Terminated \/ UNCHANGED vars
  BY <1>13 DEF Terminated, vars
<1> QED
  BY <1>4, <1>5, <1>6, <1>7, <1>8, <1>9, <1>10, <1>11, <1>12, <1>13 DEF Next

(* Only the overlap check lets the vector code past it.                    *)
LEMMA ApartStep == ASSUME Inv, [Next]_vars PROVE ApartInv'
<1>1. job' = job /\ SomeOverlap' = SomeOverlap /\ ApartInv /\ ControlInv
  BY JobKept, JobOnly DEF Inv
<1> USE <1>1 DEF ApartInv, Stop, Goto, StartBody
<1>2. CASE Hoist \/ OverlapCheck \/ LengthCheck \/ CopyCall \/ VectorPanic
  BY <1>2 DEF Hoist, OverlapCheck, LengthCheck, CopyCall, VectorPanic, LoopLabel
<1>3. CASE ChunkTest \/ CountTest \/ MainTest \/ SingleTest \/ NextCopy \/ Advance
  BY <1>3 DEF ChunkTest, CountTest, MainTest, SingleTest, NextCopy, Advance
<1>4. CASE LoadAhead \/ VectorLet \/ VectorFold \/ VectorStore
  BY <1>4 DEF LoadAhead, VectorLet, VectorFold, VectorStore, Running
<1>5. CASE MergeCopy \/ FoldLane \/ NextFold \/ Remainder
  BY <1>5 DEF MergeCopy, FoldLane, NextFold, Remainder, Combining
<1>6. CASE ScalarBegin \/ ScalarStatement \/ ScalarAdvance
  BY <1>6 DEF ScalarBegin, ScalarStatement, ScalarAdvance, ControlInv
<1>7. CASE Terminated \/ UNCHANGED vars
  BY <1>7 DEF Terminated, vars
<1> QED
  BY <1>2, <1>3, <1>4, <1>5, <1>6, <1>7 DEF Next

(* The invariant holds when the code starts,                               *)
LEMMA InvInit == ASSUME Init PROVE Inv
<1>1. JobOK(job)
  BY JobsAssumption DEF Init
<1>2. job.start \in Int
  BY <1>1, HeaderType
<1>3. ControlInv /\ ChunkInv /\ ApartInv
  BY DEF Init, ControlInv, ChunkInv, ApartInv
<1>4. IndexInv
  BY <1>2 DEF Init, IndexInv, FirstIndex, IndexAt
<1> QED
  BY <1>1, <1>3, <1>4, TypeInit DEF Inv

(* every step keeps it,                                                    *)
LEMMA InvStep == ASSUME Inv, [Next]_vars PROVE Inv'
<1>1. JobOK(job)'
  BY JobKept DEF Inv, JobOK, HeaderOK, SlicesOK, RangeValueOK
<1> QED
  BY <1>1, TypeStep, ControlStep, IndexStep, ChunkStep, ApartStep DEF Inv

(* and so it always holds.                                                 *)
THEOREM Invariance == Spec => []Inv
  BY InvInit, InvStep, PTL DEF Spec

(* The state of the emitted code is always well formed: every vector has   *)
(* Lanes lanes, a chunk has a length, no access leaves the memory.         *)
THEOREM TypeCorrect == Spec => []TypeOK
<1>1. Inv => TypeOK
  BY DEF Inv
<1> QED
  BY <1>1, Invariance, PTL

-----------------------------------------------------------------------------
(***************************************************************************)
(* The overlap check is sound: the windows it compares hold every element  *)
(* the loop touches.                                                       *)
(***************************************************************************)

(* The accesses of a body that are checked are accesses.                   *)
LEMMA CheckedType == ASSUME JobOK(job) PROVE Checked(job.body) \subseteq Access
<1>1. \A s \in DOMAIN job.body : LoadsOf(job.body[s]) \subseteq Load
  BY BodyType, LoadsOfType
<1>2. Keys(AllLoads(job.body)) \subseteq Access
  BY <1>1, KeysType DEF AllLoads
<1>3. \A ref \in Stored(job.body) : AtIndex(ref) \in Access
  BY BodyType, AtIndexType DEF Stored, Stores, StatementOK
<1> QED
  BY <1>2, <1>3 DEF Checked

(* The offsets of a slice have a least and a greatest.                     *)
LEMMA OffsetsBounded ==
  ASSUME JobOK(job), NEW ref, NEW off \in Offsets(job.body, ref)
  PROVE  /\ off \in Int
         /\ Min(Offsets(job.body, ref)) \in Int /\ Min(Offsets(job.body, ref)) <= off
         /\ Max(Offsets(job.body, ref)) \in Int /\ off <= Max(Offsets(job.body, ref))
<1> DEFINE S == Offsets(job.body, ref)
<1>1. MaxInt \in Nat
  BY NamesAssumption
<1>2. \A access \in Checked(job.body) : access[3] \in -MaxInt..MaxInt
  BY <1>1, CheckedType DEF Access
<1>3. S \in SUBSET (-MaxInt..MaxInt) /\ S # {}
  BY <1>1, <1>2 DEF Offsets
<1> HIDE DEF S
<1>4. /\ Min(S) \in S /\ \A x \in S : Min(S) <= x
      /\ Max(S) \in S /\ \A x \in S : x <= Max(S)
  BY <1>3, IntsBounded
<1>5. \A x \in S : x \in Int
  BY <1>1, <1>3
<1> QED
  BY <1>4, <1>5 DEF S

(* An element the loop touches lies in the window of its slice.            *)
LEMMA TouchedInWindow ==
  ASSUME JobOK(job), NEW ref \in SliceNames, NEW a \in Touched(ref)
  PROVE  \E x \in Int : /\ a = job.slices[ref].base + x
                        /\ Low(ref) \in Int /\ Low(ref) <= x
                        /\ High(ref) \in Int /\ x < High(ref)
<1>1. job.slices[ref].len \in Nat /\ job.start \in Int /\ job.limit \in Int
  BY SliceType, HeaderType
<1>2. PICK x \in 0..(job.slices[ref].len - 1) :
        /\ a = ElementAddr(job, ref, x)
        /\ \E off \in Offsets(job.body, ref) : x - off \in job.start..(job.limit - 1)
  BY DEF Touched
<1>3. PICK off \in Offsets(job.body, ref) : x - off \in job.start..(job.limit - 1)
  BY <1>2
<1>4. /\ off \in Int
      /\ Min(Offsets(job.body, ref)) \in Int /\ Min(Offsets(job.body, ref)) <= off
      /\ Max(Offsets(job.body, ref)) \in Int /\ off <= Max(Offsets(job.body, ref))
  BY OffsetsBounded
<1>5. /\ x \in Int /\ 0 <= x /\ x < job.slices[ref].len
      /\ a = job.slices[ref].base + x
      /\ job.start <= x - off /\ x - off < job.limit
  BY <1>1, <1>2, <1>3, <1>4 DEF ElementAddr
<1>6. WindowLow(job, ref) \in Int /\ WindowLow(job, ref) <= x
  BY <1>1, <1>4, <1>5 DEF WindowLow
<1>7. WindowHigh(job, ref) \in Int /\ x < WindowHigh(job, ref)
  BY <1>1, <1>4, <1>5 DEF WindowHigh
<1> QED
  BY <1>1, <1>5, <1>6, <1>7 DEF Low, High

(* Slices whose windows do not overlap share no element the loop touches.  *)
LEMMA ApartSound ==
  ASSUME JobOK(job), ~SomeOverlap, NEW pair \in Overlaps(job.body)
  PROVE  Touched(pair[1]) \cap Touched(pair[2]) = {}
<1> DEFINE p == pair[1]
           q == pair[2]
<1>1. p \in SliceNames /\ q \in SliceNames
  <2>1. Stored(job.body) \subseteq SliceNames
    BY BodyType DEF Stored, Stores, StatementOK
  <2>2. Refs(job.body) \subseteq SliceNames
    BY CheckedType, AccessType DEF Refs
  <2> QED
    BY <2>1, <2>2 DEF Overlaps
<1>2. ~LoopvecOverlap(p, q)
  BY DEF SomeOverlap
<1>3. job.slices[p].base \in Nat /\ job.slices[q].base \in Nat
  BY <1>1, SliceType
<1> HIDE DEF p, q
<1>4. SUFFICES ASSUME NEW a \in Touched(p), a \in Touched(q) PROVE FALSE
  BY DEF p, q
<1>5. PICK x \in Int : /\ a = job.slices[p].base + x
                       /\ Low(p) \in Int /\ Low(p) <= x /\ High(p) \in Int /\ x < High(p)
  BY <1>1, <1>4, TouchedInWindow
<1>6. PICK y \in Int : /\ a = job.slices[q].base + y
                       /\ Low(q) \in Int /\ Low(q) <= y /\ High(q) \in Int /\ y < High(q)
  BY <1>1, <1>4, TouchedInWindow
<1> QED
  BY <1>2, <1>3, <1>5, <1>6 DEF LoopvecOverlap, ElementAddr

(* While the vector code runs, no element a store may touch is an element  *)
(* of another slice the loop touches, whatever the slices, the offsets and *)
(* the bounds: _loopvecOverlap and the windows it is given rule it out.    *)
THEOREM OverlapCheckSound == Spec => []OperandsApart
<1>1. Inv => OperandsApart
  <2> SUFFICES ASSUME Inv, mode = "vector", pc \notin {"hoist", "overlap", "panic", "done"}
               PROVE  \A pair \in Overlaps(job.body) : Touched(pair[1]) \cap Touched(pair[2]) = {}
    BY DEF OperandsApart
  <2>1. JobOK(job) /\ ~SomeOverlap
    BY DEF Inv, ApartInv
  <2> QED
    BY <2>1, ApartSound
<1> QED
  BY <1>1, Invariance, PTL

-----------------------------------------------------------------------------
(***************************************************************************)
(* Stores stay within the trip of the loop.                                *)
(***************************************************************************)

(* An operand at the index ends where the loop does.                       *)
LEMMA TargetHigh ==
  ASSUME JobOK(job), NEW ref \in Stored(job.body)
  PROVE  OperandHigh(AtIndex(ref)) = job.limit
<1>1. ref \in SliceNames
  BY BodyType DEF Stored, Stores, StatementOK
<1>2. CASE Capped(job)
  BY <1>2 DEF OperandHigh, AtIndex
<1>3. CASE ~Capped(job)
  <2>1. ref = job.trip
    BY <1>3 DEF Capped
  <2>2. job.limit = job.slices[ref].len
    BY <1>1, <2>1 DEF JobOK, HeaderOK
  <2> QED
    BY <1>3, <2>2 DEF OperandHigh, AtIndex
<1> QED
  BY <1>2, <1>3

(* A store over a vector, which may be longer than what is left of the     *)
(* loop, stays within the loop.                                            *)
LEMMA VectorStoreWithin ==
  ASSUME Inv, VectorStore, mode = "vector", NEW a \in Addr, mem'[a] # mem[a]
  PROVE  \E ref \in Stored(job.body) : a - job.slices[ref].base \in job.start..(job.limit - 1)
<1> DEFINE ref == job.body[k].target
           key == AtIndex(ref)
<1>1. JobOK(job) /\ TypeOK /\ i \in Int /\ i >= job.start /\ job.start \in Int /\ job.limit \in Int
  BY HeaderType DEF Inv, TypeOK, IndexInv
<1>2. k \in DOMAIN job.body /\ job.body[k].kind = "store"
  BY <1>1, BodyLength DEF TypeOK, VectorStore, Running
<1>3. ref \in Stored(job.body) /\ ref \in SliceNames /\ key \in Access
  BY <1>1, <1>2, BodyType, AtIndexType DEF Stored, Stores, StatementOK
<1>4. Pos \in Int /\ Pos >= job.start
  <2>1. copy \in Nat /\ Lanes \in Nat
    BY <1>1, CopiesType, LanesType DEF TypeOK
  <2>2. copy * Lanes \in Nat
    BY <2>1
  <2> QED
    BY <1>1, <2>2 DEF Pos
<1>5. /\ OperandOK(key, Pos)
      /\ mem' = StoreVector(key, Pos, StatementVector(job.body[k], Held))
  BY DEF VectorStore, AccessOK
<1>6. OperandHigh(key) = job.limit
  BY <1>1, <1>3, TargetHigh
<1>7. key[1] = ref /\ key[3] = 0
  BY DEF AtIndex
<1> HIDE DEF key, ref
<1>8. a - job.slices[key[1]].base \in OperandLow(key, Pos)..(OperandHigh(key) - 1)
  BY <1>1, <1>3, <1>4, <1>5, StoreVectorWithin
<1>9. OperandLow(key, Pos) = Pos
  BY <1>4, <1>7 DEF OperandLow
<1> QED
  BY <1>1, <1>3, <1>4, <1>6, <1>7, <1>8, <1>9

(* The vector code writes only elements the source loop's indexes name, in *)
(* every step: neither a chunk longer than the rest of the loop nor a copy *)
(* of a whole slice reaches past the limit.                                *)
THEOREM WritesStayInTrip == Spec => StoresInTrip
<1> DEFINE Within == mode = "vector" =>
             \A a \in Addr : mem'[a] # mem[a] =>
               \E ref \in Stored(job.body) : a - job.slices[ref].base \in job.start..(job.limit - 1)
<1>1. ASSUME Inv, [Next]_vars, mode = "vector", NEW a \in Addr, mem'[a] # mem[a]
      PROVE  \E ref \in Stored(job.body) : a - job.slices[ref].base \in job.start..(job.limit - 1)
  <2>1. mem' # mem
    BY <1>1
  <2>2. pc \notin {"begin", "scalar"}
    BY <1>1 DEF Inv, ControlInv
  <2>3. ~(Hoist \/ OverlapCheck \/ LengthCheck \/ ChunkTest \/ CountTest \/ MainTest \/ SingleTest)
    BY <2>1 DEF Hoist, OverlapCheck, LengthCheck, ChunkTest, CountTest, MainTest, SingleTest, Stop
  <2>4. ~(LoadAhead \/ VectorLet \/ VectorFold \/ VectorPanic \/ NextCopy \/ Advance)
    BY <2>1 DEF LoadAhead, VectorLet, VectorFold, VectorPanic, NextCopy, Advance, Stop
  <2>5. ~(MergeCopy \/ FoldLane \/ NextFold \/ Remainder)
    BY <2>1 DEF MergeCopy, FoldLane, NextFold, Remainder
  <2>6. ~(ScalarBegin \/ ScalarStatement \/ ScalarAdvance)
    BY <2>2 DEF ScalarBegin, ScalarStatement, ScalarAdvance
  <2>7. ~(Terminated \/ UNCHANGED vars)
    BY <2>1 DEF Terminated, vars
  <2>8. CASE VectorStore
    BY <1>1, <2>8, VectorStoreWithin
  <2>9. CASE CopyCall
    <3> DEFINE ref == job.body[1].target
    <3>1. JobOK(job) /\ IsCopy(job.body)
      BY <1>1, <2>9 DEF Inv, ControlInv, CopyCall
    <3>2. 1 \in DOMAIN job.body /\ job.body[1].kind = "store"
      BY <3>1, BodyLength DEF IsCopy
    <3>3. ref \in Stored(job.body) /\ ref \in SliceNames
      BY <3>1, <3>2, BodyType DEF Stored, Stores, StatementOK
    <3>4. job.limit = IF Capped(job) THEN job.limit ELSE job.slices[ref].len
      BY <3>1, <3>3, TargetHigh DEF OperandHigh, AtIndex
    <3>5. /\ a - job.slices[ref].base >= job.start
          /\ a - job.slices[ref].base < job.limit
      BY <1>1, <2>9, <3>4, CopyCallWithin
    <3>6. a \in Int /\ job.slices[ref].base \in Int /\ job.start \in Int /\ job.limit \in Int
      BY <3>1, <3>3, HeaderType, SliceType, ValueAssumption DEF Addr
    <3> HIDE DEF ref
    <3> QED
      BY <3>3, <3>5, <3>6
  <2> QED
    BY <1>1, <2>3, <2>4, <2>5, <2>6, <2>7, <2>8, <2>9 DEF Next
<1>2. Inv /\ [Next]_vars => [Within]_vars
  BY <1>1
<1> QED
  BY <1>2, Invariance, PTL DEF Spec, StoresInTrip

-----------------------------------------------------------------------------
(***************************************************************************)
(* A slice that is too short is noticed before anything is written.        *)
(* ShortInv: past the length checks every access they check is in range at *)
(* the end of the loop.  Then so is every other, or else the loop runs up  *)
(* to zero from below, where no store has an element to write.             *)
(***************************************************************************)
InTrip == \A access \in Checked(job.body) : InRange(job, access[1], job.limit - 1 + access[3])
NilFields == Hoists(job) # {} /\ job.nilRoot
LengthsOK == \A access \in LengthChecks : LengthOK(access)

ShortInv ==
  mode = "vector" /\ Runs =>
    /\ mem = Mem0 \/ InTrip
    /\ pc \notin {"hoist", "done", "panic"} => ~NilFields
    /\ pc \notin {"hoist", "overlap", "check", "done", "panic"} => LengthsOK

(* An access at the index has no offset.                                   *)
LEMMA NoOffset ==
  ASSUME JobOK(job), NEW access \in Checked(job.body), access[2] = "none"
  PROVE  access[3] = 0
<1>1. \A s \in DOMAIN job.body : LoadsOf(job.body[s]) \subseteq Load
  BY BodyType, LoadsOfType
<1>2. CASE access \in Keys(AllLoads(job.body))
  BY <1>1, <1>2 DEF Keys, AllLoads, Key, Load
<1>3. CASE access \in {AtIndex(ref) : ref \in Stored(job.body)}
  BY <1>3 DEF AtIndex
<1> QED
  BY <1>2, <1>3 DEF Checked

(* The checks cover every access but those of the slice that is the limit, *)
(* which are in range by themselves unless it is empty.                    *)
LEMMA ChecksSuffice ==
  ASSUME JobOK(job), ~NilFields, LengthsOK,
         NEW access \in Checked(job.body), job.limit # 0 \/ access[3] # 0
  PROVE  InRange(job, access[1], job.limit - 1 + access[3])
<1>1. /\ access \in Access /\ access[1] \in SliceNames /\ access[3] \in Int
      /\ job.slices[access[1]].len \in Nat /\ job.limit \in Int
  BY CheckedType, AccessType, SliceType, HeaderType
<1>2. ~(access[1] \in job.fields /\ job.nilRoot)
  BY DEF NilFields, Hoists, Refs
<1>3. CASE access \in LengthChecks
  <2>1. job.limit + access[3] - 1 = job.limit - 1 + access[3]
    BY <1>1
  <2> QED
    BY <1>2, <1>3, <2>1 DEF LengthsOK, LengthOK, InRange
<1>4. CASE access \notin LengthChecks
  <2>1. access[2] = "none" /\ access[1] = job.trip
    BY <1>4 DEF LengthChecks
  <2>2. access[3] = 0 /\ job.limit = job.slices[access[1]].len
    BY <1>1, <2>1, NoOffset DEF JobOK, HeaderOK
  <2> QED
    BY <1>1, <1>2, <2>2 DEF InRange
<1> QED
  BY <1>3, <1>4

(* A loop that ends at zero writes nothing.                                *)
LEMMA NothingBelowZero ==
  ASSUME Inv, mode = "vector", Runs, job.limit = 0, VectorStore \/ CopyCall
  PROVE  mem' = mem
<1>1. JobOK(job) /\ TypeOK /\ job.start \in Int /\ job.start < 0
  BY HeaderType DEF Inv, Runs
<1>2. CASE CopyCall
  <2>1. ~(0 <= job.start)
    BY <1>1
  <2> QED
    BY <1>2, <2>1, Zenon DEF CopyCall, Stop, Goto
<1>3. CASE VectorStore
  <2> DEFINE ref == job.body[k].target
             key == AtIndex(ref)
  <2>1. k \in DOMAIN job.body /\ job.body[k].kind = "store"
    BY <1>1, <1>3, BodyLength DEF TypeOK, VectorStore, Running
  <2>2. ref \in Stored(job.body) /\ ref \in SliceNames /\ key \in Access
    BY <1>1, <2>1, BodyType, AtIndexType DEF Stored, Stores, StatementOK
  <2>3. /\ OperandOK(key, Pos) /\ Pos \in Int
        /\ mem' = StoreVector(key, Pos, StatementVector(job.body[k], Held))
    BY <1>1, <1>3, PosType DEF VectorStore, AccessOK
  <2>4. OperandHigh(key) = 0
    BY <1>1, <2>2, TargetHigh
  <2>5. key[1] = ref /\ key[3] = 0
    BY DEF AtIndex
  <2> HIDE DEF key, ref
  <2>6. 0 <= OperandLow(key, Pos) /\ OperandLow(key, Pos) \in Int
    BY <2>3, <2>5 DEF OperandOK, OperandLow
  <2>7. ASSUME NEW a \in Addr, mem'[a] # mem[a] PROVE FALSE
    <3>1. a - job.slices[key[1]].base \in OperandLow(key, Pos)..(OperandHigh(key) - 1)
      BY <1>1, <2>2, <2>3, <2>7, StoreVectorWithin
    <3> QED
      BY <2>4, <2>6, <3>1
  <2>8. mem' = [a \in Addr |-> mem'[a]] /\ mem = [a \in Addr |-> mem[a]]
    BY <1>1, <2>3 DEF StoreVector, TypeOK
  <2> QED
    BY <2>7, <2>8
<1> QED
  BY <1>2, <1>3

(* Every step keeps ShortInv.                                              *)
LEMMA ShortStep == ASSUME Inv, ShortInv, [Next]_vars PROVE ShortInv'
<1> SUFFICES ASSUME mode' = "vector", Runs PROVE ShortInv'
  BY JobKept DEF ShortInv, Runs
<1>1. /\ job' = job /\ Runs' = Runs /\ InTrip' = InTrip /\ NilFields' = NilFields
  BY JobKept DEF Runs, InTrip, InRange, NilFields
<1>0. LengthsOK' = LengthsOK
  BY JobKept DEF LengthsOK, LengthChecks, LengthOK
<1>2. mode = "vector"
  BY DEF Next, vars, Hoist, OverlapCheck, LengthCheck, CopyCall, ChunkTest, CountTest, MainTest,
         SingleTest, LoadAhead, VectorLet, VectorFold, VectorStore, VectorPanic, NextCopy, Advance,
         MergeCopy, FoldLane, NextFold, Remainder, ScalarBegin, ScalarStatement, ScalarAdvance,
         Terminated, Stop, StartBody, Goto
<1>3. ShortInv /\ Inv /\ JobOK(job)
  BY DEF Inv
<1>4. CASE Hoist
  BY <1>1, <1>2, <1>3, <1>4 DEF ShortInv, Hoist, Stop, Goto, NonEmpty, NilFields
<1>5. CASE OverlapCheck
  BY <1>1, <1>2, <1>3, <1>5 DEF ShortInv, OverlapCheck, Stop, Goto
<1>6. CASE LengthCheck
  <2>1. (mem' = mem /\ mem = Mem0) \/ InTrip
    BY <1>2, <1>3, <1>6 DEF ShortInv, LengthCheck, Stop
  <2> QED
    BY <1>0, <1>1, <1>2, <1>3, <1>6, <2>1 DEF ShortInv, LengthCheck, LengthsOK, Stop, Goto
<1>7. CASE mem' = mem /\ pc \notin {"hoist", "overlap", "check", "done", "panic"}
           /\ pc' \notin {"hoist", "overlap", "check"}
  BY <1>0, <1>1, <1>2, <1>3, <1>7 DEF ShortInv
<1>8. CASE VectorStore \/ CopyCall
  <2>1. pc \in {"statement", "copy"} /\ pc' \in {"statement", "done", "panic"}
    BY <1>8 DEF VectorStore, Running, CopyCall, Stop, Goto
  <2>2. ~NilFields /\ LengthsOK
    BY <1>2, <1>3, <2>1 DEF ShortInv
  <2>4. InTrip \/ job.limit = 0
    BY <1>3, <2>2, ChecksSuffice DEF InTrip
  <2>3. job.limit = 0 => mem' = mem
    BY <1>2, <1>3, <1>8, NothingBelowZero
  <2> QED
    BY <1>0, <1>1, <1>2, <1>3, <2>1, <2>2, <2>3, <2>4 DEF ShortInv
<1>9. CASE ChunkTest \/ CountTest \/ MainTest \/ SingleTest \/ LoadAhead
  <2>1. mem' = mem /\ pc \in {"test", "count", "main", "load"}
        /\ pc' \in {"load", "done", "main", "begin", "combine", "statement", "panic"}
    BY <1>9 DEF ChunkTest, CountTest, MainTest, SingleTest, LoadAhead, Stop, Goto, StartBody
  <2> QED
    BY <2>1, <1>7
<1>10. CASE VectorLet \/ VectorFold \/ VectorPanic \/ NextCopy \/ Advance
  <2>1. mem' = mem /\ pc = "statement" /\ pc' \in {"statement", "panic", "load", "main", "test"}
    BY <1>10 DEF VectorLet, VectorFold, VectorPanic, NextCopy, Advance, Running, Stop, Goto, StartBody
  <2> QED
    BY <2>1, <1>7
<1>11. CASE MergeCopy \/ FoldLane \/ NextFold \/ Remainder
  <2>1. mem' = mem /\ pc = "combine" /\ pc' \in {"combine", "begin"}
    BY <1>11 DEF MergeCopy, FoldLane, NextFold, Remainder, Combining, Goto
  <2> QED
    BY <2>1, <1>7
<1>12. CASE ScalarBegin \/ ScalarStatement \/ ScalarAdvance
  BY <1>2, <1>3, <1>12 DEF Inv, ControlInv, ScalarBegin, ScalarStatement, ScalarAdvance
<1>13. CASE Terminated \/ UNCHANGED vars
  BY <1>0, <1>1, <1>2, <1>3, <1>13 DEF Terminated, vars, ShortInv
<1> QED
  BY <1>4, <1>5, <1>6, <1>8, <1>9, <1>10, <1>11, <1>12, <1>13 DEF Next

(* A slice too short for the loop is noticed before anything is written:   *)
(* past checked (emit.go) the vector code leaves no work half done, for    *)
(* every job, vector length and memory.                                    *)
THEOREM ShortSlicesNoticed == Spec => []ShortSliceWritesNothing
<1>1. Init => ShortInv
  BY DEF Init, ShortInv
<1>2. Inv /\ ShortInv /\ [Next]_vars => ShortInv'
  BY ShortStep
<1>3. ShortInv => ShortSliceWritesNothing
  BY DEF ShortInv, ShortSliceWritesNothing, InTrip
<1> QED
  BY <1>1, <1>2, <1>3, Invariance, PTL DEF Spec

-----------------------------------------------------------------------------
(***************************************************************************)
(* Vectors held in registers are current.  Whatever a store changes lies   *)
(* in its own slice, at the index, or apart from what was loaded.          *)
(***************************************************************************)
HeldIn(held) ==
  \A key \in DOMAIN held :
    /\ key \in Checked(job.body) /\ OperandOK(key, Pos)
    /\ (key[2] = "none" \/ key[1] \notin Stored(job.body)) =>
         \A l \in Lane : Pos + l < job.limit => held[key][l] = LoadVector(key, Pos)[l]

HeldInv ==
  /\ pc = "load" => DOMAIN loaded = {}
  /\ pc = "statement" => HeldIn(loaded)

(* What is loaded now is current, and what was loaded before still is.     *)
LEMMA WithLoadsHeld ==
  ASSUME NEW loads \in SUBSET AllLoads(job.body), LoadsOK(loads), HeldIn(loaded)
  PROVE  HeldIn(WithLoads(loads))
<1> SUFFICES ASSUME NEW key \in DOMAIN WithLoads(loads)
             PROVE  /\ key \in Checked(job.body) /\ OperandOK(key, Pos)
                    /\ (key[2] = "none" \/ key[1] \notin Stored(job.body)) =>
                         \A l \in Lane : Pos + l < job.limit =>
                           WithLoads(loads)[key][l] = LoadVector(key, Pos)[l]
  BY DEF HeldIn
<1>1. CASE key \in DOMAIN loaded
  BY <1>1 DEF HeldIn, WithLoads
<1>2. CASE key \notin DOMAIN loaded
  <2>1. key \in Keys(loads) /\ WithLoads(loads)[key] = LoadVector(key, Pos)
    BY <1>2 DEF WithLoads
  <2>2. key \in Checked(job.body)
    BY <2>1 DEF Keys, Checked
  <2>3. OperandOK(key, Pos)
    BY <1>2, <2>1 DEF LoadsOK, AccessOK
  <2> QED
    BY <2>1, <2>2, <2>3
<1> QED
  BY <1>1, <1>2

(* Nothing that is current changes as long as memory and the index do not. *)
LEMMA HeldFrame ==
  ASSUME job' = job, i' = i, copy' = copy, mem' = mem, HeldIn(loaded')
  PROVE  HeldIn(loaded)'
<1>1. Pos' = Pos
  BY DEF Pos
<1>2. \A key : OperandOK(key, Pos)' <=> OperandOK(key, Pos)
  BY <1>1 DEF OperandOK, OperandLow, OperandHigh
<1>3. \A key : LoadVector(key, Pos)' = LoadVector(key, Pos)
  BY <1>1 DEF LoadVector, Covered, OperandLen, OperandLow, OperandHigh, ElementAddr
<1> QED
  BY <1>1, <1>2, <1>3 DEF HeldIn

(* An element of a loaded vector that a store changes is one of the slice  *)
(* the store is to, at the index.                                          *)
LEMMA StoreApart ==
  ASSUME Inv, VectorStore, NEW key \in Checked(job.body), OperandOK(key, Pos),
         key[2] = "none" \/ key[1] \notin Stored(job.body), key # AtIndex(job.body[k].target),
         NEW l \in Lane, Pos + l < job.limit, l < Covered(key, Pos)
  PROVE  LET a == ElementAddr(job, key[1], OperandLow(key, Pos)) + l IN mem'[a] = mem[a]
<1> DEFINE ref == job.body[k].target
           a == ElementAddr(job, key[1], OperandLow(key, Pos)) + l
<1>1. JobOK(job) /\ TypeOK /\ mode = "vector" /\ ~SomeOverlap
  BY DEF Inv, ControlInv, ApartInv, VectorStore, Running
<1>2. k \in DOMAIN job.body /\ job.body[k].kind = "store"
  BY <1>1, BodyLength DEF TypeOK, VectorStore, Running
<1>3. ref \in Stored(job.body) /\ ref \in SliceNames /\ AtIndex(ref) \in Access
  BY <1>1, <1>2, BodyType, AtIndexType DEF Stored, Stores, StatementOK
<1>4. /\ key \in Access /\ key[1] \in SliceNames /\ key[3] \in Int
      /\ key[1] # ref
  <2>1. key \in Access
    BY <1>1, CheckedType
  <2>2. key[1] = ref => key[2] = "none" /\ key[3] = 0
    BY <1>1, <1>3, NoOffset
  <2>3. key = <<key[1], key[2], key[3]>>
    BY <2>1 DEF Access
  <2> QED
    BY <2>1, <2>2, <2>3, AccessType DEF AtIndex
<1>5. /\ Pos \in Int /\ Pos >= job.start /\ l \in Nat
      /\ job.start \in Int /\ job.limit \in Int
  <2>1. i \in Int /\ i >= job.start /\ copy \in Nat /\ Lanes \in Nat
    BY <1>1, CopiesType, LanesType DEF TypeOK, Inv, IndexInv
  <2>2. copy * Lanes \in Nat
    BY <2>1
  <2>3. l \in Nat
    BY LanesType DEF Lane
  <2> QED
    BY <1>1, <2>1, <2>2, <2>3, HeaderType DEF Pos
<1>6. /\ job.slices[key[1]].base \in Nat /\ job.slices[key[1]].len \in Nat
      /\ job.slices[key[1]].base + job.slices[key[1]].len <= MemSize
      /\ job.slices[ref].base \in Nat /\ job.slices[ref].len \in Nat
  BY <1>1, <1>3, <1>4, SliceType
<1>7. /\ a = job.slices[key[1]].base + (Pos + key[3] + l)
      /\ Pos + key[3] + l \in 0..(job.slices[key[1]].len - 1)
  <2>1. /\ OperandLow(key, Pos) = Pos + key[3] /\ OperandHigh(key) <= job.slices[key[1]].len
        /\ 0 <= Pos + key[3]
    BY DEF OperandOK, OperandLow
  <2>2. /\ Covered(key, Pos) \in 0..Lanes /\ OperandHigh(key) \in Int
        /\ OperandLow(key, Pos) + Covered(key, Pos) <= OperandHigh(key)
    BY <1>1, <1>4, <1>5, CoveredType
  <2> QED
    BY <1>4, <1>5, <1>6, <2>1, <2>2, LanesType DEF ElementAddr
<1>8. a \in Addr
  <2>1. MemSize \in Nat
    BY ValueAssumption
  <2>2. \A b, len, m \in Nat, x \in Int : x \in 0..(len - 1) /\ b + len <= m => b + x \in 0..(m - 1)
    OBVIOUS
  <2> HIDE DEF a
  <2> QED
    BY <1>4, <1>5, <1>6, <1>7, <2>1, <2>2 DEF Addr
<1>9. a \in Touched(key[1])
  <2>1. key[3] \in Offsets(job.body, key[1])
    BY DEF Offsets
  <2>2. (Pos + key[3] + l) - key[3] \in job.start..(job.limit - 1)
    BY <1>4, <1>5
  <2> QED
    BY <1>7, <2>1, <2>2 DEF Touched, ElementAddr
<1>10. ASSUME mem'[a] # mem[a] PROVE a \in Touched(ref)
  <2>1. /\ OperandOK(AtIndex(ref), Pos)
        /\ mem' = StoreVector(AtIndex(ref), Pos, StatementVector(job.body[k], Held))
    BY DEF VectorStore, AccessOK
  <2>2. a - job.slices[AtIndex(ref)[1]].base
          \in OperandLow(AtIndex(ref), Pos)..(OperandHigh(AtIndex(ref)) - 1)
    <3> HIDE DEF ref, a
    <3> QED
      BY <1>1, <1>3, <1>5, <1>8, <1>10, <2>1, StoreVectorWithin
  <2>3. /\ OperandHigh(AtIndex(ref)) = job.limit /\ AtIndex(ref)[1] = ref
        /\ OperandLow(AtIndex(ref), Pos) = Pos
    BY <1>1, <1>3, <1>5, TargetHigh DEF AtIndex, OperandLow
  <2>4. 0 <= Pos /\ job.limit <= job.slices[ref].len
    BY <2>1, <2>3 DEF OperandOK
  <2> DEFINE x == a - job.slices[ref].base
  <2>5. x \in Pos..(job.limit - 1) /\ x \in 0..(job.slices[ref].len - 1) /\ x - 0 \in job.start..(job.limit - 1)
    BY <1>5, <1>6, <2>2, <2>3, <2>4
  <2>6. a = job.slices[ref].base + x
    BY <1>6, <1>8, ValueAssumption DEF Addr
  <2>7. 0 \in Offsets(job.body, ref)
    BY DEF Offsets
  <2> HIDE DEF x, a, ref
  <2> QED
    BY <2>5, <2>6, <2>7 DEF Touched, ElementAddr
<1>11. <<ref, key[1]>> \in Overlaps(job.body)
  BY <1>3, <1>4 DEF Overlaps, Refs
<1>12. Touched(ref) \cap Touched(key[1]) = {}
  <2>1. \A pair \in Overlaps(job.body) : Touched(pair[1]) \cap Touched(pair[2]) = {}
    BY <1>1, ApartSound
  <2> QED
    BY <1>11, <2>1
<1> QED
  BY <1>9, <1>10, <1>12

(* A store of the emitted code changes no element a held vector read.      *)
LEMMA StoreKeepsHeld ==
  ASSUME Inv, VectorStore, HeldIn(Held)
  PROVE  HeldIn(loaded)'
<1> DEFINE target == AtIndex(job.body[k].target)
<1>1. /\ loaded' = [x \in DOMAIN Held \ {target} |-> Held[x]]
      /\ job' = job /\ i' = i /\ copy' = copy
  BY DEF VectorStore, LoadedAfterStore
<1>2. Pos' = Pos
  BY <1>1 DEF Pos
<1>3. \A key : OperandOK(key, Pos)' <=> OperandOK(key, Pos)
  BY <1>1, <1>2 DEF OperandOK, OperandLow, OperandHigh
<1>4. ASSUME NEW key \in DOMAIN Held \ {target}, key[2] = "none" \/ key[1] \notin Stored(job.body),
             NEW l \in Lane, Pos + l < job.limit
      PROVE  LoadVector(key, Pos)'[l] = LoadVector(key, Pos)[l]
  <2>1. key \in Checked(job.body) /\ OperandOK(key, Pos)
    BY <1>4 DEF HeldIn
  <2>2. l < Covered(key, Pos) =>
          mem'[ElementAddr(job, key[1], OperandLow(key, Pos)) + l]
            = mem[ElementAddr(job, key[1], OperandLow(key, Pos)) + l]
    BY <1>4, <2>1, StoreApart
  <2>3. Covered(key, Pos)' = Covered(key, Pos)
    BY <1>1, <1>2 DEF Covered, OperandLen, OperandLow, OperandHigh
  <2>4. LoadVector(key, Pos)' =
          [x \in Lane |-> IF x < Covered(key, Pos)
                          THEN mem'[ElementAddr(job, key[1], OperandLow(key, Pos)) + x]
                          ELSE Zero]
    BY <1>1, <1>2, <2>3 DEF LoadVector, OperandLow, ElementAddr
  <2> QED
    BY <2>2, <2>4 DEF LoadVector
<1> HIDE DEF target
<1>5. \A key \in DOMAIN Held \ {target} : loaded'[key] = Held[key]
  BY <1>1
<1>6. DOMAIN loaded' = DOMAIN Held \ {target}
  BY <1>1
<1> SUFFICES ASSUME NEW key \in DOMAIN Held \ {target}
             PROVE  /\ key \in Checked(job.body) /\ OperandOK(key, Pos)'
                    /\ (key[2] = "none" \/ key[1] \notin Stored(job.body)) =>
                         \A l \in Lane : Pos + l < job.limit => loaded'[key][l] = LoadVector(key, Pos)'[l]
  BY <1>1, <1>2, <1>6 DEF HeldIn
<1> QED
  BY <1>3, <1>4, <1>5 DEF HeldIn

(* Every step keeps HeldInv.                                               *)
LEMMA HeldStep == ASSUME Inv, HeldInv, [Next]_vars PROVE HeldInv'
<1>1. JobOK(job) /\ TypeOK /\ job' = job
  BY JobKept DEF Inv
<1>2. CASE LoadAhead
  <2>1. LoadsAhead(job.body) \subseteq AllLoads(job.body)
    BY DEF LoadsAhead
  <2>2. HeldIn(loaded)
    BY <1>2 DEF HeldInv, LoadAhead, HeldIn
  <2>3. CASE LoadsOK(LoadsAhead(job.body))
    <3>1. /\ loaded' = WithLoads(LoadsAhead(job.body)) /\ pc' = "statement"
          /\ job' = job /\ i' = i /\ copy' = copy /\ mem' = mem
      BY <1>2, <2>3 DEF LoadAhead, Goto
    <3>2. HeldIn(WithLoads(LoadsAhead(job.body)))
      BY <2>1, <2>2, <2>3, WithLoadsHeld
    <3>3. HeldIn(loaded')
      BY <3>1, <3>2
    <3> QED
      BY <3>1, <3>3, HeldFrame DEF HeldInv
  <2>4. CASE ~LoadsOK(LoadsAhead(job.body))
    BY <1>2, <2>4 DEF LoadAhead, Stop, Goto, HeldInv
  <2> QED
    BY <2>3, <2>4
<1>3. CASE VectorLet \/ VectorFold \/ VectorStore
  <2>1. pc = "statement" /\ CanLoad /\ k \in DOMAIN job.body /\ pc' = "statement"
    BY <1>1, <1>3, BodyLength DEF VectorLet, VectorFold, VectorStore, Running, TypeOK
  <2>2. LoadsOf(job.body[k]) \subseteq AllLoads(job.body)
    BY <2>1 DEF AllLoads
  <2>3. HeldIn(Held)
    BY <2>1, <2>2, WithLoadsHeld DEF HeldInv, CanLoad, Held
  <2>4. HeldIn(loaded)'
    <3>1. CASE VectorLet \/ VectorFold
      <4>1. loaded' = Held /\ job' = job /\ i' = i /\ copy' = copy /\ mem' = mem
        BY <3>1 DEF VectorLet, VectorFold
      <4>2. HeldIn(loaded')
        BY <2>3, <4>1
      <4> QED
        BY <4>1, <4>2, HeldFrame
    <3>2. CASE VectorStore
      BY <2>3, <3>2, StoreKeepsHeld
    <3> QED
      BY <1>3, <3>1, <3>2
  <2> QED
    BY <2>1, <2>4 DEF HeldInv
<1>4. CASE ChunkTest \/ MainTest \/ SingleTest \/ NextCopy
  <2>1. (pc' = "load" /\ loaded' = Empty) \/ pc' \in {"done", "combine"}
    BY <1>4 DEF ChunkTest, MainTest, SingleTest, NextCopy, StartBody, Stop, Goto
  <2> QED
    BY <2>1 DEF HeldInv, Empty
<1>5. CASE UNCHANGED vars
  <2>1. /\ job' = job /\ i' = i /\ copy' = copy /\ mem' = mem /\ loaded' = loaded /\ pc' = pc
    BY <1>5 DEF vars
  <2>2. pc' = "statement" => HeldIn(loaded')
    BY <2>1 DEF HeldInv
  <2> QED
    BY <2>1, <2>2, HeldFrame DEF HeldInv
<1>6. CASE Hoist \/ OverlapCheck \/ LengthCheck \/ CopyCall \/ CountTest
  <2>1. pc' \notin {"load", "statement"}
    BY <1>6 DEF Hoist, OverlapCheck, LengthCheck, CopyCall, CountTest, Stop, Goto, LoopLabel
  <2> QED
    BY <2>1 DEF HeldInv
<1>7. CASE VectorPanic \/ Advance \/ MergeCopy \/ FoldLane \/ NextFold \/ Remainder
  <2>1. pc' \notin {"load", "statement"}
    BY <1>7 DEF VectorPanic, Advance, MergeCopy, FoldLane, NextFold, Remainder, Combining, Stop, Goto
  <2> QED
    BY <2>1 DEF HeldInv
<1>8. CASE ScalarBegin \/ ScalarStatement \/ ScalarAdvance \/ (pc \in {"done", "panic"} /\ pc' = pc)
  <2>1. pc' \notin {"load", "statement"}
    BY <1>8 DEF ScalarBegin, ScalarStatement, ScalarAdvance, Stop, Goto
  <2> QED
    BY <2>1 DEF HeldInv
<1> QED
  BY <1>2, <1>3, <1>4, <1>5, <1>6, <1>7, <1>8 DEF Next, Terminated

(* The body (emit.go) forgets enough at a store: in every lane of the loop *)
(* a vector loaded earlier in a chunk is what memory holds now, whatever   *)
(* the slices share.                                                       *)
THEOREM LoadedStaysCurrent == Spec => []HeldCurrent
<1>1. Init => HeldInv
  BY DEF Init, HeldInv
<1>2. Inv /\ HeldInv /\ [Next]_vars => HeldInv'
  BY HeldStep
<1>3. HeldInv => HeldCurrent
  BY DEF HeldInv, HeldCurrent, HeldIn, Current
<1> QED
  BY <1>1, <1>2, <1>3, Invariance, PTL DEF Spec

-----------------------------------------------------------------------------
(***************************************************************************)
(* A chunk done statement by statement is the iterations done one by one.  *)
(* First, what a statement of the scalar loop changes.                     *)
(***************************************************************************)

(* It changes nothing but its target.                                      *)
LEMMA ExecKeeps ==
  ASSUME JobOK(job), NEW s \in DOMAIN job.body, NEW x, NEW st \in State
  PROVE  LET stmt == job.body[s]
             next == ExecStatement(job, stmt, x, st)
         IN  /\ next.value = st.value
             /\ \A a \in Addr : (stmt.kind = "store" => a # ElementAddr(job, stmt.target, x))
                                  => next.mem[a] = st.mem[a]
             /\ \A t \in TempNames : (stmt.kind = "let" => t # stmt.target)
                                       => next.locals[t] = st.locals[t]
<1> DEFINE stmt == job.body[s]
           next == ExecStatement(job, stmt, x, st)
           new == Assigned(job, stmt, x, st)
<1>1. Outcome(stmt, x, st, next)
  BY ExecCases
<1> HIDE DEF stmt, new, next
<1>2. /\ next.value = st.value
      /\ \A a \in Addr : (stmt.kind = "store" => a # ElementAddr(job, stmt.target, x))
                           => next.mem[a] = st.mem[a]
      /\ \A t \in TempNames : (stmt.kind = "let" => t # stmt.target) => next.locals[t] = st.locals[t]
  BY <1>1 DEF State, Outcome
<1> QED
  BY <1>2 DEF stmt, next

(* The loads an iteration performs for a statement are loads of it.        *)
LEMMA PerformedLoads ==
  ASSUME NEW stmt \in Statement, NEW reads, NEW held
  PROVE  Performed(stmt, reads, held) \subseteq LoadsOf(stmt)
<1>1. \A a \in DOMAIN stmt.arms :
        EvaluatedIn(stmt.arms[a].cond, reads, held) \subseteq CondLoads(stmt.arms[a].cond)
  BY DEF EvaluatedIn, CondLoads
<1>2. HasElse(stmt) => OtherValue(stmt) = stmt.other[1]
  BY DEF OtherValue
<1> QED
  BY <1>1, <1>2, LoadsParts DEF Performed

(* Every access of the body at index x is in its slice.                    *)
InBody(x) == \A access \in Checked(job.body) : InRange(job, access[1], x + access[3])

(* Then no statement panics,                                               *)
LEMMA NoPanic ==
  ASSUME JobOK(job), NEW s \in DOMAIN job.body, NEW x \in Int, InBody(x), NEW reads, NEW held
  PROVE  /\ ~StatementPanics(job, job.body[s], x, reads, held)
         /\ job.body[s].kind = "store" => InRange(job, job.body[s].target, x)
<1> DEFINE stmt == job.body[s]
<1>1. stmt \in Statement /\ Performed(stmt, reads, held) \subseteq LoadsOf(stmt)
  BY BodyType, PerformedLoads
<1>2. \A ld \in LoadsOf(stmt) : InRange(job, ld.ref, x + ld.off)
  <2> TAKE ld \in LoadsOf(stmt)
  <2>1. Key(ld) \in Checked(job.body)
    BY DEF Checked, Keys, AllLoads
  <2> QED
    BY <2>1 DEF InBody, Key
<1>3. stmt.kind = "store" => InRange(job, stmt.target, x)
  <2> SUFFICES ASSUME stmt.kind = "store" PROVE InRange(job, stmt.target, x)
    OBVIOUS
  <2>1. AtIndex(stmt.target) \in Checked(job.body)
    BY DEF Checked, Stored, Stores
  <2>2. InRange(job, stmt.target, x + 0)
    BY <2>1 DEF InBody, AtIndex
  <2> QED
    BY <2>2
<1> QED
  BY <1>1, <1>2, <1>3 DEF StatementPanics

(* A target without an else branch keeps its value.                        *)
LEMMA Unassigned ==
  ASSUME JobOK(job), NEW s \in DOMAIN job.body, NEW x \in Int, InBody(x), NEW st \in State,
         ~Assigns(job.body[s], ScalarReads(job, job.body[s], x, st.mem, st.value), st.locals)
  PROVE  Assigned(job, job.body[s], x, st) =
           IF job.body[s].kind = "store" THEN st.mem[ElementAddr(job, job.body[s].target, x)]
                                         ELSE st.locals[job.body[s].target]
<1> DEFINE stmt == job.body[s]
           reads == ScalarReads(job, stmt, x, st.mem, st.value)
<1>1. StatementOK(stmt) /\ stmt \in Statement
  BY BodyType
<1>2. ~HasElse(stmt) /\ TakesOther(stmt, reads, st.locals)
  BY DEF Assigns
<1>3. Assigned(job, stmt, x, st) = ExprValue(OtherValue(stmt), reads, st.locals)
  BY <1>2 DEF Assigned, SelectValue
<1>4. CASE stmt.kind = "store"
  <2> DEFINE ld == LoadAtIndex(stmt.target)
             a == ElementAddr(job, stmt.target, x)
  <2>1. OtherValue(stmt) = ReadOf(<<ld>>)
    BY <1>2, <1>4 DEF OtherValue
  <2>2. ld \in LoadsOf(stmt)
    <3>1. ld \in Loads(ReadOf(<<ld>>))
      BY DEF Loads, ReadOf
    <3> QED
      BY <2>1, <3>1, LoadsParts
  <2>3. InRange(job, stmt.target, x) /\ stmt.target \in SliceNames
    BY <1>1, <1>4, NoPanic DEF StatementOK
  <2>4. reads[ld] = st.mem[a]
    <3>1. ld.ref = stmt.target /\ x + ld.off = x /\ ~ld.fromRange
      BY DEF LoadAtIndex
    <3> HIDE DEF ld
    <3> QED
      BY <2>2, <2>3, <3>1 DEF ScalarReads
  <2>5. a \in Addr /\ st.mem[a] \in Value
    BY <2>3, ElementAddrType DEF State
  <2>6. ExprValue(ReadOf(<<ld>>), reads, st.locals) = Apply("id", <<reads[ld]>>)
    <3>1. [y \in 1..Len(<<ld>>) |-> reads[<<ld>>[y]]] = <<reads[ld]>>
      OBVIOUS
    <3>2. [y \in 1..Len(<< >>) |-> st.locals[<< >>[y]]] = << >>
      OBVIOUS
    <3>3. <<reads[ld]>> \o << >> = <<reads[ld]>>
      OBVIOUS
    <3> QED
      BY <3>1, <3>2, <3>3 DEF ExprValue, ReadOf
  <2> QED
    BY <1>3, <1>4, <2>1, <2>4, <2>5, <2>6, OperationsAssumption
<1>5. CASE stmt.kind # "store"
  <2>1. stmt.kind = "let" /\ stmt.target \in TempNames
    BY <1>1, <1>2, <1>5 DEF StatementOK, Statement
  <2>2. OtherValue(stmt) = UseOf(stmt.target)
    BY <1>2, <1>5 DEF OtherValue
  <2>3. ExprValue(UseOf(stmt.target), reads, st.locals) = Apply("id", <<st.locals[stmt.target]>>)
    <3>1. [y \in 1..Len(<<stmt.target>>) |-> st.locals[<<stmt.target>>[y]]] = <<st.locals[stmt.target]>>
      OBVIOUS
    <3>2. [y \in 1..Len(<< >>) |-> reads[<< >>[y]]] = << >>
      OBVIOUS
    <3>3. << >> \o <<st.locals[stmt.target]>> = <<st.locals[stmt.target]>>
      OBVIOUS
    <3> QED
      BY <3>1, <3>2, <3>3 DEF ExprValue, UseOf
  <2>4. st.locals[stmt.target] \in Value
    BY <2>1 DEF State
  <2> QED
    BY <1>3, <1>5, <2>2, <2>3, <2>4, OperationsAssumption
<1> QED
  BY <1>4, <1>5

(* and a statement assigns its target the value it selects.                *)
LEMMA ExecAssigns ==
  ASSUME JobOK(job), NEW s \in DOMAIN job.body, NEW x \in Int, InBody(x), NEW st \in State
  PROVE  LET stmt == job.body[s]
             next == ExecStatement(job, stmt, x, st)
         IN  /\ next.panicked = st.panicked
             /\ stmt.kind = "store" =>
                  next.mem[ElementAddr(job, stmt.target, x)] = Assigned(job, stmt, x, st)
             /\ stmt.kind = "let" => next.locals[stmt.target] = Assigned(job, stmt, x, st)
<1> DEFINE stmt == job.body[s]
           next == ExecStatement(job, stmt, x, st)
           new == Assigned(job, stmt, x, st)
           at == ElementAddr(job, stmt.target, x)
           reads == ScalarReads(job, stmt, x, st.mem, st.value)
<1>0. ~StatementPanics(job, stmt, x, reads, st.locals)
  BY NoPanic
<1>1. next = IF ~Assigns(stmt, reads, st.locals) THEN st
             ELSE CASE stmt.kind = "store" -> [st EXCEPT !.mem[at] = new]
                    [] stmt.kind = "let" -> [st EXCEPT !.locals[stmt.target] = new]
                    [] stmt.kind = "reduce" -> [st EXCEPT !.acc[stmt.target] = Fold(stmt.op, @, new)]
  BY <1>0 DEF ExecStatement, Assigned
<1>7. stmt.kind \in {"store", "let", "reduce"}
  BY BodyType DEF Statement
<1>2. ~Assigns(stmt, reads, st.locals) =>
        new = IF stmt.kind = "store" THEN st.mem[at] ELSE st.locals[stmt.target]
  BY Unassigned
<1>3. stmt.kind = "store" => at \in Addr
  BY NoPanic, BodyType, ElementAddrType DEF StatementOK
<1>4. stmt.kind = "let" => stmt.target \in TempNames
  BY BodyType DEF StatementOK
<1>5. st.mem \in [Addr -> Value] /\ st.locals \in [TempNames -> Value]
      /\ st = [mem |-> st.mem, acc |-> st.acc, locals |-> st.locals, value |-> st.value,
               panicked |-> st.panicked]
  BY DEF State
<1> HIDE DEF stmt, next, new, at, reads
<1>6. /\ next.panicked = st.panicked
      /\ stmt.kind = "store" => next.mem[at] = new
      /\ stmt.kind = "let" => next.locals[stmt.target] = new
  BY <1>1, <1>2, <1>3, <1>4, <1>5, <1>7
<1> QED
  BY <1>6 DEF stmt, next, new, at

-----------------------------------------------------------------------------
(***************************************************************************)
(* A value depends on the leaves only.                                     *)
(***************************************************************************)
(* The temporaries a statement reads are those of its conditions and       *)
(* values.                                                                 *)
LEMMA TempsParts ==
  ASSUME NEW s, NEW t
  PROVE  t \in TempsRead(s) <=>
           \/ \E a \in DOMAIN s.arms : t \in CondTemps(s.arms[a].cond) \cup Temps(s.arms[a].val)
           \/ t \in Temps(OtherValue(s))
  BY DEF TempsRead

(* So the value of an expression,                                          *)
LEMMA ExprValueSame ==
  ASSUME NEW e \in Expr, NEW r1, NEW r2, \A ld \in Loads(e) : r1[ld] = r2[ld],
         NEW h1, NEW h2, \A t \in Temps(e) : h1[t] = h2[t]
  PROVE  ExprValue(e, r1, h1) = ExprValue(e, r2, h2)
<1>1. e.loads \in Seq(Load) /\ e.temps \in Seq(TempNames)
  BY DEF Expr
<1>2. [x \in 1..Len(e.loads) |-> r1[e.loads[x]]] = [x \in 1..Len(e.loads) |-> r2[e.loads[x]]]
  BY <1>1 DEF Loads
<1>3. [x \in 1..Len(e.temps) |-> h1[e.temps[x]]] = [x \in 1..Len(e.temps) |-> h2[e.temps[x]]]
  BY <1>1 DEF Temps
<1> QED
  BY <1>2, <1>3 DEF ExprValue

(* the arm that is taken,                                                  *)
LEMMA TakesSame ==
  ASSUME NEW s \in Statement,
         NEW r1, NEW r2, \A ld \in LoadsOf(s) : r1[ld] = r2[ld],
         NEW h1, NEW h2, \A t \in TempsRead(s) : h1[t] = h2[t]
  PROVE  /\ TakesOther(s, r1, h1) <=> TakesOther(s, r2, h2)
         /\ \A a \in DOMAIN s.arms : TakesArm(s, a, r1, h1) <=> TakesArm(s, a, r2, h2)
<1>1. ASSUME NEW a \in DOMAIN s.arms, NEW m \in DOMAIN s.arms[a].cond.clauses
      PROVE  ExprValue(s.arms[a].cond.clauses[m], r1, h1) = ExprValue(s.arms[a].cond.clauses[m], r2, h2)
  <2> DEFINE e == s.arms[a].cond.clauses[m]
  <2>1. e \in Expr
    BY ArmType
  <2>2. \A ld \in Loads(e) : ld \in LoadsOf(s)
    BY LoadsParts DEF CondLoads
  <2>3. \A t \in Temps(e) : t \in TempsRead(s)
    BY TempsParts DEF CondTemps
  <2> HIDE DEF e
  <2>4. ExprValue(e, r1, h1) = ExprValue(e, r2, h2)
    BY <2>1, <2>2, <2>3, ExprValueSame
  <2> QED
    BY <2>4 DEF e
<1>2. ASSUME NEW a \in DOMAIN s.arms
      PROVE  CondHolds(s.arms[a].cond, r1, h1) <=> CondHolds(s.arms[a].cond, r2, h2)
  BY <1>1 DEF CondHolds, ClauseHolds
<1>3. DOMAIN s.arms = 1..Len(s.arms) /\ Len(s.arms) \in Nat
  BY DEF Statement
<1>4. \A a \in DOMAIN s.arms, b \in Int : b \in 1..(a - 1) => b \in DOMAIN s.arms
  BY <1>3
<1> QED
  BY <1>2, <1>4 DEF TakesOther, TakesArm

(* and the value that is selected.                                         *)
LEMMA SelectValueSame ==
  ASSUME NEW s, StatementOK(s),
         NEW r1, NEW r2, \A ld \in LoadsOf(s) : r1[ld] = r2[ld],
         NEW h1, NEW h2, \A t \in TempsRead(s) : h1[t] = h2[t]
  PROVE  SelectValue(s, r1, h1) = SelectValue(s, r2, h2)
<1>1. s \in Statement
  BY DEF StatementOK
<1>2. CASE TakesOther(s, r1, h1)
  <2>1. TakesOther(s, r2, h2)
    BY <1>1, <1>2, TakesSame
  <2>2. ExprValue(OtherValue(s), r1, h1) = ExprValue(OtherValue(s), r2, h2)
    <3>1. \A ld \in Loads(OtherValue(s)) : ld \in LoadsOf(s)
      BY LoadsParts
    <3>2. \A t \in Temps(OtherValue(s)) : t \in TempsRead(s)
      BY TempsParts
    <3> QED
      BY <3>1, <3>2, OtherValueType, ExprValueSame
  <2> QED
    BY <1>2, <2>1, <2>2 DEF SelectValue
<1>3. CASE ~TakesOther(s, r1, h1)
  <2> DEFINE a == CHOOSE b \in DOMAIN s.arms : TakesArm(s, b, r1, h1)
             c == CHOOSE b \in DOMAIN s.arms : TakesArm(s, b, r2, h2)
  <2>1. ~TakesOther(s, r2, h2)
    BY <1>1, <1>3, TakesSame
  <2>2. a \in DOMAIN s.arms /\ TakesArm(s, a, r1, h1)
    BY <1>1, <1>3, SomeArmTaken
  <2>3. c \in DOMAIN s.arms /\ TakesArm(s, c, r2, h2)
    BY <1>1, <2>1, SomeArmTaken
  <2>4. SelectValue(s, r1, h1) = ExprValue(s.arms[a].val, r1, h1)
    BY <1>3 DEF SelectValue
  <2>5. SelectValue(s, r2, h2) = ExprValue(s.arms[c].val, r2, h2)
    BY <2>1 DEF SelectValue
  <2> HIDE DEF a, c
  <2>6. TakesArm(s, c, r1, h1)
    BY <1>1, <2>3, TakesSame
  <2>7. a = c
    <3>1. a \in Nat /\ c \in Nat /\ 1 <= a /\ 1 <= c
      BY <1>1, <2>2, <2>3 DEF Statement
    <3>2. ~(a < c) /\ ~(c < a)
      BY <2>2, <2>6, <3>1 DEF TakesArm
    <3> QED
      BY <3>1, <3>2
  <2>8. ExprValue(s.arms[a].val, r1, h1) = ExprValue(s.arms[a].val, r2, h2)
    <3>1. s.arms[a].val \in Expr
      BY <1>1, <2>2, ArmType
    <3>2. \A ld \in Loads(s.arms[a].val) : ld \in LoadsOf(s)
      BY <2>2, LoadsParts
    <3>3. \A t \in Temps(s.arms[a].val) : t \in TempsRead(s)
      BY <2>2, TempsParts
    <3> QED
      BY <3>1, <3>2, <3>3, ExprValueSame
  <2> QED
    BY <2>4, <2>5, <2>7, <2>8
<1> QED
  BY <1>2, <1>3

-----------------------------------------------------------------------------
(***************************************************************************)
(* The states of the scalar loop.  After(j, x) is the one in which the     *)
(* source loop run forward reaches index x, During(j, x, q) the one after  *)
(* q statements of the iteration at x.                                     *)
(***************************************************************************)
After(j, x) == Run(j, 1)[x - j.start]
During(j, x, q) == BodyRun(j, x, After(j, x))[q]

(* The states of an iteration, statement by statement.                     *)
LEMMA BodyRunIs ==
  ASSUME JobOK(job), NEW x, NEW st \in State, RangeValue(job, x, st.mem) \in Value
  PROVE  LET run == BodyRun(job, x, st)
         IN  /\ run \in [0..Len(job.body) -> State]
             /\ run[0] = [st EXCEPT !.value = RangeValue(job, x, st.mem)]
             /\ \A q \in 1..Len(job.body) :
                  run[q] = IF run[q - 1].panicked THEN run[q - 1]
                           ELSE ExecStatement(job, job.body[q], x, run[q - 1])
<1> DEFINE len == Len(job.body)
           d == [st EXCEPT !.value = RangeValue(job, x, st.mem)]
           Advanced(before, q) == IF before.panicked THEN before
                              ELSE ExecStatement(job, job.body[q], x, before)
           F == [at \in State \X (1..len) |-> Advanced(at[1], at[2])]
           P(f) == f = [q \in 0..len |-> IF q = 0 THEN d ELSE Advanced(f[q - 1], q)]
<1>1. len \in Nat /\ DOMAIN job.body = 1..len
  BY BodyLength
<1>2. d \in State
  BY DEF State
<1>3. F \in [State \X (1..len) -> State]
  <2>1. ASSUME NEW before \in State, NEW q \in 1..len PROVE Advanced(before, q) \in State
    <3>1. ExecStatement(job, job.body[q], x, before) \in State
      BY <1>1, ExecState
    <3> QED
      BY <3>1
  <2> HIDE DEF Advanced
  <2> QED
    BY <2>1
<1>4. PICK f \in [0..len -> State] : Follows(f, len, d, F)
  <2>1. len \in Nat
    BY <1>1
  <2> HIDE DEF len, d, F
  <2> QED
    BY <1>2, <1>3, <2>1, SequenceExists
<1>5. P(f)
  <2>1. \A q \in 0..len : q # 0 => F[<<f[q - 1], q>>] = Advanced(f[q - 1], q)
    <3> TAKE q \in 0..len
    <3> HAVE q # 0
    <3>1. q \in 1..len /\ q - 1 \in 0..len
      BY <1>1
    <3>2. f[q - 1] \in State
      BY <3>1
    <3> HIDE DEF Advanced
    <3> QED
      BY <3>1, <3>2
  <2> HIDE DEF F, Advanced, d
  <2> QED
    BY <1>4, <2>1 DEF Follows
<1>6. BodyRun(job, x, st) = CHOOSE g : P(g)
  BY DEF BodyRun
<1> HIDE DEF P
<1>7. P(BodyRun(job, x, st))
  BY <1>5, <1>6
<1> DEFINE run == BodyRun(job, x, st)
<1> HIDE DEF run
<1>8. run = [q \in 0..len |-> IF q = 0 THEN d ELSE Advanced(run[q - 1], q)]
  BY <1>7 DEF run, P
<1> HIDE DEF Advanced, d, len
<1>9. run[0] = d /\ \A q \in 1..len : run[q] = Advanced(run[q - 1], q)
  BY <1>1, <1>8
<1>10. \A q \in 0..len : run[q] \in State
  <2> DEFINE G == {q \in 0..len : run[q] \in State}
  <2>1. 0 \in G
    BY <1>1, <1>2, <1>9
  <2>2. ASSUME NEW m \in 0..(len - 1), m \in G PROVE m + 1 \in G
    <3>1. m + 1 \in 1..len /\ m + 1 - 1 = m /\ m + 1 \in 0..len
      BY <1>1
    <3>2. run[m + 1] = Advanced(run[m], m + 1)
      BY <1>9, <3>1
    <3>3. Advanced(run[m], m + 1) \in State
      BY <1>1, <2>2, <3>1, ExecState DEF Advanced
    <3> QED
      BY <3>1, <3>2, <3>3
  <2> HIDE DEF G
  <2>3. \A m \in 0..len : m \in G
    BY <1>1, <2>1, <2>2, StepByStep
  <2> QED
    BY <2>3 DEF G
<1> QED
  BY <1>8, <1>9, <1>10 DEF run, Advanced, d, len

(* An iteration is at an index of the loop, whichever way it counts.       *)
LEMMA IndexAtType ==
  ASSUME JobOK(job), NEW step \in {-1, 1}, NEW m \in 1..Iterations(job)
  PROVE  IndexAt(job, step, m) \in job.start..(job.limit - 1)
<1>1. job.start \in Int /\ job.limit \in Int
  BY HeaderType
<1>2. m \in Int /\ 1 <= m /\ m <= job.limit - job.start
  BY <1>1 DEF Iterations
<1> QED
  BY <1>1, <1>2 DEF IndexAt

(* The states of the loop, which may count up or down, iteration by        *)
(* iteration.                                                              *)
LEMMA RunStates ==
  ASSUME JobOK(job), NEW step \in {-1, 1}
  PROVE  LET run == Run(job, step)
         IN  /\ Iterations(job) \in Nat
             /\ \A m \in 0..Iterations(job) : run[m] \in State
             /\ run[0] = InitialState
             /\ \A m \in 1..Iterations(job) :
                  /\ IndexAt(job, step, m) \in job.start..(job.limit - 1)
                  /\ run[m] = IF run[m - 1].panicked THEN run[m - 1]
                              ELSE ExecIteration(job, IndexAt(job, step, m), run[m - 1])
<1> DEFINE n0 == Iterations(job)
           Advanced(before, m) == IF before.panicked THEN before
                              ELSE ExecIteration(job, IndexAt(job, step, m), before)
           F == [at \in State \X (1..n0) |-> Advanced(at[1], at[2])]
           P(f) == f = [m \in 0..n0 |-> IF m = 0 THEN InitialState ELSE Advanced(f[m - 1], m)]
<1>1. /\ job.start \in Int /\ job.limit \in Int /\ Len(job.body) \in Nat
      /\ n0 = IF job.limit > job.start THEN job.limit - job.start ELSE 0
      /\ n0 \in Nat
  BY HeaderType, BodyLength DEF Iterations
<1>2. InitialState \in State
  BY ValueAssumption DEF InitialState, State
<1>3. F \in [State \X (1..n0) -> State]
  <2>1. ASSUME NEW before \in State, NEW m \in 1..n0 PROVE Advanced(before, m) \in State
    <3>1. IndexAt(job, step, m) \in job.start..(job.limit - 1)
      BY IndexAtType
    <3>2. RangeValue(job, IndexAt(job, step, m), before.mem) \in Value
      BY <3>1, RangeValueIn DEF State
    <3>3. BodyRun(job, IndexAt(job, step, m), before) \in [0..Len(job.body) -> State]
      BY <3>2, BodyRunIs
    <3>4. Len(job.body) \in 0..Len(job.body)
      BY <1>1
    <3>5. BodyRun(job, IndexAt(job, step, m), before)[Len(job.body)] \in State
      BY <3>3, <3>4
    <3> QED
      BY <3>5 DEF ExecIteration
  <2> HIDE DEF Advanced
  <2> QED
    BY <2>1
<1> HIDE DEF n0
<1>4. PICK f \in [0..n0 -> State] : Follows(f, n0, InitialState, F)
  <2>1. n0 \in Nat
    BY <1>1
  <2> HIDE DEF F
  <2> QED
    BY <1>2, <1>3, <2>1, SequenceExists
<1>5. P(f)
  <2>1. \A m \in 0..n0 : m # 0 => F[<<f[m - 1], m>>] = Advanced(f[m - 1], m)
    <3> TAKE m \in 0..n0
    <3> HAVE m # 0
    <3>1. m \in 1..n0 /\ m - 1 \in 0..n0
      BY <1>1
    <3>2. f[m - 1] \in State
      BY <3>1
    <3> HIDE DEF Advanced
    <3> QED
      BY <3>1, <3>2
  <2> HIDE DEF F, Advanced
  <2> QED
    BY <1>4, <2>1 DEF Follows
<1>6. Run(job, step) = CHOOSE g : P(g)
  BY DEF Run, n0
<1> HIDE DEF P
<1>7. P(Run(job, step))
  BY <1>5, <1>6
<1> DEFINE run == Run(job, step)
<1> HIDE DEF run
<1>8. run = [m \in 0..n0 |-> IF m = 0 THEN InitialState ELSE Advanced(run[m - 1], m)]
  BY <1>7 DEF run, P
<1>9. run[0] = InitialState /\ \A m \in 1..n0 : run[m] = Advanced(run[m - 1], m)
  <2> HIDE DEF Advanced
  <2> QED
    BY <1>1, <1>8
<1>10. \A m \in 0..n0 : run[m] \in State
  <2> DEFINE G == {m \in 0..n0 : run[m] \in State}
  <2>1. 0 \in G
    BY <1>1, <1>2, <1>9
  <2>2. ASSUME NEW m \in 0..(n0 - 1), m \in G PROVE m + 1 \in G
    <3>1. m + 1 \in 1..n0 /\ m + 1 - 1 = m /\ m + 1 \in 0..n0
      BY <1>1
    <3> HIDE DEF Advanced
    <3>2. run[m + 1] = Advanced(run[m], m + 1)
      BY <1>9, <3>1
    <3>3. Advanced(run[m], m + 1) = F[<<run[m], m + 1>>]
      BY <2>2, <3>1
    <3>4. F[<<run[m], m + 1>>] \in State
      <4> HIDE DEF F
      <4> QED
        BY <1>3, <2>2, <3>1
    <3> QED
      BY <3>1, <3>2, <3>3, <3>4
  <2> HIDE DEF G
  <2>3. \A m \in 0..n0 : m \in G
    BY <1>1, <2>1, <2>2, StepByStep
  <2> QED
    BY <2>3 DEF G
<1> HIDE DEF F
<1>11. \A m \in 1..n0 : IndexAt(job, step, m) \in job.start..(job.limit - 1)
  BY IndexAtType DEF n0
<1> QED
  BY <1>1, <1>9, <1>10, <1>11 DEF run, n0, Advanced

(* Counting up, they are those in which the loop reaches each index.       *)
LEMMA RunIs ==
  ASSUME JobOK(job)
  PROVE  /\ After(job, job.start) = InitialState
         /\ \A x \in job.start..(job.limit - 1) :
              After(job, x + 1) = IF After(job, x).panicked THEN After(job, x)
                                  ELSE During(job, x, Len(job.body))
         /\ \A x \in Int : job.start <= x /\ (x <= job.limit \/ x = job.start) => After(job, x) \in State
<1> DEFINE n0 == Iterations(job)
           run == Run(job, 1)
<1>1. /\ job.start \in Int /\ job.limit \in Int
      /\ n0 = IF job.limit > job.start THEN job.limit - job.start ELSE 0
  BY HeaderType DEF Iterations
<1>2. /\ \A m \in 0..n0 : run[m] \in State
      /\ run[0] = InitialState
      /\ \A m \in 1..n0 : run[m] = IF run[m - 1].panicked THEN run[m - 1]
                                  ELSE ExecIteration(job, IndexAt(job, 1, m), run[m - 1])
  BY RunStates
<1> HIDE DEF n0, run
<1>3. \A x \in Int : After(job, x) = run[x - job.start]
  BY DEF After, run
<1>4. ASSUME NEW x \in job.start..(job.limit - 1)
       PROVE  After(job, x + 1) = IF After(job, x).panicked THEN After(job, x)
                                  ELSE During(job, x, Len(job.body))
  <2>1. (x + 1) - job.start \in 1..n0 /\ ((x + 1) - job.start) - 1 = x - job.start
        /\ IndexAt(job, 1, (x + 1) - job.start) = x
    BY <1>1 DEF IndexAt
  <2>2. run[(x + 1) - job.start] =
          IF run[x - job.start].panicked THEN run[x - job.start]
          ELSE ExecIteration(job, x, run[x - job.start])
    <3> DEFINE m == (x + 1) - job.start
    <3>1. m \in 1..n0 /\ m - 1 = x - job.start /\ IndexAt(job, 1, m) = x
      BY <2>1
    <3> HIDE DEF m
    <3>2. run[m] = IF run[m - 1].panicked THEN run[m - 1]
                   ELSE ExecIteration(job, IndexAt(job, 1, m), run[m - 1])
      BY <1>2, <3>1
    <3>3. run[m] = IF run[x - job.start].panicked THEN run[x - job.start]
                   ELSE ExecIteration(job, x, run[x - job.start])
      BY <3>1, <3>2
    <3> QED
      BY <3>3 DEF m
  <2>3. After(job, x + 1) = run[(x + 1) - job.start] /\ After(job, x) = run[x - job.start]
    <3>1. x \in Int /\ x + 1 \in Int
      BY <1>1
    <3> QED
      BY <1>3, <3>1, Zenon
  <2>4. ExecIteration(job, x, After(job, x)) = During(job, x, Len(job.body))
    BY DEF During, ExecIteration
  <2> QED
    BY <2>2, <2>3, <2>4
<1>5. ASSUME NEW x \in Int, job.start <= x, x <= job.limit \/ x = job.start
       PROVE  After(job, x) \in State
  <2>1. x - job.start \in 0..n0
    BY <1>1, <1>5
  <2> QED
    BY <1>2, <1>3, <2>1
<1>6. After(job, job.start) = InitialState
  <2>1. job.start - job.start = 0
    BY <1>1
  <2>2. After(job, job.start) = run[job.start - job.start]
    BY <1>1, <1>3, Zenon
  <2> QED
    BY <1>2, <2>1, <2>2
<1> QED
  BY <1>4, <1>5, <1>6

-----------------------------------------------------------------------------
(***************************************************************************)
(* What the iterations from low on leave alone.  Inside(low): from low to  *)
(* the limit every access of the body is in its slice.                     *)
(***************************************************************************)
Inside(low) == InTrip /\ \A access \in Checked(job.body) : low + access[3] >= 0

(* Then every load and every store of an iteration is in its slice.        *)
LEMMA InsideBody ==
  ASSUME JobOK(job), NEW low \in Int, Inside(low), NEW x \in low..(job.limit - 1)
  PROVE  InBody(x)
<1> SUFFICES ASSUME NEW access \in Checked(job.body) PROVE InRange(job, access[1], x + access[3])
  BY DEF InBody
<1>1. /\ access[1] \in SliceNames /\ access[3] \in Int /\ job.limit \in Int
      /\ job.slices[access[1]].len \in Nat
  BY CheckedType, AccessType, SliceType, HeaderType
<1>2. InRange(job, access[1], job.limit - 1 + access[3]) /\ low + access[3] >= 0
  BY DEF Inside, InTrip
<1> QED
  BY <1>1, <1>2 DEF InRange

(* An element an iteration stores to is not one another access of the loop *)
(* names, unless it is the same element of the same slice.                 *)
LEMMA SameElement ==
  ASSUME JobOK(job), ~SomeOverlap, NEW low \in Int, low >= job.start, Inside(low),
         NEW ref \in Stored(job.body), NEW y \in low..(job.limit - 1),
         NEW access \in Checked(job.body), NEW x \in low..(job.limit - 1),
         ElementAddr(job, ref, y) = ElementAddr(job, access[1], x + access[3])
  PROVE  ref = access[1] /\ y = x + access[3]
<1>1. /\ ref \in SliceNames /\ access[1] \in SliceNames /\ access[3] \in Int
      /\ job.start \in Int /\ job.limit \in Int
      /\ job.slices[ref].base \in Nat /\ job.slices[access[1]].base \in Nat
  BY CheckedType, AccessType, HeaderType, BodyType, SliceType DEF Stored, Stores, StatementOK
<1>2. AtIndex(ref) \in Checked(job.body) /\ AtIndex(ref)[1] = ref /\ y + AtIndex(ref)[3] = y
  BY DEF Checked, AtIndex
<1>3. InRange(job, ref, y) /\ InRange(job, access[1], x + access[3])
  BY <1>2, InsideBody DEF InBody
<1>4. ElementAddr(job, ref, y) \in Touched(ref)
  <2>1. 0 \in Offsets(job.body, ref) /\ y - 0 \in job.start..(job.limit - 1)
    BY <1>1 DEF Offsets
  <2> QED
    BY <1>3, <2>1 DEF Touched, InRange
<1>5. ElementAddr(job, access[1], x + access[3]) \in Touched(access[1])
  <2>1. access[3] \in Offsets(job.body, access[1])
    BY DEF Offsets
  <2>2. (x + access[3]) - access[3] \in job.start..(job.limit - 1)
    BY <1>1
  <2> QED
    BY <1>3, <2>1, <2>2 DEF Touched, InRange
<1>6. ref = access[1]
  <2> SUFFICES ASSUME ref # access[1] PROVE FALSE
    OBVIOUS
  <2>1. <<ref, access[1]>> \in Overlaps(job.body)
    BY DEF Overlaps, Refs
  <2>2. Touched(ref) \cap Touched(access[1]) = {}
    <3>1. \A pair \in Overlaps(job.body) : Touched(pair[1]) \cap Touched(pair[2]) = {}
      BY ApartSound
    <3> QED
      BY <2>1, <3>1
  <2> QED
    BY <1>4, <1>5, <2>2
<1> QED
  BY <1>1, <1>6 DEF ElementAddr

(* The states within the iteration at x.                                   *)
LEMMA DuringIs ==
  ASSUME JobOK(job), NEW x \in job.start..(job.limit - 1)
  PROVE  /\ After(job, x) \in State
         /\ \A q \in 0..Len(job.body) : During(job, x, q) \in State
         /\ During(job, x, 0) = [After(job, x) EXCEPT !.value = RangeValue(job, x, After(job, x).mem)]
         /\ \A q \in 1..Len(job.body) :
              During(job, x, q) = IF During(job, x, q - 1).panicked THEN During(job, x, q - 1)
                                  ELSE ExecStatement(job, job.body[q], x, During(job, x, q - 1))
<1>1. job.start \in Int /\ job.limit \in Int /\ Len(job.body) \in Nat
  BY HeaderType, BodyLength
<1>2. After(job, x) \in State
  BY <1>1, RunIs
<1>3. RangeValue(job, x, After(job, x).mem) \in Value
  BY <1>2, RangeValueIn DEF State
<1> DEFINE run == BodyRun(job, x, After(job, x))
<1>4. /\ run \in [0..Len(job.body) -> State]
      /\ run[0] = [After(job, x) EXCEPT !.value = RangeValue(job, x, After(job, x).mem)]
      /\ \A q \in 1..Len(job.body) :
           run[q] = IF run[q - 1].panicked THEN run[q - 1]
                    ELSE ExecStatement(job, job.body[q], x, run[q - 1])
  BY <1>2, <1>3, BodyRunIs
<1> HIDE DEF run
<1>5. \A q : During(job, x, q) = run[q]
  BY DEF During, run
<1> QED
  BY <1>2, <1>4, <1>5

(* No statement of it panics or changes the range value variable, and what *)
(* is not stored to stays.                                                 *)
LEMMA DuringKeeps ==
  ASSUME JobOK(job), NEW low \in Int, low >= job.start, Inside(low),
         NEW x \in low..(job.limit - 1), ~After(job, x).panicked
  PROVE  \A q \in 0..Len(job.body) :
           /\ ~During(job, x, q).panicked
           /\ During(job, x, q).value = RangeValue(job, x, After(job, x).mem)
           /\ \A a \in Addr :
                (\A p \in Stores(job.body) : p <= q => a # ElementAddr(job, job.body[p].target, x))
                  => During(job, x, q).mem[a] = After(job, x).mem[a]
<1> DEFINE Kept(q) ==
             /\ ~During(job, x, q).panicked
             /\ During(job, x, q).value = RangeValue(job, x, After(job, x).mem)
             /\ \A a \in Addr :
                  (\A p \in Stores(job.body) : p <= q => a # ElementAddr(job, job.body[p].target, x))
                    => During(job, x, q).mem[a] = After(job, x).mem[a]
           G == {q \in 0..Len(job.body) : Kept(q)}
<1>1. /\ job.start \in Int /\ job.limit \in Int
      /\ Len(job.body) \in Nat /\ DOMAIN job.body = 1..Len(job.body)
      /\ x \in job.start..(job.limit - 1)
  BY HeaderType, BodyLength
<1>2. InBody(x)
  BY InsideBody
<1>3. 0 \in G
  <2>1. /\ During(job, x, 0) = [After(job, x) EXCEPT !.value = RangeValue(job, x, After(job, x).mem)]
        /\ After(job, x) \in State
    BY <1>1, DuringIs
  <2>2. During(job, x, 0).value = RangeValue(job, x, After(job, x).mem)
        /\ During(job, x, 0).panicked = After(job, x).panicked
        /\ During(job, x, 0).mem = After(job, x).mem
    BY <2>1 DEF State
  <2> QED
    BY <1>1, <2>2
<1>4. ASSUME NEW q \in 0..(Len(job.body) - 1), q \in G PROVE q + 1 \in G
  <2> DEFINE before == During(job, x, q)
             after == During(job, x, q + 1)
             stmt == job.body[q + 1]
  <2>1. q + 1 \in 1..Len(job.body) /\ (q + 1) - 1 = q /\ q + 1 \in 0..Len(job.body) /\ q \in 0..Len(job.body)
    BY <1>1
  <2>2. before \in State
    BY <1>1, <2>1, DuringIs
  <2>3. after = ExecStatement(job, stmt, x, before)
    <3>1. after = IF During(job, x, (q + 1) - 1).panicked THEN During(job, x, (q + 1) - 1)
                  ELSE ExecStatement(job, stmt, x, During(job, x, (q + 1) - 1))
      BY <1>1, <2>1, DuringIs
    <3> QED
      BY <1>4, <2>1, <3>1
  <2>4. after.panicked = before.panicked
    BY <1>1, <1>2, <2>1, <2>2, <2>3, ExecAssigns
  <2>5. /\ after.value = before.value
        /\ \A a \in Addr : (stmt.kind = "store" => a # ElementAddr(job, stmt.target, x))
                             => after.mem[a] = before.mem[a]
    <3>1. q + 1 \in DOMAIN job.body
      BY <1>1, <2>1
    <3> HIDE DEF before, after
    <3>2. LET next == ExecStatement(job, job.body[q + 1], x, before)
          IN  /\ next.value = before.value
              /\ \A a \in Addr : (stmt.kind = "store" => a # ElementAddr(job, stmt.target, x))
                                   => next.mem[a] = before.mem[a]
      BY <2>2, <3>1, ExecKeeps
    <3> QED
      BY <2>3, <3>2
  <2>6. ASSUME NEW a \in Addr,
               \A p \in Stores(job.body) : p <= q + 1 => a # ElementAddr(job, job.body[p].target, x)
        PROVE  after.mem[a] = After(job, x).mem[a]
    <3>1. \A p \in Stores(job.body) : p <= q => a # ElementAddr(job, job.body[p].target, x)
      BY <1>1, <2>6 DEF Stores
    <3>2. before.mem[a] = After(job, x).mem[a]
      BY <1>4, <3>1
    <3>3. stmt.kind = "store" => q + 1 \in Stores(job.body)
      BY <1>1, <2>1 DEF Stores
    <3> QED
      BY <2>1, <2>5, <2>6, <3>2, <3>3
  <2> QED
    BY <1>4, <2>1, <2>4, <2>5, <2>6
<1> HIDE DEF G
<1>5. \A q \in 0..Len(job.body) : q \in G
  BY <1>1, <1>3, <1>4, StepByStep
<1> QED
  BY <1>5 DEF G

(* Neither do the iterations from low on panic, and what none of them      *)
(* stores to stays.                                                        *)
LEMMA AfterKeeps ==
  ASSUME JobOK(job), NEW low \in Int, low >= job.start, low <= job.limit, Inside(low),
         ~After(job, low).panicked
  PROVE  \A x \in low..job.limit :
           /\ ~After(job, x).panicked
           /\ \A a \in Addr :
                (\A ref \in Stored(job.body), y \in low..(x - 1) : a # ElementAddr(job, ref, y))
                  => After(job, x).mem[a] = After(job, low).mem[a]
<1> DEFINE Kept(x) ==
             /\ ~After(job, x).panicked
             /\ \A a \in Addr :
                  (\A ref \in Stored(job.body), y \in low..(x - 1) : a # ElementAddr(job, ref, y))
                    => After(job, x).mem[a] = After(job, low).mem[a]
           G == {m \in 0..(job.limit - low) : Kept(low + m)}
<1>1. /\ job.start \in Int /\ job.limit \in Int
      /\ Len(job.body) \in Nat /\ DOMAIN job.body = 1..Len(job.body)
  BY HeaderType, BodyLength
<1>2. 0 \in G
  <2>1. low + 0 = low
    OBVIOUS
  <2>2. Kept(low)
    OBVIOUS
  <2> HIDE DEF Kept
  <2> QED
    BY <1>1, <2>1, <2>2
<1>3. ASSUME NEW m \in 0..(job.limit - low - 1), m \in G PROVE m + 1 \in G
  <2> DEFINE x == low + m
  <2>1. x \in low..(job.limit - 1) /\ x \in job.start..(job.limit - 1) /\ low + (m + 1) = x + 1
        /\ m + 1 \in 0..(job.limit - low)
    BY <1>1
  <2>2. Kept(x)
    BY <1>3
  <2> HIDE DEF x
  <2>3. After(job, x + 1) = During(job, x, Len(job.body))
    BY <2>1, <2>2, RunIs
  <2>4. /\ ~During(job, x, Len(job.body)).panicked
        /\ \A a \in Addr :
             (\A p \in Stores(job.body) : p <= Len(job.body) => a # ElementAddr(job, job.body[p].target, x))
               => During(job, x, Len(job.body)).mem[a] = After(job, x).mem[a]
    <3>1. Len(job.body) \in 0..Len(job.body)
      BY <1>1
    <3>2. ~After(job, x).panicked
      BY <2>2
    <3> HIDE DEF Kept
    <3> QED
      BY <2>1, <3>1, <3>2, DuringKeeps
  <2>5. ASSUME NEW a \in Addr,
               \A ref \in Stored(job.body), y \in low..x : a # ElementAddr(job, ref, y)
        PROVE  After(job, x + 1).mem[a] = After(job, low).mem[a]
    <3>1. \A p \in Stores(job.body) : a # ElementAddr(job, job.body[p].target, x)
      BY <2>1, <2>5 DEF Stored
    <3>2. \A ref \in Stored(job.body), y \in low..(x - 1) : a # ElementAddr(job, ref, y)
      BY <2>1, <2>5
    <3> QED
      BY <2>2, <2>3, <2>4, <3>1, <3>2
  <2>6. Kept(x + 1)
    <3>1. (x + 1) - 1 = x
      BY <2>1
    <3> QED
      BY <2>3, <2>4, <2>5, <3>1
  <2> HIDE DEF Kept
  <2> QED
    BY <2>1, <2>6
<1> HIDE DEF G
<1>4. \A m \in 0..(job.limit - low) : m \in G
  <2>1. job.limit - low \in Nat
    BY <1>1
  <2> QED
    BY <1>2, <1>3, <2>1, StepByStep
<1>5. ASSUME NEW x \in low..job.limit PROVE Kept(x)
  <2>1. x - low \in 0..(job.limit - low) /\ low + (x - low) = x
    BY <1>1
  <2>2. x - low \in G
    BY <1>4, <2>1
  <2>3. Kept(low + (x - low))
    BY <2>2 DEF G
  <2> HIDE DEF Kept
  <2> QED
    BY <2>1, <2>3
<1> QED
  BY <1>5

-----------------------------------------------------------------------------
(***************************************************************************)
(* A chunk at pos, after q statements: each lane is where the iteration at *)
(* its index is, in memory, in the temporaries, and in what was read ahead *)
(* of the stores.                                                          *)
(***************************************************************************)
Live(j, pos, l) == pos + l < j.limit

(* An element some live lane may store holds what that lane's              *)
(* iteration left there after q statements, any other what it held.        *)
MemoryAt(j, pos, q, m) ==
  \A a \in Addr :
    /\ \A ref \in Stored(j.body), l \in Lane :
         Live(j, pos, l) /\ a = ElementAddr(j, ref, pos + l) => m[a] = During(j, pos + l, q).mem[a]
    /\ (\A ref \in Stored(j.body), l \in Lane : Live(j, pos, l) => a # ElementAddr(j, ref, pos + l))
         => m[a] = After(j, pos).mem[a]

(* The temporaries defined by the first q statements.                      *)
TempsAt(j, pos, q, held) ==
  \A t \in TempNames, l \in Lane :
    DefinedBefore(j.body, q + 1, t) /\ Live(j, pos, l) => held[t][l] = During(j, pos + l, q).locals[t]

(* The vectors read ahead of the stores: memory before the chunk.          *)
AheadAt(j, pos, held) ==
  \A ld \in LoadsAhead(j.body) :
    /\ Key(ld) \in DOMAIN held
    /\ \A l \in Lane : Live(j, pos, l) =>
         held[Key(ld)][l] = After(j, pos).mem[ElementAddr(j, ld.ref, pos + l + ld.off)]

(* A partial chunk covers all its lanes or reaches the limit.              *)
LengthAt(j, pos, len) == len # NoLanes /\ ~Full(j.body) => len \in 0..Lanes /\ (len = Lanes \/ pos + len >= j.limit)

(* The first q statements reach no element below their slice.              *)
NotBelow(j, pos, q) ==
  \A p \in 1..q : /\ \A ld \in LoadsOf(j.body[p]) : pos + ld.off >= 0
                  /\ j.body[p].kind = "store" => pos >= 0

(* Before the first chunk nothing is written and _i is the start.          *)
StartInv ==
  mode = "vector" /\ pc \in {"hoist", "overlap", "check", "copy", "count"} => mem = Mem0 /\ i = job.start

(* The invariant of a chunk.  If the rest of the loop is not inside its    *)
(* slices, it says only that no statement so far reached below one: the    *)
(* chunk will stop at the one that does.                                   *)
LaneInv ==
  pc \in {"load", "statement"} =>
    /\ Pos < job.limit
    /\ Full(job.body) => (n = Copies * Lanes \/ (n = Lanes /\ copy = 0)) /\ i + n <= job.limit
    /\ ~After(job, Pos).panicked
    /\ pc = "load" => mem = After(job, Pos).mem /\ LengthAt(job, Pos, n)
    /\ pc = "statement" =>
         /\ NotBelow(job, Pos, k - 1)
         /\ Inside(Pos) => /\ MemoryAt(job, Pos, k - 1, mem)
                           /\ TempsAt(job, Pos, k - 1, temps)
                           /\ AheadAt(job, Pos, loaded)
                           /\ LengthAt(job, Pos, n)

(* The assumptions the lemmas about one chunk share.                       *)
ChunkOK ==
  /\ JobOK(job) /\ TypeOK /\ ~SomeOverlap
  /\ Pos >= job.start /\ Pos < job.limit
  /\ Inside(Pos)
  /\ ~After(job, Pos).panicked

(* A lane of the loop is an index of it.                                   *)
LEMMA LiveIndex ==
  ASSUME ChunkOK, NEW l \in Lane, Live(job, Pos, l)
  PROVE  /\ Pos \in Int /\ l \in Nat
         /\ Pos + l \in Pos..(job.limit - 1)
         /\ Pos + l \in job.start..(job.limit - 1)
<1>1. Pos \in Int /\ job.start \in Int /\ job.limit \in Int /\ Lanes \in Nat
  BY PosType, HeaderType, LanesType DEF ChunkOK
<1> QED
  BY <1>1 DEF Lane, Live, ChunkOK

(* The iterations of the chunk do not panic, and an element none of those  *)
(* before x stores to is as it was.                                        *)
LEMMA ChunkKeeps ==
  ASSUME ChunkOK, NEW x \in Pos..job.limit
  PROVE  /\ ~After(job, x).panicked
         /\ \A a \in Addr :
              (\A ref \in Stored(job.body), y \in Pos..(x - 1) : a # ElementAddr(job, ref, y))
                => After(job, x).mem[a] = After(job, Pos).mem[a]
<1>1. Pos \in Int /\ job.start \in Int /\ job.limit \in Int
  BY PosType, HeaderType DEF ChunkOK
<1> QED
  BY <1>1, AfterKeeps DEF ChunkOK

(* A chunk begins with every lane at the beginning of its iteration.       *)
LEMMA ChunkStarts ==
  ASSUME ChunkOK, NEW m, m = After(job, Pos).mem
  PROVE  MemoryAt(job, Pos, 0, m)
<1> SUFFICES ASSUME NEW a \in Addr, NEW ref \in Stored(job.body), NEW l \in Lane,
                    Live(job, Pos, l), a = ElementAddr(job, ref, Pos + l)
             PROVE  During(job, Pos + l, 0).mem[a] = After(job, Pos).mem[a]
  BY DEF MemoryAt
<1>1. /\ Pos \in Int /\ l \in Nat /\ JobOK(job) /\ ~SomeOverlap /\ Inside(Pos) /\ Pos >= job.start
      /\ Pos + l \in Pos..(job.limit - 1) /\ Pos + l \in job.start..(job.limit - 1)
  BY LiveIndex DEF ChunkOK
<1>2. During(job, Pos + l, 0).mem = After(job, Pos + l).mem
  BY <1>1, DuringIs DEF State
<1>3. ASSUME NEW other \in Stored(job.body), NEW y \in Pos..((Pos + l) - 1), a = ElementAddr(job, other, y)
      PROVE  FALSE
  <2>1. AtIndex(ref) \in Checked(job.body) /\ AtIndex(ref)[1] = ref /\ AtIndex(ref)[3] = 0
    BY DEF Checked, AtIndex
  <2>2. y \in Pos..(job.limit - 1) /\ Pos + l + 0 = Pos + l
    BY <1>1, HeaderType
  <2>3. y = Pos + l
    BY <1>1, <1>3, <2>1, <2>2, SameElement
  <2> QED
    BY <1>1, <2>3
<1>4. After(job, Pos + l).mem[a] = After(job, Pos).mem[a]
  <2>1. Pos + l \in Pos..job.limit
    BY <1>1, HeaderType
  <2> QED
    BY <1>3, <2>1, ChunkKeeps
<1> QED
  BY <1>2, <1>4

(* An operand of the body covers what is left of the loop, or a vector.    *)
LEMMA CoveredRest ==
  ASSUME ChunkOK, NEW key \in Checked(job.body), OperandOK(key, Pos)
  PROVE  /\ Covered(key, Pos) \in 0..Lanes
         /\ Covered(key, Pos) = Lanes \/ Pos + Covered(key, Pos) >= job.limit
<1>1. /\ JobOK(job) /\ Pos \in Int /\ job.limit \in Int /\ Lanes \in Nat
      /\ key \in Access /\ key[1] \in SliceNames /\ key[3] \in Int /\ job.slices[key[1]].len \in Nat
  BY PosType, HeaderType, LanesType, CheckedType, AccessType, SliceType DEF ChunkOK
<1>2. Covered(key, Pos) \in 0..Lanes
  BY <1>1, CoveredType
<1>3. Pos + OperandLen(key, Pos) >= job.limit /\ OperandLen(key, Pos) \in Int
  <2>1. CASE Capped(job) /\ key[2] = "none"
    <3>1. key[3] = 0
      BY <1>1, <2>1, NoOffset
    <3> QED
      BY <1>1, <2>1, <3>1 DEF OperandLen, OperandHigh, OperandLow
  <2>2. CASE ~(Capped(job) /\ key[2] = "none")
    <3>1. job.limit - 1 + key[3] < job.slices[key[1]].len
      BY <1>1 DEF ChunkOK, Inside, InTrip, InRange
    <3> QED
      BY <1>1, <2>2, <3>1 DEF OperandLen, OperandHigh, OperandLow
  <2> QED
    BY <2>1, <2>2
<1> QED
  BY <1>1, <1>2, <1>3 DEF Covered

(* So a lane of the loop is loaded from memory, not filled up.             *)
LEMMA LoadedLane ==
  ASSUME ChunkOK, NEW key \in Checked(job.body), OperandOK(key, Pos), NEW l \in Lane, Live(job, Pos, l)
  PROVE  /\ l < Covered(key, Pos)
         /\ LoadVector(key, Pos)[l] = mem[ElementAddr(job, key[1], Pos + l + key[3])]
<1>1. /\ Pos \in Int /\ l \in Nat /\ Pos + l < job.limit /\ job.limit \in Int /\ Lanes \in Nat /\ l < Lanes
      /\ key[1] \in SliceNames /\ key[3] \in Int /\ job.slices[key[1]].base \in Nat
  BY LiveIndex, HeaderType, LanesType, CheckedType, AccessType, SliceType DEF ChunkOK, Lane, Live
<1>2. l < Covered(key, Pos)
  BY <1>1, CoveredRest
<1>3. ElementAddr(job, key[1], OperandLow(key, Pos)) + l = ElementAddr(job, key[1], Pos + l + key[3])
  BY <1>1 DEF ElementAddr, OperandLow
<1> QED
  BY <1>2, <1>3 DEF LoadVector

(* An element the iterations up to x do not store to is as the chunk found *)
(* it.                                                                     *)
LEMMA NotStoredYet ==
  ASSUME ChunkOK, NEW x \in Pos..(job.limit - 1), NEW q \in 0..Len(job.body), NEW a \in Addr,
         \A ref \in Stored(job.body), y \in Pos..x : a # ElementAddr(job, ref, y)
  PROVE  During(job, x, q).mem[a] = After(job, Pos).mem[a]
<1>1. /\ JobOK(job) /\ Pos \in Int /\ Pos >= job.start /\ Inside(Pos) /\ x \in Int
      /\ job.limit \in Int /\ x \in Pos..job.limit
  BY PosType, HeaderType DEF ChunkOK
<1>2. \A p \in Stores(job.body) : a # ElementAddr(job, job.body[p].target, x)
  BY <1>1 DEF Stored
<1>3. \A ref \in Stored(job.body), y \in Pos..(x - 1) : a # ElementAddr(job, ref, y)
  BY <1>1
<1>4. ~After(job, x).panicked /\ After(job, x).mem[a] = After(job, Pos).mem[a]
  BY <1>1, <1>3, ChunkKeeps
<1>5. During(job, x, q).mem[a] = After(job, x).mem[a]
  BY <1>1, <1>2, <1>4, DuringKeeps
<1> QED
  BY <1>4, <1>5

(* What the iteration at x reads for a load, the range value variable      *)
(* included, is what memory holds there before the statement.              *)
LEMMA ReadsMemory ==
  ASSUME ChunkOK, RangeValueFresh(job.body), NEW x \in Pos..(job.limit - 1),
         NEW s \in DOMAIN job.body, NEW ld \in LoadsOf(job.body[s])
  PROVE  LET before == During(job, x, s - 1)
             a == ElementAddr(job, ld.ref, x + ld.off)
         IN  /\ a \in Addr
             /\ ScalarReads(job, job.body[s], x, before.mem, before.value)[ld] = before.mem[a]
<1> DEFINE before == During(job, x, s - 1)
           a == ElementAddr(job, ld.ref, x + ld.off)
<1>1. /\ JobOK(job) /\ ~SomeOverlap /\ Pos \in Int /\ Pos >= job.start /\ Inside(Pos) /\ x \in Int
      /\ job.limit \in Int /\ x \in Pos..job.limit
      /\ Len(job.body) \in Nat /\ s \in 1..Len(job.body) /\ s - 1 \in 0..Len(job.body)
  BY PosType, HeaderType, BodyLength DEF ChunkOK
<1>2. /\ Key(ld) \in Checked(job.body) /\ Key(ld)[1] = ld.ref /\ Key(ld)[3] = ld.off
      /\ ld \in AllLoads(job.body) /\ ld \in Load
  BY BodyType, LoadsOfType, <1>1 DEF Checked, Keys, AllLoads, Key
<1>3. InRange(job, ld.ref, x + ld.off) /\ a \in Addr
  <2>1. InRange(job, ld.ref, x + ld.off)
    BY <1>1, <1>2, InsideBody DEF InBody
  <2>2. ld.ref \in SliceNames
    BY <1>2 DEF Load
  <2> QED
    BY <1>1, <2>1, <2>2, ElementAddrType
<1>4. ScalarReads(job, job.body[s], x, before.mem, before.value)[ld] =
        IF ld.fromRange THEN before.value ELSE before.mem[a]
  BY <1>3 DEF ScalarReads
<1>5. ASSUME ld.fromRange PROVE before.value = before.mem[a]
  <2>1. ld.ref = job.trip /\ ld.off = 0 /\ HasRangeValue(job)
    BY <1>1, <1>2, <1>5 DEF JobOK, RangeValueOK, HasRangeValue, Load
  <2>2. RangeValue(job, x, After(job, x).mem) = After(job, x).mem[a]
    BY <1>1, <2>1 DEF RangeValue
  <2>3. ASSUME NEW p \in Stores(job.body), p <= s - 1, a = ElementAddr(job, job.body[p].target, x) PROVE FALSE
    <3>1. p < s /\ job.body[p].target # ld.ref
      <4>1. p \in Int
        BY <1>1, BodyLength DEF Stores
      <4>2. p < s
        BY <1>1, <2>3, <4>1
      <4> QED
        BY <1>5, <4>2 DEF RangeValueFresh
    <3>2. job.body[p].target \in Stored(job.body) /\ x \in Pos..(job.limit - 1)
      BY DEF Stored
    <3>3. job.body[p].target = Key(ld)[1]
      BY <1>1, <1>2, <2>3, <3>2, SameElement
    <3> QED
      BY <1>2, <3>1, <3>3
  <2>4. ~After(job, x).panicked
    BY <1>1, ChunkKeeps
  <2>5. /\ before.value = RangeValue(job, x, After(job, x).mem)
        /\ before.mem[a] = After(job, x).mem[a]
    BY <1>1, <1>3, <2>3, <2>4, DuringKeeps
  <2> QED
    BY <2>2, <2>5
<1> QED
  BY <1>3, <1>4, <1>5

(* A lane of a vector the statement works with is what its iteration reads.*)
LEMMA LaneReads ==
  ASSUME ChunkOK, RangeValueFresh(job.body), DependencesForward(job),
         NEW s \in DOMAIN job.body, MemoryAt(job, Pos, s - 1, mem),
         NEW held, HeldIn(held), AheadAt(job, Pos, held),
         NEW ld \in LoadsOf(job.body[s]), Key(ld) \in DOMAIN held, NEW l \in Lane, Live(job, Pos, l)
  PROVE  LET before == During(job, Pos + l, s - 1)
         IN  held[Key(ld)][l] = ScalarReads(job, job.body[s], Pos + l, before.mem, before.value)[ld]
<1> DEFINE x == Pos + l
           before == During(job, x, s - 1)
           a == ElementAddr(job, ld.ref, x + ld.off)
           key == Key(ld)
<1>1. /\ JobOK(job) /\ ~SomeOverlap /\ Inside(Pos) /\ Pos >= job.start /\ Pos \in Int /\ l \in Nat
      /\ x \in Pos..(job.limit - 1) /\ x \in Int /\ job.limit \in Int
      /\ Len(job.body) \in Nat /\ s - 1 \in 0..Len(job.body)
  BY LiveIndex, BodyLength, HeaderType DEF ChunkOK
<1>2. /\ key \in Checked(job.body) /\ key[1] = ld.ref /\ key[2] = ld.kind /\ key[3] = ld.off
      /\ ld \in AllLoads(job.body) /\ ld \in Load /\ ld.off \in Int
  <2>1. ld \in AllLoads(job.body) /\ ld \in Load
    BY <1>1, BodyType, LoadsOfType DEF AllLoads
  <2>2. ld.off \in Int
    BY <2>1, NamesAssumption DEF Load
  <2> QED
    BY <2>1, <2>2 DEF Checked, Keys, Key
<1>3. /\ a \in Addr
      /\ ScalarReads(job, job.body[s], x, before.mem, before.value)[ld] = before.mem[a]
  BY <1>1, ReadsMemory
<1> HIDE DEF x
<1>4. ASSUME NEW ref \in Stored(job.body), NEW y \in Pos..(job.limit - 1), a = ElementAddr(job, ref, y)
      PROVE  ref = ld.ref /\ y = x + ld.off
  <2> HIDE DEF key
  <2> QED
    BY <1>1, <1>2, <1>4, SameElement
<1>5. CASE Ahead(job.body, ld)
  <2>1. ld \in LoadsAhead(job.body) /\ ld.off > 0
    BY <1>2, <1>5 DEF LoadsAhead, Ahead, DependencesForward
  <2>2. held[key][l] = After(job, Pos).mem[a]
    BY <2>1 DEF AheadAt, x
  <2>3. \A ref \in Stored(job.body), y \in Pos..x : a # ElementAddr(job, ref, y)
    BY <1>1, <1>2, <1>4, <2>1
  <2>4. before.mem[a] = After(job, Pos).mem[a]
    BY <1>1, <1>3, <2>3, NotStoredYet
  <2> QED
    BY <1>3, <2>2, <2>4 DEF x
<1>6. CASE ~Ahead(job.body, ld)
  <2>1. OperandOK(key, Pos) /\ held[key][l] = LoadVector(key, Pos)[l]
    BY <1>2, <1>6 DEF Ahead, HeldIn, Live
  <2>2. LoadVector(key, Pos)[l] = mem[a]
    BY <1>2, <2>1, LoadedLane DEF x
  <2>3. mem[a] = before.mem[a]
    <3>1. CASE ld.ref \in Stored(job.body)
      <4>1. ld.off = 0
        BY <1>2, <1>6, <3>1 DEF Ahead, Load
      <4>2. a = ElementAddr(job, ld.ref, x)
        BY <1>1, <4>1
      <4> HIDE DEF a, before
      <4> QED
        BY <1>3, <3>1, <4>2 DEF MemoryAt, x, before
    <3>2. CASE ld.ref \notin Stored(job.body)
      <4>1. \A ref \in Stored(job.body), y \in Pos..(job.limit - 1) : a # ElementAddr(job, ref, y)
        BY <1>4, <3>2
      <4>2. \A ref \in Stored(job.body), y \in Pos..x : a # ElementAddr(job, ref, y)
        BY <1>1, <4>1
      <4>3. before.mem[a] = After(job, Pos).mem[a]
        BY <1>1, <1>3, <4>2, NotStoredYet
      <4>4. \A ref \in Stored(job.body), m \in Lane : Live(job, Pos, m) => a # ElementAddr(job, ref, Pos + m)
        BY <4>1, LiveIndex
      <4>5. mem[a] = After(job, Pos).mem[a]
        <5> HIDE DEF a
        <5> QED
          BY <1>3, <4>4 DEF MemoryAt
      <4> QED
        BY <4>3, <4>5
    <3> QED
      BY <3>1, <3>2
  <2> QED
    BY <1>3, <2>1, <2>2, <2>3 DEF x
<1> QED
  BY <1>5, <1>6

(* So the statement gives a lane the value its iteration assigns.          *)
LEMMA LaneAssigns ==
  ASSUME ChunkOK, Planned(job), NEW s \in DOMAIN job.body,
         MemoryAt(job, Pos, s - 1, mem), TempsAt(job, Pos, s - 1, temps),
         NEW held, HeldIn(held), AheadAt(job, Pos, held),
         \A ld \in LoadsOf(job.body[s]) : Key(ld) \in DOMAIN held,
         NEW l \in Lane, Live(job, Pos, l)
  PROVE  LaneValue(job.body[s], held, l) = Assigned(job, job.body[s], Pos + l, During(job, Pos + l, s - 1))
<1> DEFINE stmt == job.body[s]
           before == During(job, Pos + l, s - 1)
           r1 == [ld \in LoadsOf(stmt) |-> held[Key(ld)][l]]
           r2 == ScalarReads(job, stmt, Pos + l, before.mem, before.value)
           h1 == [t \in TempNames |-> temps[t][l]]
<1>1. JobOK(job) /\ RangeValueFresh(job.body) /\ DependencesForward(job) /\ LocalsOK(job.body)
  BY DEF ChunkOK, Planned, Lowers
<1>2. StatementOK(stmt)
  BY <1>1, BodyType
<1>3. \A ld \in LoadsOf(stmt) : r1[ld] = r2[ld]
  BY <1>1, LaneReads
<1>4. ASSUME NEW t \in TempsRead(stmt) PROVE h1[t] = before.locals[t]
  <2>1. DefinedBefore(job.body, s, t)
    BY <1>1 DEF LocalsOK
  <2>2. t \in TempNames
    <3>1. PICK p \in 1..(s - 1) : job.body[p].kind = "let" /\ job.body[p].target = t
      BY <2>1 DEF DefinedBefore
    <3>2. p \in DOMAIN job.body
      BY <1>1, BodyLength
    <3> QED
      BY <1>1, <3>1, <3>2, BodyType DEF StatementOK
  <2>3. (s - 1) + 1 = s
    BY <1>1, BodyLength
  <2> QED
    BY <2>1, <2>2, <2>3 DEF TempsAt
<1> HIDE DEF stmt, before, r1, r2, h1
<1>5. SelectValue(stmt, r1, h1) = SelectValue(stmt, r2, before.locals)
  BY <1>2, <1>3, <1>4, SelectValueSame
<1> QED
  BY <1>5 DEF LaneValue, Assigned, stmt, before, r1, r2, h1

(* The iteration goes on with the statement.                               *)
LEMMA DuringNext ==
  ASSUME ChunkOK, NEW x \in Pos..(job.limit - 1), NEW s \in DOMAIN job.body
  PROVE  /\ InBody(x)
         /\ During(job, x, s - 1) \in State
         /\ During(job, x, s) = ExecStatement(job, job.body[s], x, During(job, x, s - 1))
<1>1. /\ JobOK(job) /\ Inside(Pos) /\ Pos >= job.start /\ Pos \in Int /\ job.start \in Int /\ x \in Int
      /\ job.limit \in Int /\ Len(job.body) \in Nat
      /\ s \in 1..Len(job.body) /\ s - 1 \in 0..Len(job.body)
      /\ x \in job.start..(job.limit - 1) /\ x \in Pos..job.limit
  BY PosType, BodyLength, HeaderType DEF ChunkOK
<1>2. ~During(job, x, s - 1).panicked
  BY <1>1, ChunkKeeps, DuringKeeps
<1>3. During(job, x, s - 1) \in State
  BY <1>1, DuringIs
<1>4. During(job, x, s) = ExecStatement(job, job.body[s], x, During(job, x, s - 1))
  BY <1>1, <1>2, DuringIs
<1> QED
  BY <1>1, <1>3, <1>4, InsideBody

(* In it a lane of the chunk keeps all that the statement does not assign. *)
LEMMA LaneKeeps ==
  ASSUME ChunkOK, NEW s \in DOMAIN job.body, NEW l \in Lane, Live(job, Pos, l)
  PROVE  LET stmt == job.body[s]
             next == During(job, Pos + l, s)
             before == During(job, Pos + l, s - 1)
         IN  /\ \A a \in Addr : (stmt.kind = "store" => a # ElementAddr(job, stmt.target, Pos + l))
                                  => next.mem[a] = before.mem[a]
             /\ \A t \in TempNames : (stmt.kind = "let" => t # stmt.target)
                                       => next.locals[t] = before.locals[t]
<1> DEFINE x == Pos + l
           before == During(job, x, s - 1)
           stmt == job.body[s]
<1>1. x \in Pos..(job.limit - 1) /\ JobOK(job)
  BY LiveIndex DEF ChunkOK
<1> HIDE DEF x
<1>2. before \in State /\ During(job, x, s) = ExecStatement(job, stmt, x, before)
  BY <1>1, DuringNext
<1> HIDE DEF before
<1>3. LET next == ExecStatement(job, job.body[s], x, before)
      IN  /\ next.value = before.value
          /\ \A a \in Addr : (stmt.kind = "store" => a # ElementAddr(job, stmt.target, x))
                               => next.mem[a] = before.mem[a]
          /\ \A t \in TempNames : (stmt.kind = "let" => t # stmt.target)
                                    => next.locals[t] = before.locals[t]
  BY <1>1, <1>2, ExecKeeps
<1> DEFINE next == During(job, x, s)
<1>4. next = ExecStatement(job, job.body[s], x, before)
  BY <1>2
<1> HIDE DEF next, stmt
<1>5. /\ \A a \in Addr : (stmt.kind = "store" => a # ElementAddr(job, stmt.target, x))
                          => next.mem[a] = before.mem[a]
      /\ \A t \in TempNames : (stmt.kind = "let" => t # stmt.target) => next.locals[t] = before.locals[t]
  BY <1>3, <1>4
<1> QED
  BY <1>5 DEF before, x, next, stmt

(* A statement that is not a store leaves memory where it is.              *)
LEMMA MemoryNext ==
  ASSUME ChunkOK, NEW s \in DOMAIN job.body, job.body[s].kind # "store", NEW m,
         MemoryAt(job, Pos, s - 1, m)
  PROVE  MemoryAt(job, Pos, s, m)
<1>1. ASSUME NEW a \in Addr, NEW l \in Lane, Live(job, Pos, l)
      PROVE  During(job, Pos + l, s).mem[a] = During(job, Pos + l, s - 1).mem[a]
  BY <1>1, LaneKeeps
<1> QED
  BY <1>1 DEF MemoryAt

(* A statement that is not a let leaves the temporaries where they are.    *)
LEMMA TempsNext ==
  ASSUME ChunkOK, NEW s \in DOMAIN job.body, job.body[s].kind # "let", NEW held,
         TempsAt(job, Pos, s - 1, held)
  PROVE  TempsAt(job, Pos, s, held)
<1> SUFFICES ASSUME NEW t \in TempNames, NEW l \in Lane, DefinedBefore(job.body, s + 1, t), Live(job, Pos, l)
             PROVE  held[t][l] = During(job, Pos + l, s).locals[t]
  BY DEF TempsAt
<1>1. Pos + l \in Pos..(job.limit - 1) /\ JobOK(job) /\ s \in Int
  BY LiveIndex, BodyLength DEF ChunkOK
<1>2. During(job, Pos + l, s).locals[t] = During(job, Pos + l, s - 1).locals[t]
  BY LaneKeeps
<1>3. DefinedBefore(job.body, (s - 1) + 1, t)
  BY <1>1 DEF DefinedBefore
<1> QED
  BY <1>2, <1>3 DEF TempsAt

(* A let gives each lane of a temporary what its iteration gives it.       *)
LEMMA TempsLet ==
  ASSUME ChunkOK, NEW s \in DOMAIN job.body, job.body[s].kind = "let",
         TempsAt(job, Pos, s - 1, temps), NEW vec \in Vector,
         \A l \in Lane : Live(job, Pos, l) =>
           vec[l] = Assigned(job, job.body[s], Pos + l, During(job, Pos + l, s - 1))
  PROVE  TempsAt(job, Pos, s, [temps EXCEPT ![job.body[s].target] = vec])
<1> DEFINE held == [temps EXCEPT ![job.body[s].target] = vec]
<1> SUFFICES ASSUME NEW t \in TempNames, NEW l \in Lane, DefinedBefore(job.body, s + 1, t), Live(job, Pos, l)
             PROVE  held[t][l] = During(job, Pos + l, s).locals[t]
  BY DEF TempsAt
<1>1. Pos + l \in Pos..(job.limit - 1) /\ Pos + l \in Int /\ JobOK(job) /\ s \in Int
      /\ temps \in [TempNames -> Vector]
  BY LiveIndex, BodyLength, HeaderType DEF ChunkOK, TypeOK
<1>2. CASE t = job.body[s].target
  <2>1. During(job, Pos + l, s).locals[t] = Assigned(job, job.body[s], Pos + l, During(job, Pos + l, s - 1))
    BY <1>1, <1>2, DuringNext, ExecAssigns
  <2>2. held[t] = vec
    BY <1>1, <1>2
  <2> QED
    BY <2>1, <2>2
<1>3. CASE t # job.body[s].target
  <2>1. During(job, Pos + l, s).locals[t] = During(job, Pos + l, s - 1).locals[t]
    BY <1>3, LaneKeeps
  <2>2. held[t] = temps[t]
    BY <1>1, <1>3
  <2>3. DefinedBefore(job.body, (s - 1) + 1, t)
    BY <1>1, <1>3 DEF DefinedBefore
  <2> QED
    BY <2>1, <2>2, <2>3 DEF TempsAt
<1> QED
  BY <1>2, <1>3

(* An element two live lanes of stored slices share is the same element of *)
(* the same slice.                                                         *)
LEMMA SameLane ==
  ASSUME ChunkOK, NEW ref \in Stored(job.body), NEW l \in Lane, Live(job, Pos, l),
         NEW other \in Stored(job.body), NEW m \in Lane, Live(job, Pos, m),
         ElementAddr(job, ref, Pos + l) = ElementAddr(job, other, Pos + m)
  PROVE  ref = other /\ l = m
<1>1. /\ JobOK(job) /\ ~SomeOverlap /\ Pos \in Int /\ Pos >= job.start /\ Inside(Pos)
      /\ Pos + l \in Pos..(job.limit - 1) /\ Pos + m \in Pos..(job.limit - 1) /\ (Pos + m) + 0 = Pos + m
  BY LiveIndex DEF ChunkOK, Lane
<1>2. AtIndex(other) \in Checked(job.body) /\ AtIndex(other)[1] = other /\ AtIndex(other)[3] = 0
  BY DEF Checked, AtIndex
<1> DEFINE access == AtIndex(other)
<1>3. ElementAddr(job, ref, Pos + l) = ElementAddr(job, access[1], (Pos + m) + access[3])
  BY <1>1, <1>2
<1> HIDE DEF access
<1>4. ref = access[1] /\ Pos + l = (Pos + m) + access[3]
  BY <1>1, <1>2, <1>3, SameElement DEF access
<1>5. l \in Nat /\ m \in Nat
  BY LiveIndex
<1> QED
  BY <1>1, <1>2, <1>4, <1>5 DEF access

(* A store writes the lanes of the loop, and nothing else.                 *)
LEMMA StoredLanes ==
  ASSUME ChunkOK, NEW ref \in Stored(job.body), OperandOK(AtIndex(ref), Pos), NEW vec, NEW a \in Addr
  PROVE  LET new == StoreVector(AtIndex(ref), Pos, vec)
         IN  /\ \A l \in Lane : Live(job, Pos, l) /\ a = ElementAddr(job, ref, Pos + l) => new[a] = vec[l]
             /\ (\A l \in Lane : Live(job, Pos, l) => a # ElementAddr(job, ref, Pos + l)) => new[a] = mem[a]
<1> DEFINE key == AtIndex(ref)
           new == StoreVector(key, Pos, vec)
           x == a - ElementAddr(job, ref, Pos)
<1>1. /\ JobOK(job) /\ Pos \in Int /\ job.limit \in Int /\ Lanes \in Nat /\ a \in Int
      /\ key \in Checked(job.body) /\ key \in Access /\ key[1] = ref /\ key[3] = 0
      /\ ref \in SliceNames /\ job.slices[ref].base \in Nat
  <2>1. key \in Checked(job.body) /\ key[1] = ref /\ key[3] = 0
    BY DEF Checked, AtIndex
  <2>2. JobOK(job) /\ Pos \in Int /\ job.limit \in Int /\ Lanes \in Nat /\ a \in Int
    BY PosType, HeaderType, LanesType, ValueAssumption DEF ChunkOK, Addr
  <2>3. key \in Access /\ ref \in SliceNames
    BY <2>1, <2>2, CheckedType, AccessType
  <2> QED
    BY <2>1, <2>2, <2>3, SliceType
<1>2. OperandLow(key, Pos) = Pos /\ OperandHigh(key) = job.limit
  BY <1>1, TargetHigh DEF OperandLow
<1>3. /\ Covered(key, Pos) \in 0..Lanes
      /\ Covered(key, Pos) = Lanes \/ Pos + Covered(key, Pos) >= job.limit
      /\ Pos + Covered(key, Pos) <= job.limit
  <2>1. Pos + Covered(key, Pos) <= job.limit
    BY <1>1, <1>2, CoveredType
  <2> HIDE DEF key
  <2> QED
    BY <1>1, <2>1, CoveredRest DEF key
<1>4. new[a] = IF x \in 0..(Covered(key, Pos) - 1) THEN vec[x] ELSE mem[a]
  BY <1>1, <1>2 DEF StoreVector
<1> HIDE DEF new, key
<1>5. \A l \in Lane : a = ElementAddr(job, ref, Pos + l) <=> x = l
  BY <1>1 DEF ElementAddr, Lane
<1>6. \A l \in Lane : Live(job, Pos, l) <=> l \in 0..(Covered(key, Pos) - 1)
  BY <1>1, <1>3 DEF Live, Lane
<1>7. x \in 0..(Covered(key, Pos) - 1) => x \in Lane
  BY <1>1, <1>3 DEF Lane
<1> HIDE DEF x
<1>8. \A l \in Lane : Live(job, Pos, l) /\ a = ElementAddr(job, ref, Pos + l) => new[a] = vec[l]
  BY <1>4, <1>5, <1>6
<1>9. (\A l \in Lane : Live(job, Pos, l) => a # ElementAddr(job, ref, Pos + l)) => new[a] = mem[a]
  BY <1>4, <1>5, <1>6, <1>7
<1> QED
  BY <1>8, <1>9 DEF new, key

(* So a store takes memory to where the iterations of the chunk take it.   *)
LEMMA MemoryStore ==
  ASSUME ChunkOK, NEW s \in DOMAIN job.body, job.body[s].kind = "store",
         OperandOK(AtIndex(job.body[s].target), Pos), MemoryAt(job, Pos, s - 1, mem), NEW vec,
         \A l \in Lane : Live(job, Pos, l) =>
           vec[l] = Assigned(job, job.body[s], Pos + l, During(job, Pos + l, s - 1))
  PROVE  MemoryAt(job, Pos, s, StoreVector(AtIndex(job.body[s].target), Pos, vec))
<1> DEFINE target == job.body[s].target
           new == StoreVector(AtIndex(target), Pos, vec)
<1>1. target \in Stored(job.body)
  BY DEF Stored, Stores
<1> HIDE DEF target
<1>2. \A a \in Addr :
        /\ \A l \in Lane : Live(job, Pos, l) /\ a = ElementAddr(job, target, Pos + l) => new[a] = vec[l]
        /\ (\A l \in Lane : Live(job, Pos, l) => a # ElementAddr(job, target, Pos + l)) => new[a] = mem[a]
  BY <1>1, StoredLanes DEF target
<1> HIDE DEF new
<1>3. ASSUME NEW a \in Addr, NEW ref \in Stored(job.body), NEW l \in Lane,
             Live(job, Pos, l), a = ElementAddr(job, ref, Pos + l)
      PROVE  new[a] = During(job, Pos + l, s).mem[a]
  <2>1. CASE ref = target
    <3> DEFINE x == Pos + l
               before == During(job, x, s - 1)
    <3>1. x \in Pos..(job.limit - 1) /\ x \in Int /\ JobOK(job)
      BY <1>3, LiveIndex, HeaderType DEF ChunkOK
    <3> HIDE DEF x
    <3>2. InBody(x) /\ before \in State /\ During(job, x, s) = ExecStatement(job, job.body[s], x, before)
      BY <3>1, DuringNext
    <3> HIDE DEF before
    <3>3. LET stmt == job.body[s]
              next == ExecStatement(job, stmt, x, before)
          IN  /\ next.panicked = before.panicked
              /\ stmt.kind = "store" =>
                   next.mem[ElementAddr(job, stmt.target, x)] = Assigned(job, stmt, x, before)
              /\ stmt.kind = "let" => next.locals[stmt.target] = Assigned(job, stmt, x, before)
      BY <3>1, <3>2, ExecAssigns
    <3>4. During(job, x, s).mem[ElementAddr(job, target, x)] = Assigned(job, job.body[s], x, before)
      BY <3>2, <3>3 DEF target
    <3>5. new[a] = vec[l] /\ vec[l] = Assigned(job, job.body[s], x, before)
      BY <1>2, <1>3, <2>1 DEF before, x
    <3> QED
      BY <1>3, <2>1, <3>4, <3>5 DEF x
  <2>2. CASE ref # target
    <3>1. \A m \in Lane : Live(job, Pos, m) => a # ElementAddr(job, target, Pos + m)
      BY <1>1, <1>3, <2>2, SameLane
    <3>2. new[a] = mem[a]
      BY <1>2, <3>1
    <3>3. mem[a] = During(job, Pos + l, s - 1).mem[a]
      BY <1>3 DEF MemoryAt
    <3>4. a # ElementAddr(job, target, Pos + l)
      BY <1>3, <3>1
    <3>5. During(job, Pos + l, s).mem[a] = During(job, Pos + l, s - 1).mem[a]
      BY <1>3, <3>4, LaneKeeps DEF target
    <3> QED
      BY <3>2, <3>3, <3>5
  <2> QED
    BY <2>1, <2>2
<1>4. ASSUME NEW a \in Addr,
             \A ref \in Stored(job.body), l \in Lane : Live(job, Pos, l) => a # ElementAddr(job, ref, Pos + l)
      PROVE  new[a] = After(job, Pos).mem[a]
  <2>1. new[a] = mem[a]
    BY <1>1, <1>2, <1>4
  <2>2. mem[a] = After(job, Pos).mem[a]
    BY <1>4 DEF MemoryAt
  <2> QED
    BY <2>1, <2>2
<1>5. MemoryAt(job, Pos, s, new)
  BY <1>3, <1>4 DEF MemoryAt
<1> QED
  BY <1>5 DEF new, target

(* The chunk done statement by statement is the iterations done one by one.*)
LEMMA ChunkEnds ==
  ASSUME ChunkOK, MemoryAt(job, Pos, Len(job.body), mem),
         NEW end \in Int, end = IF Pos + Lanes <= job.limit THEN Pos + Lanes ELSE job.limit
  PROVE  mem = After(job, end).mem /\ ~After(job, end).panicked
<1>1. /\ JobOK(job) /\ Pos \in Int /\ job.start \in Int /\ job.limit \in Int /\ Lanes \in Nat \ {0}
      /\ Pos >= job.start /\ Pos < job.limit /\ Len(job.body) \in 0..Len(job.body) /\ Inside(Pos)
      /\ end \in Pos..job.limit /\ mem \in [Addr -> Value]
  BY PosType, HeaderType, LanesType, BodyLength DEF ChunkOK, TypeOK
<1>2. ~After(job, end).panicked
  BY <1>1, ChunkKeeps
<1>3. After(job, end).mem \in [Addr -> Value]
  BY <1>1, RunIs DEF State
<1>4. \A y \in Pos..(end - 1) : y - Pos \in Lane /\ Pos + (y - Pos) = y /\ Live(job, Pos, y - Pos)
  BY <1>1 DEF Lane, Live
<1>5. ASSUME NEW a \in Addr PROVE mem[a] = After(job, end).mem[a]
  <2>1. CASE \E ref \in Stored(job.body), l \in Lane : Live(job, Pos, l) /\ a = ElementAddr(job, ref, Pos + l)
    <3>1. PICK ref \in Stored(job.body), l \in Lane : Live(job, Pos, l) /\ a = ElementAddr(job, ref, Pos + l)
      BY <2>1
    <3> DEFINE y == Pos + l
    <3>2. /\ y \in Pos..(job.limit - 1) /\ y \in job.start..(job.limit - 1) /\ y \in Pos..job.limit
          /\ y + 1 \in Int /\ y + 1 >= job.start /\ y + 1 <= job.limit /\ y + 1 > Pos
          /\ y + 1 \in Pos..job.limit /\ end \in (y + 1)..job.limit /\ l \in Nat /\ y - Pos = l
      BY <1>1, <3>1, LiveIndex DEF Lane
    <3>3. mem[a] = During(job, y, Len(job.body)).mem[a]
      BY <3>1 DEF MemoryAt
    <3>4. After(job, y + 1) = During(job, y, Len(job.body))
      <4>1. ~After(job, y).panicked
        BY <3>2, ChunkKeeps
      <4> HIDE DEF y
      <4> QED
        BY <1>1, <3>2, <4>1, RunIs
    <3>5. ASSUME NEW other \in Stored(job.body), NEW z \in (y + 1)..(end - 1), a = ElementAddr(job, other, z)
          PROVE  FALSE
      <4>1. z \in Pos..(end - 1) /\ z - Pos # l
        BY <1>1, <3>2
      <4>2. z - Pos \in Lane /\ Live(job, Pos, z - Pos) /\ a = ElementAddr(job, other, Pos + (z - Pos))
        BY <1>4, <3>5, <4>1
      <4> DEFINE m == z - Pos
      <4> HIDE DEF m
      <4>3. l = m
        BY <3>1, <4>2, SameLane DEF m
      <4> QED
        BY <4>1, <4>3 DEF m
    <3>6. Inside(y + 1)
      <4>1. \A access \in Checked(job.body) : access[3] \in Int /\ Pos + access[3] >= 0
        BY <1>1, CheckedType, AccessType DEF Inside
      <4> QED
        BY <1>1, <3>2, <4>1 DEF Inside
    <3>7. ~After(job, y + 1).panicked
      BY <3>2, ChunkKeeps
    <3> DEFINE next == y + 1
    <3> HIDE DEF next, y
    <3>8. After(job, end).mem[a] = After(job, next).mem[a]
      BY <1>1, <3>2, <3>5, <3>6, <3>7, AfterKeeps DEF next
    <3> QED
      BY <3>3, <3>4, <3>8 DEF next
  <2>2. CASE \A ref \in Stored(job.body), l \in Lane : Live(job, Pos, l) => a # ElementAddr(job, ref, Pos + l)
    <3>1. mem[a] = After(job, Pos).mem[a]
      BY <2>2 DEF MemoryAt
    <3>2. \A ref \in Stored(job.body), y \in Pos..(end - 1) : a # ElementAddr(job, ref, y)
      BY <1>4, <2>2
    <3>3. After(job, end).mem[a] = After(job, Pos).mem[a]
      BY <1>1, <3>2, ChunkKeeps
    <3> QED
      BY <3>1, <3>3
  <2> QED
    BY <2>1, <2>2
<1> QED
  BY <1>1, <1>2, <1>3, <1>5

(* What is read ahead of the stores is what the chunk found in memory.     *)
LEMMA AheadLoaded ==
  ASSUME ChunkOK, LoadsOK(LoadsAhead(job.body)), DOMAIN loaded = {}, mem = After(job, Pos).mem
  PROVE  AheadAt(job, Pos, WithLoads(LoadsAhead(job.body)))
<1> SUFFICES ASSUME NEW ld \in LoadsAhead(job.body)
             PROVE  /\ Key(ld) \in DOMAIN WithLoads(LoadsAhead(job.body))
                    /\ \A l \in Lane : Live(job, Pos, l) =>
                         WithLoads(LoadsAhead(job.body))[Key(ld)][l] =
                           mem[ElementAddr(job, ld.ref, Pos + l + ld.off)]
  BY DEF AheadAt
<1> DEFINE key == Key(ld)
<1>1. key \in Keys(LoadsAhead(job.body)) /\ key[1] = ld.ref /\ key[3] = ld.off
      /\ key \in Checked(job.body)
  BY DEF Keys, Key, LoadsAhead, Checked
<1> HIDE DEF key
<1>2. key \in DOMAIN WithLoads(LoadsAhead(job.body))
      /\ WithLoads(LoadsAhead(job.body))[key] = LoadVector(key, Pos) /\ OperandOK(key, Pos)
  BY <1>1 DEF WithLoads, LoadsOK, AccessOK
<1>3. \A l \in Lane : Live(job, Pos, l) => LoadVector(key, Pos)[l] = mem[ElementAddr(job, key[1], Pos + l + key[3])]
  BY <1>1, <1>2, LoadedLane
<1> QED
  BY <1>1, <1>2, <1>3 DEF key

(* It stays loaded, through the stores as well.                            *)
LEMMA AheadKept ==
  ASSUME AheadAt(job, Pos, loaded), NEW loads
  PROVE  AheadAt(job, Pos, WithLoads(loads))
BY DEF AheadAt, WithLoads

(* A store drops only the vector at its own index, never one read ahead.   *)
LEMMA AheadStays ==
  ASSUME NEW held, AheadAt(job, Pos, held), NEW ref
  PROVE  AheadAt(job, Pos, LoadedAfterStore(held, AtIndex(ref)))
<1> SUFFICES ASSUME NEW ld \in LoadsAhead(job.body)
             PROVE  /\ Key(ld) \in DOMAIN LoadedAfterStore(held, AtIndex(ref))
                    /\ LoadedAfterStore(held, AtIndex(ref))[Key(ld)] = held[Key(ld)]
  BY DEF AheadAt
<1>1. Key(ld) # AtIndex(ref)
  BY DEF Key, AtIndex, LoadsAhead, Ahead
<1> QED
  BY <1>1 DEF AheadAt, LoadedAfterStore

(* The lanes of the first operand say how far the chunk reaches.           *)
LEMMA LengthLoads ==
  ASSUME ChunkOK, LengthAt(job, Pos, n), n = NoLanes => DOMAIN loaded = {},
         NEW loads \in SUBSET AllLoads(job.body), LoadsOK(loads), NEW leaves, Lists(leaves, loads)
  PROVE  LengthAt(job, Pos, LanesAfter(leaves))
<1>1. CASE n = NoLanes /\ leaves # << >>
  <2>1. leaves[1] \in loads
    BY <1>1 DEF Lists
  <2> DEFINE key == Key(leaves[1])
  <2>2. key \in Keys(loads) \ DOMAIN loaded /\ key \in Checked(job.body)
    BY <1>1, <2>1 DEF Keys, Checked
  <2>3. OperandOK(key, Pos) /\ LanesAfter(leaves) = Covered(key, Pos)
    BY <1>1, <2>2 DEF LoadsOK, AccessOK, LanesAfter
  <2> HIDE DEF key
  <2> QED
    BY <2>2, <2>3, CoveredRest DEF LengthAt
<1>2. CASE ~(n = NoLanes /\ leaves # << >>)
  BY <1>2 DEF LanesAfter
<1> QED
  BY <1>1, <1>2

(* A statement that was not too short for the chunk reaches nothing below. *)
LEMMA NotBelowNext ==
  ASSUME JobOK(job), TypeOK, k \in DOMAIN job.body, NotBelow(job, Pos, k - 1), HeldIn(Held),
         job.body[k].kind = "store" => OperandOK(AtIndex(job.body[k].target), Pos)
  PROVE  NotBelow(job, Pos, k)
<1>1. ASSUME NEW ld \in LoadsOf(job.body[k]) PROVE Pos + ld.off >= 0
  <2>1. Key(ld) \in DOMAIN Held
    BY DEF Held, WithLoads, Keys
  <2>2. 0 <= OperandLow(Key(ld), Pos)
    BY <2>1 DEF HeldIn, OperandOK
  <2>3. ld \in Load
    BY BodyType, LoadsOfType
  <2> QED
    BY <2>2 DEF OperandLow, Key
<1>2. job.body[k].kind = "store" => Pos >= 0
  BY PosType DEF OperandOK, OperandLow, AtIndex
<1>3. k \in Nat /\ \A p \in 1..k : p = k \/ p \in 1..(k - 1)
  BY BodyLength
<1> QED
  BY <1>1, <1>2, <1>3 DEF NotBelow

(* A chunk that is done was inside its slices.                             *)
LEMMA DoneInside ==
  ASSUME Inv, ShortInv, LaneInv, pc = "statement", k > Len(job.body)
  PROVE  Inside(Pos)
<1>1. /\ JobOK(job) /\ TypeOK /\ mode = "vector" /\ i >= job.start
      /\ Pos < job.limit /\ NotBelow(job, Pos, k - 1)
  BY DEF Inv, ControlInv, IndexInv, LaneInv
<1>2. /\ Pos \in Int /\ Pos >= job.start /\ job.start \in Int /\ job.limit \in Int
      /\ Len(job.body) \in Nat /\ k = Len(job.body) + 1 /\ k - 1 = Len(job.body)
  <2>1. i \in Int /\ copy \in Nat /\ Lanes \in Nat /\ k \in 1..(Len(job.body) + 1)
    BY <1>1, CopiesType, LanesType DEF TypeOK
  <2>2. copy * Lanes \in Nat
    BY <2>1
  <2> QED
    BY <1>1, <2>1, <2>2, BodyLength, HeaderType DEF Pos
<1>3. ~NilFields /\ LengthsOK
  BY <1>1, <1>2 DEF ShortInv, Runs
<1>4. ASSUME NEW access \in Checked(job.body) PROVE Pos + access[3] >= 0
  <2>1. CASE access \in Keys(AllLoads(job.body))
    <3>1. PICK p \in DOMAIN job.body : \E ld \in LoadsOf(job.body[p]) : access = Key(ld)
      BY <2>1 DEF Keys, AllLoads
    <3>2. p \in 1..(k - 1) /\ \E ld \in LoadsOf(job.body[p]) : access[3] = ld.off
      BY <1>1, <1>2, <3>1, BodyLength DEF Key
    <3> QED
      BY <1>1, <3>2 DEF NotBelow
  <2>2. CASE access \in {AtIndex(ref) : ref \in Stored(job.body)}
    <3>1. PICK p \in Stores(job.body) : access = AtIndex(job.body[p].target)
      BY <2>2 DEF Stored
    <3>2. p \in 1..(k - 1) /\ job.body[p].kind = "store" /\ access[3] = 0
      BY <1>1, <1>2, <3>1, BodyLength DEF Stores, AtIndex
    <3> QED
      BY <1>1, <1>2, <3>2 DEF NotBelow
  <2> QED
    BY <2>1, <2>2 DEF Checked
<1>5. ASSUME NEW access \in Checked(job.body)
      PROVE  InRange(job, access[1], job.limit - 1 + access[3])
  <2>1. job.limit # 0 \/ access[3] # 0
    BY <1>1, <1>2, <1>4
  <2> QED
    BY <1>1, <1>3, <2>1, ChecksSuffice
<1> QED
  BY <1>4, <1>5 DEF Inside, InTrip

(* While a chunk is inside its slices the lemmas apply to it.              *)
LEMMA ChunkGood ==
  ASSUME Inv, LaneInv, pc \in {"load", "statement"}, Inside(Pos)
  PROVE  ChunkOK
<1>1. /\ JobOK(job) /\ TypeOK /\ mode = "vector" /\ i >= job.start /\ ~SomeOverlap
  BY DEF Inv, ControlInv, IndexInv, ApartInv
<1>2. i \in Int /\ copy \in Nat /\ Lanes \in Nat /\ job.start \in Int
  BY <1>1, CopiesType, LanesType, HeaderType DEF TypeOK
<1>3. copy * Lanes \in Nat
  BY <1>2
<1>4. Pos >= job.start
  BY <1>1, <1>2, <1>3 DEF Pos
<1> QED
  BY <1>1, <1>4 DEF ChunkOK, LaneInv

(* It is done when its memory is what the iterations up to its end leave.  *)
LEMMA ChunkDone ==
  ASSUME Inv, ShortInv, LaneInv, pc = "statement", k > Len(job.body),
         NEW end \in Int, end = IF Pos + Lanes <= job.limit THEN Pos + Lanes ELSE job.limit
  PROVE  mem = After(job, end).mem /\ ~After(job, end).panicked /\ LengthAt(job, Pos, n)
<1>1. Inside(Pos) /\ ChunkOK
  BY DoneInside, ChunkGood
<1>2. k - 1 = Len(job.body)
  <2>1. k \in 1..(Len(job.body) + 1) /\ Len(job.body) \in Nat
    BY BodyLength DEF Inv, TypeOK
  <2> QED
    BY <2>1
<1>3. MemoryAt(job, Pos, Len(job.body), mem) /\ LengthAt(job, Pos, n)
  BY <1>1, <1>2 DEF LaneInv
<1> QED
  BY <1>1, <1>3, ChunkEnds

(* The source loop run forward up to an index, or to its end.              *)
LEMMA PrefixIs ==
  ASSUME JobOK(job), NEW x \in Int, x >= job.start
  PROVE  LET done == x - job.start
         IN  Run(job, 1)[IF done < Iterations(job) THEN done ELSE Iterations(job)] =
               After(job, IF x < job.limit THEN x ELSE IF job.start < job.limit THEN job.limit ELSE job.start)
<1>1. job.start \in Int /\ job.limit \in Int
  BY HeaderType
<1>2. (IF x - job.start < Iterations(job) THEN x - job.start ELSE Iterations(job)) =
        (IF x < job.limit THEN x ELSE IF job.start < job.limit THEN job.limit ELSE job.start) - job.start
  BY <1>1 DEF Iterations
<1> QED
  BY <1>2 DEF After

(* Where a chunk works depends on the job only.                            *)
LEMMA InsideSame == ASSUME job' = job, Pos' = Pos PROVE Inside(Pos)' = Inside(Pos)
  BY DEF Inside, InTrip, InRange

(* The emitted bodies fit in what is left of the loop.                     *)
LEMMA CopiesFit ==
  ASSUME NEW c \in Nat, NEW copies \in Nat, c + 2 <= copies, NEW len \in Nat
  PROVE  c * len + len + len <= copies * len
<1>1. copies - c - 2 \in Nat /\ copies = (copies - c - 2) + c + 2
  OBVIOUS
<1> DEFINE rest == copies - c - 2
<1> HIDE DEF rest
<1>2. rest * len \in Nat /\ copies * len = rest * len + c * len + len + len
  BY <1>1 DEF rest
<1>3. c * len \in Nat
  OBVIOUS
<1> QED
  BY <1>2, <1>3

(* What a body that goes on with memory and temporaries keeps.             *)
LEMMA LaneFrame ==
  ASSUME Inv, LaneInv, pc \in {"load", "statement"}, pc' = "statement", job' = job, i' = i, copy' = copy,
         Full(job.body) => n' = n,
         NEW q \in Int, k' = q + 1, NotBelow(job, Pos, q),
         Inside(Pos) => /\ MemoryAt(job, Pos, q, mem') /\ TempsAt(job, Pos, q, temps')
                        /\ AheadAt(job, Pos, loaded') /\ LengthAt(job, Pos, n')
  PROVE  LaneInv'
<1>1. Pos' = Pos /\ k' - 1 = q
  BY DEF Pos
<1>2. Inside(Pos)' = Inside(Pos) /\ Copies' = Copies
  BY <1>1, InsideSame, JobOnly
<1>3. /\ Pos < job.limit
      /\ Full(job.body) => (n' = Copies * Lanes \/ (n' = Lanes /\ copy = 0)) /\ i + n' <= job.limit
      /\ ~After(job, Pos).panicked
  BY DEF LaneInv
<1> QED
  BY <1>1, <1>2, <1>3 DEF LaneInv

(* What a statement of the chunk works with.                               *)
LEMMA StatementLanes ==
  ASSUME Inv, HeldInv, LaneInv, pc = "statement", k \in DOMAIN job.body, CanLoad
  PROVE  /\ HeldIn(Held)
         /\ Inside(Pos) =>
              /\ ChunkOK /\ MemoryAt(job, Pos, k - 1, mem) /\ TempsAt(job, Pos, k - 1, temps)
              /\ AheadAt(job, Pos, Held) /\ LengthAt(job, Pos, n)
              /\ LengthAt(job, Pos, LanesAfter(Leaves(job.body[k])))
              /\ \A l \in Lane : Live(job, Pos, l) =>
                   StatementVector(job.body[k], Held)[l] =
                     Assigned(job, job.body[k], Pos + l, During(job, Pos + l, k - 1))
<1>1. JobOK(job) /\ mode = "vector" /\ Planned(job) /\ LoadsOf(job.body[k]) \in SUBSET AllLoads(job.body)
      /\ (n = NoLanes => DOMAIN loaded = {}) /\ Lists(Leaves(job.body[k]), LoadsOf(job.body[k]))
  BY DEF Inv, ControlInv, ChunkInv, AllLoads, JobOK
<1>2. HeldIn(Held)
  BY <1>1, WithLoadsHeld DEF HeldInv, CanLoad, Held
<1>3. \A ld \in LoadsOf(job.body[k]) : Key(ld) \in DOMAIN Held
  BY DEF Held, WithLoads, Keys
<1>4. ASSUME Inside(Pos)
      PROVE  /\ ChunkOK /\ MemoryAt(job, Pos, k - 1, mem) /\ TempsAt(job, Pos, k - 1, temps)
             /\ AheadAt(job, Pos, Held) /\ LengthAt(job, Pos, n)
             /\ LengthAt(job, Pos, LanesAfter(Leaves(job.body[k])))
             /\ \A l \in Lane : Live(job, Pos, l) =>
                  StatementVector(job.body[k], Held)[l] =
                    Assigned(job, job.body[k], Pos + l, During(job, Pos + l, k - 1))
  <2>1. ChunkOK
    BY <1>4, ChunkGood
  <2>2. /\ MemoryAt(job, Pos, k - 1, mem) /\ TempsAt(job, Pos, k - 1, temps)
        /\ AheadAt(job, Pos, loaded) /\ LengthAt(job, Pos, n)
    BY <1>4 DEF LaneInv
  <2>3. AheadAt(job, Pos, Held)
    BY <2>2, AheadKept DEF Held
  <2>4. LengthAt(job, Pos, LanesAfter(Leaves(job.body[k])))
    BY <1>1, <2>1, <2>2, LengthLoads DEF CanLoad
  <2>5. ASSUME NEW l \in Lane, Live(job, Pos, l)
        PROVE  StatementVector(job.body[k], Held)[l] =
                 Assigned(job, job.body[k], Pos + l, During(job, Pos + l, k - 1))
    <3>1. LaneValue(job.body[k], Held, l) = Assigned(job, job.body[k], Pos + l, During(job, Pos + l, k - 1))
      BY <1>1, <1>2, <1>3, <2>1, <2>2, <2>3, <2>5, LaneAssigns
    <3> QED
      BY <3>1 DEF StatementVector
  <2> QED
    BY <2>1, <2>2, <2>3, <2>4, <2>5
<1> QED
  BY <1>2, <1>4

(* Each step of a chunk keeps LaneInv: a let,                              *)
LEMMA LaneLet == ASSUME Inv, HeldInv, LaneInv, VectorLet PROVE LaneInv'
<1>1. /\ JobOK(job) /\ TypeOK /\ pc = "statement" /\ k \in DOMAIN job.body /\ k \in Int /\ CanLoad
      /\ job.body[k].kind = "let" /\ NotBelow(job, Pos, k - 1)
  BY BodyLength DEF Inv, TypeOK, VectorLet, Running, LaneInv
<1>2. /\ pc' = "statement" /\ job' = job /\ i' = i /\ copy' = copy /\ k' = k + 1
      /\ mem' = mem /\ loaded' = Held /\ n' = LanesAfter(Leaves(job.body[k]))
      /\ temps' = [temps EXCEPT ![job.body[k].target] = StatementVector(job.body[k], Held)]
  BY <1>1 DEF VectorLet
<1>3. NotBelow(job, Pos, k)
  BY <1>1, StatementLanes, NotBelowNext
<1>4. Full(job.body) => n' = n
  BY <1>1, <1>2 DEF Inv, ChunkInv, LanesAfter
<1>5. ASSUME Inside(Pos)
      PROVE  /\ MemoryAt(job, Pos, k, mem) /\ TempsAt(job, Pos, k, temps')
             /\ AheadAt(job, Pos, Held) /\ LengthAt(job, Pos, n')
  <2>1. /\ ChunkOK /\ MemoryAt(job, Pos, k - 1, mem) /\ TempsAt(job, Pos, k - 1, temps)
        /\ AheadAt(job, Pos, Held) /\ LengthAt(job, Pos, n')
        /\ \A l \in Lane : Live(job, Pos, l) =>
             StatementVector(job.body[k], Held)[l] =
               Assigned(job, job.body[k], Pos + l, During(job, Pos + l, k - 1))
    BY <1>1, <1>2, <1>5, StatementLanes
  <2>2. MemoryAt(job, Pos, k, mem)
    BY <1>1, <2>1, MemoryNext
  <2>3. StatementVector(job.body[k], Held) \in Vector
    BY <1>1, StatementVectorType
  <2>4. TempsAt(job, Pos, k, [temps EXCEPT ![job.body[k].target] = StatementVector(job.body[k], Held)])
    BY <1>1, <2>1, <2>3, TempsLet
  <2> QED
    BY <1>2, <2>1, <2>2, <2>4
<1> QED
  BY <1>1, <1>2, <1>3, <1>4, <1>5, LaneFrame

(* a fold into an accumulator,                                             *)
LEMMA LaneFold == ASSUME Inv, HeldInv, LaneInv, VectorFold PROVE LaneInv'
<1>1. /\ JobOK(job) /\ TypeOK /\ pc = "statement" /\ k \in DOMAIN job.body /\ k \in Int /\ CanLoad
      /\ job.body[k].kind = "reduce" /\ NotBelow(job, Pos, k - 1)
  BY BodyLength DEF Inv, TypeOK, VectorFold, Running, LaneInv
<1>2. /\ pc' = "statement" /\ job' = job /\ i' = i /\ copy' = copy /\ k' = k + 1
      /\ mem' = mem /\ loaded' = Held /\ n' = n /\ temps' = temps
  BY <1>1 DEF VectorFold
<1>3. NotBelow(job, Pos, k)
  BY <1>1, StatementLanes, NotBelowNext
<1>5. ASSUME Inside(Pos)
      PROVE  /\ MemoryAt(job, Pos, k, mem) /\ TempsAt(job, Pos, k, temps)
             /\ AheadAt(job, Pos, Held) /\ LengthAt(job, Pos, n)
  <2>1. /\ ChunkOK /\ MemoryAt(job, Pos, k - 1, mem) /\ TempsAt(job, Pos, k - 1, temps)
        /\ AheadAt(job, Pos, Held) /\ LengthAt(job, Pos, n)
    BY <1>1, <1>5, StatementLanes
  <2> QED
    BY <1>1, <2>1, MemoryNext, TempsNext
<1> QED
  BY <1>1, <1>2, <1>3, <1>5, LaneFrame

(* a store,                                                                *)
LEMMA LaneStore == ASSUME Inv, HeldInv, LaneInv, VectorStore PROVE LaneInv'
<1> DEFINE key == AtIndex(job.body[k].target)
           lanes == LanesAfter(Leaves(job.body[k]))
<1>1. /\ JobOK(job) /\ TypeOK /\ pc = "statement" /\ k \in DOMAIN job.body /\ k \in Int /\ CanLoad
      /\ job.body[k].kind = "store" /\ NotBelow(job, Pos, k - 1)
  BY BodyLength DEF Inv, TypeOK, VectorStore, Running, LaneInv
<1>2. /\ pc' = "statement" /\ job' = job /\ i' = i /\ copy' = copy /\ k' = k + 1
      /\ mem' = StoreVector(key, Pos, StatementVector(job.body[k], Held))
      /\ loaded' = LoadedAfterStore(Held, key) /\ temps' = temps
      /\ n' = IF lanes = NoLanes THEN Covered(key, Pos) ELSE lanes
      /\ OperandOK(key, Pos)
  BY <1>1 DEF VectorStore, AccessOK
<1>3. NotBelow(job, Pos, k)
  BY <1>1, <1>2, StatementLanes, NotBelowNext
<1>4. Full(job.body) => n' = n
  BY <1>1, <1>2 DEF Inv, ChunkInv, LanesAfter
<1>6. key \in Checked(job.body)
  BY <1>1 DEF Checked, Stored, Stores
<1>5. ASSUME Inside(Pos)
      PROVE  /\ MemoryAt(job, Pos, k, mem') /\ TempsAt(job, Pos, k, temps)
             /\ AheadAt(job, Pos, loaded') /\ LengthAt(job, Pos, n')
  <2>1. /\ ChunkOK /\ MemoryAt(job, Pos, k - 1, mem) /\ TempsAt(job, Pos, k - 1, temps)
        /\ AheadAt(job, Pos, Held) /\ LengthAt(job, Pos, lanes)
        /\ \A l \in Lane : Live(job, Pos, l) =>
             StatementVector(job.body[k], Held)[l] =
               Assigned(job, job.body[k], Pos + l, During(job, Pos + l, k - 1))
    BY <1>1, <1>5, StatementLanes
  <2>2. MemoryAt(job, Pos, k, StoreVector(key, Pos, StatementVector(job.body[k], Held)))
    BY <1>1, <1>2, <2>1, MemoryStore
  <2>3. TempsAt(job, Pos, k, temps)
    BY <1>1, <2>1, TempsNext
  <2>4. AheadAt(job, Pos, LoadedAfterStore(Held, key))
    BY <2>1, AheadStays
  <2>5. LengthAt(job, Pos, Covered(key, Pos))
    <3> HIDE DEF key
    <3> QED
      BY <1>2, <1>6, <2>1, CoveredRest DEF LengthAt
  <2> QED
    BY <1>2, <2>1, <2>2, <2>3, <2>4, <2>5
<1> QED
  BY <1>1, <1>2, <1>3, <1>4, <1>5, LaneFrame

(* the loads read ahead,                                                   *)
LEMMA LaneLoadAhead == ASSUME Inv, HeldInv, LaneInv, LoadAhead PROVE LaneInv'
<1> DEFINE loads == LoadsAhead(job.body)
           leaves == LeavesAhead(job.body)
<1>1. /\ JobOK(job) /\ TypeOK /\ pc = "load" /\ k = 1 /\ DOMAIN loaded = {} /\ Len(job.body) \in Nat
      /\ loads \in SUBSET AllLoads(job.body) /\ Lists(leaves, loads)
  BY BodyLength DEF Inv, ChunkInv, LoadAhead, HeldInv, LoadsAhead, JobOK
<1>2. CASE LoadsOK(loads)
  <2>1. /\ pc' = "statement" /\ job' = job /\ i' = i /\ copy' = copy /\ k' = 0 + 1
        /\ mem' = mem /\ loaded' = WithLoads(loads) /\ n' = LanesAfter(leaves) /\ temps' = temps
    BY <1>1, <1>2 DEF LoadAhead, Goto
  <2>2. Full(job.body) => n' = n
    BY <1>1, <2>1 DEF Inv, ChunkInv, LanesAfter
  <2>3. NotBelow(job, Pos, 0)
    BY DEF NotBelow
  <2>4. ASSUME Inside(Pos)
        PROVE  /\ MemoryAt(job, Pos, 0, mem) /\ TempsAt(job, Pos, 0, temps)
               /\ AheadAt(job, Pos, WithLoads(loads)) /\ LengthAt(job, Pos, LanesAfter(leaves))
    <3>1. ChunkOK /\ mem = After(job, Pos).mem /\ LengthAt(job, Pos, n)
      BY <1>1, <2>4, ChunkGood DEF LaneInv
    <3>2. MemoryAt(job, Pos, 0, mem)
      BY <3>1, ChunkStarts
    <3>3. TempsAt(job, Pos, 0, temps)
      BY DEF TempsAt, DefinedBefore
    <3>4. AheadAt(job, Pos, WithLoads(loads))
      BY <1>1, <1>2, <3>1, AheadLoaded
    <3>5. LengthAt(job, Pos, LanesAfter(leaves))
      <4> HIDE DEF loads, leaves
      <4> QED
        BY <1>1, <1>2, <3>1, LengthLoads
    <3> QED
      BY <3>2, <3>3, <3>4, <3>5
  <2> QED
    BY <1>1, <2>1, <2>2, <2>3, <2>4, LaneFrame
<1>3. CASE ~LoadsOK(loads)
  BY <1>3 DEF LoadAhead, Stop, Goto, LaneInv
<1> QED
  BY <1>2, <1>3

(* The end of a chunk, and the end of the source loop run that far.        *)
LEMMA ChunkEnd ==
  ASSUME Inv, ShortInv, LaneInv, Advance
  PROVE  /\ i' \in Int /\ i' >= job.start
         /\ LET at == IF i' < job.limit THEN i' ELSE IF job.start < job.limit THEN job.limit ELSE job.start
            IN  mem = After(job, at).mem /\ ~After(job, at).panicked
<1> DEFINE end == IF Pos + Lanes <= job.limit THEN Pos + Lanes ELSE job.limit
<1>1. /\ JobOK(job) /\ TypeOK /\ pc = "statement" /\ k > Len(job.body) /\ i' = i + n
      /\ mode = "vector" /\ i >= job.start /\ copy < Copies /\ Pos < job.limit
  BY DEF Inv, ControlInv, IndexInv, ChunkInv, Advance, LaneInv
<1>2. /\ job.start \in Int /\ job.limit \in Int /\ i \in Int /\ Lanes \in Nat \ {0} /\ Copies \in 1..4
      /\ copy \in Nat /\ n \in Nat /\ n # NoLanes
  <2>1. n # NoLanes
    BY ChunkKnown
  <2>2. i \in Int /\ copy \in 0..Copies /\ n \in Nat \cup {NoLanes}
    BY <1>1 DEF TypeOK
  <2> QED
    BY <1>1, <2>1, <2>2, HeaderType, LanesType, CopiesType
<1>3. Pos \in Int /\ Pos = i + copy * Lanes /\ copy * Lanes \in Nat /\ Pos >= job.start
  <2>1. copy * Lanes \in Nat
    BY <1>2
  <2> QED
    BY <1>1, <1>2, <2>1 DEF Pos
<1>4. end \in Int /\ mem = After(job, end).mem /\ ~After(job, end).panicked /\ LengthAt(job, Pos, n)
  <2>1. end \in Int
    BY <1>2, <1>3
  <2> HIDE DEF end
  <2> QED
    BY <1>1, <2>1, ChunkDone DEF end
<1>5. end = IF i' < job.limit THEN i' ELSE job.limit
  <2>1. CASE Full(job.body)
    <3>1. (n = Copies * Lanes \/ (n = Lanes /\ copy = 0)) /\ i + n <= job.limit
      BY <1>1, <2>1 DEF LaneInv
    <3>2. CASE n = Copies * Lanes
      <4>1. copy = Copies - 1
        BY <1>1, <1>2, <2>1, <3>2 DEF Advance, Unrolled
      <4>2. copy * Lanes + Lanes = Copies * Lanes
        BY <1>2, <4>1
      <4> QED
        BY <1>1, <1>2, <1>3, <3>1, <3>2, <4>2
    <3>3. CASE n = Lanes /\ copy = 0
      BY <1>1, <1>2, <1>3, <3>1, <3>3
    <3> QED
      BY <3>1, <3>2, <3>3
  <2>2. CASE ~Full(job.body)
    <3>1. Copies = 1
      BY <2>2 DEF Copies
    <3>2. copy = 0 /\ Pos = i
      BY <1>1, <1>2, <1>3, <3>1
    <3>3. n \in 0..Lanes /\ (n = Lanes \/ Pos + n >= job.limit)
      BY <1>2, <1>4, <2>2 DEF LengthAt
    <3> QED
      BY <1>1, <1>2, <3>2, <3>3
  <2> QED
    BY <2>1, <2>2
<1> HIDE DEF end
<1>6. job.start < job.limit
  BY <1>1, <1>2, <1>3
<1> QED
  BY <1>1, <1>2, <1>4, <1>5, <1>6

(* the next unrolled body.                                                 *)
LEMMA LaneNextCopy == ASSUME Inv, ShortInv, LaneInv, NextCopy PROVE LaneInv'
<1>1. /\ JobOK(job) /\ TypeOK /\ pc = "statement" /\ k > Len(job.body) /\ Full(job.body)
      /\ n = Copies * Lanes /\ copy < Copies - 1 /\ i + n <= job.limit
  BY DEF Inv, NextCopy, Unrolled, LaneInv
<1>2. /\ job' = job /\ i' = i /\ copy' = copy + 1 /\ n' = n /\ mem' = mem /\ pc' = "load"
  BY DEF NextCopy, StartBody, Goto
<1>3. /\ job.limit \in Int /\ i \in Int /\ Lanes \in Nat \ {0} /\ Copies \in 1..4 /\ copy \in Nat
      /\ Pos \in Int
  BY <1>1, HeaderType, LanesType, CopiesType, PosType DEF TypeOK
<1>4. copy * Lanes + Lanes + Lanes <= Copies * Lanes
  BY <1>1, <1>3, CopiesFit
<1>5. Pos' = Pos + Lanes /\ Pos + Lanes < job.limit
  <2>1. (copy + 1) * Lanes = copy * Lanes + Lanes /\ copy * Lanes \in Nat /\ Copies * Lanes \in Nat
    BY <1>3
  <2>2. Pos = i + copy * Lanes /\ Pos' = i + (copy + 1) * Lanes
    BY <1>2 DEF Pos
  <2> QED
    BY <1>1, <1>3, <1>4, <2>1, <2>2
<1>6. mem = After(job, Pos + Lanes).mem /\ ~After(job, Pos + Lanes).panicked
  <2> DEFINE end == Pos + Lanes
  <2>1. end \in Int /\ end = IF Pos + Lanes <= job.limit THEN Pos + Lanes ELSE job.limit
    BY <1>3, <1>5
  <2> HIDE DEF end
  <2>2. mem = After(job, end).mem /\ ~After(job, end).panicked
    BY <1>1, <2>1, ChunkDone
  <2> QED
    BY <2>2 DEF end
<1>7. Copies' = Copies
  BY <1>2, JobOnly
<1> QED
  BY <1>1, <1>2, <1>5, <1>6, <1>7 DEF LaneInv, LengthAt

(* A chunk starts where the iterations before it ended.                    *)
LEMMA LaneStart ==
  ASSUME Inv, ScalarPrefix, ChunkTest \/ MainTest \/ SingleTest
  PROVE  LaneInv'
<1> SUFFICES ASSUME pc' \in {"load", "statement"} PROVE LaneInv'
  BY DEF LaneInv
<1>1. /\ JobOK(job) /\ TypeOK /\ mode = "vector" /\ i >= job.start /\ pc \in {"test", "main"}
      /\ pc = "test" => ~Full(job.body)
  BY DEF Inv, ControlInv, IndexInv, ChunkTest, MainTest, SingleTest
<1>2. /\ job' = job /\ i' = i /\ mem' = mem /\ copy' = 0 /\ pc' = "load"
      /\ \/ pc = "test" /\ i < job.limit /\ n' = NoLanes
         \/ pc = "main" /\ i + Copies * Lanes <= job.limit /\ n' = Copies * Lanes
         \/ pc = "main" /\ i + Lanes <= job.limit /\ n' = Lanes
  BY DEF ChunkTest, MainTest, SingleTest, StartBody, Goto, Stop
<1>3. /\ job.limit \in Int /\ job.start \in Int /\ i \in Int /\ Lanes \in Nat \ {0} /\ Copies \in 1..4
  BY <1>1, HeaderType, LanesType, CopiesType DEF TypeOK
<1>4. i < job.limit
  <2>1. Copies * Lanes \in Nat \ {0}
    BY <1>3
  <2> QED
    BY <1>2, <1>3, <2>1
<1>5. Pos' = i
  BY <1>2, <1>3 DEF Pos
<1>6. Prefix = After(job, i)
  BY <1>1, <1>3, <1>4, PrefixIs DEF Prefix
<1>7. mem = After(job, i).mem /\ ~After(job, i).panicked
  BY <1>1, <1>6 DEF ScalarPrefix
<1>8. Copies' = Copies
  BY <1>2, JobOnly
<1>9. LengthAt(job, i, n')
  BY <1>1, <1>2 DEF LengthAt, Inv, ControlInv
<1>10. Full(job.body) => (n' = Copies * Lanes \/ (n' = Lanes /\ copy' = 0)) /\ i + n' <= job.limit
  BY <1>1, <1>2
<1> QED
  BY <1>2, <1>4, <1>5, <1>7, <1>8, <1>9, <1>10 DEF LaneInv

(* Every lane of a chunk stays where the iteration at its index is.        *)
LEMMA LaneStep ==
  ASSUME Inv, ShortInv, HeldInv, LaneInv, ScalarPrefix, [Next]_vars PROVE LaneInv'
<1>1. CASE UNCHANGED vars
  <2>1. /\ pc' = pc /\ job' = job /\ i' = i /\ copy' = copy /\ n' = n /\ k' = k /\ mem' = mem
        /\ temps' = temps /\ loaded' = loaded
    BY <1>1 DEF vars
  <2>2. Pos' = Pos /\ Copies' = Copies
    BY <2>1, JobOnly DEF Pos
  <2>3. Inside(Pos)' = Inside(Pos)
    BY <2>1, <2>2, InsideSame
  <2> QED
    BY <2>1, <2>2, <2>3 DEF LaneInv
<1>2. CASE Hoist \/ OverlapCheck \/ LengthCheck \/ CopyCall \/ CountTest
  <2>1. pc' \notin {"load", "statement"}
    BY <1>2 DEF Hoist, OverlapCheck, LengthCheck, CopyCall, CountTest, Stop, Goto, LoopLabel
  <2> QED
    BY <2>1 DEF LaneInv
<1>3. CASE VectorPanic \/ Advance \/ MergeCopy \/ FoldLane \/ NextFold \/ Remainder
  <2>1. pc' \notin {"load", "statement"}
    BY <1>3 DEF VectorPanic, Advance, MergeCopy, FoldLane, NextFold, Remainder, Combining, Stop, Goto
  <2> QED
    BY <2>1 DEF LaneInv
<1>4. CASE ScalarBegin \/ ScalarStatement \/ ScalarAdvance \/ (pc \in {"done", "panic"} /\ pc' = pc)
  <2>1. pc' \notin {"load", "statement"}
    BY <1>4 DEF ScalarBegin, ScalarStatement, ScalarAdvance, Stop, Goto
  <2> QED
    BY <2>1 DEF LaneInv
<1>5. CASE ChunkTest \/ MainTest \/ SingleTest
  BY <1>5, LaneStart
<1>6. CASE LoadAhead \/ VectorLet \/ VectorFold \/ VectorStore \/ NextCopy
  BY <1>6, LaneLoadAhead, LaneLet, LaneFold, LaneStore, LaneNextCopy
<1> QED
  BY <1>1, <1>2, <1>3, <1>4, <1>5, <1>6 DEF Next, Terminated, vars

(* Before the first chunk nothing happened yet.                            *)
LEMMA StartStep == ASSUME Inv, StartInv, [Next]_vars PROVE StartInv'
<1> SUFFICES ASSUME mode' = "vector", pc' \in {"hoist", "overlap", "check", "copy", "count"}
             PROVE  mem' = Mem0 /\ i' = job'.start
  BY DEF StartInv
<1>1. job' = job /\ mem' = mem /\ i' = i /\ mode = "vector" /\ pc \in {"hoist", "overlap", "check", "copy", "count"}
  BY DEF Next, vars, Hoist, OverlapCheck, LengthCheck, CopyCall, ChunkTest, CountTest, MainTest,
         SingleTest, LoadAhead, VectorLet, VectorFold, VectorStore, VectorPanic, NextCopy, Advance,
         MergeCopy, FoldLane, NextFold, Remainder, ScalarBegin, ScalarStatement, ScalarAdvance,
         Terminated, Stop, StartBody, Goto, Running, Combining, LoopLabel
<1> QED
  BY <1>1 DEF StartInv

(* Every step keeps ScalarPrefix.                                          *)
LEMMA PrefixStep ==
  ASSUME Inv, ShortInv, HeldInv, StartInv, LaneInv, ScalarPrefix, [Next]_vars PROVE ScalarPrefix'
<1> SUFFICES ASSUME mode' = "vector", pc' \in {"test", "main"} PROVE ~Prefix'.panicked /\ mem' = Prefix'.mem
  BY DEF ScalarPrefix
<1>1. job' = job /\ JobOK(job) /\ job.start \in Int /\ job.limit \in Int
  BY JobKept, HeaderType DEF Inv
<1>2. CASE LengthCheck \/ CountTest
  <2>1. i' = i /\ mem' = mem /\ mode = "vector" /\ pc \in {"check", "count"}
    BY <1>2 DEF LengthCheck, CountTest, Stop, Goto
  <2>2. i' = job.start /\ mem' = Mem0
    BY <2>1 DEF StartInv
  <2>3. Prefix' = After(job, job.start)
    <3>1. Prefix' = LET done == job.start - job.start
                    IN  Run(job, 1)[IF done < Iterations(job) THEN done ELSE Iterations(job)]
      BY <1>1, <2>2 DEF Prefix
    <3>2. (IF job.start < job.limit THEN job.start
           ELSE IF job.start < job.limit THEN job.limit ELSE job.start) = job.start
      OBVIOUS
    <3> QED
      BY <1>1, <3>1, <3>2, PrefixIs
  <2> QED
    BY <1>1, <2>2, <2>3, RunIs DEF InitialState
<1>3. CASE Advance
  <2> DEFINE at == IF i' < job.limit THEN i' ELSE IF job.start < job.limit THEN job.limit ELSE job.start
  <2>1. /\ i' \in Int /\ i' >= job.start
        /\ mem = After(job, at).mem /\ ~After(job, at).panicked
    BY <1>3, ChunkEnd
  <2>2. Prefix' = After(job, at)
    <3>1. Prefix' = LET done == i' - job.start
                    IN  Run(job, 1)[IF done < Iterations(job) THEN done ELSE Iterations(job)]
      BY <1>1 DEF Prefix
    <3> QED
      BY <1>1, <2>1, <3>1, PrefixIs
  <2>3. mem' = mem
    BY <1>3 DEF Advance
  <2> QED
    BY <2>1, <2>2, <2>3
<1>4. CASE UNCHANGED vars
  <2>1. Prefix' = Prefix /\ mem' = mem /\ mode = "vector" /\ pc \in {"test", "main"}
    BY <1>4 DEF vars, Prefix
  <2> QED
    BY <2>1 DEF ScalarPrefix
<1>5. CASE Hoist \/ OverlapCheck \/ CopyCall \/ ChunkTest \/ MainTest \/ SingleTest \/ LoadAhead
  BY <1>5 DEF Hoist, OverlapCheck, CopyCall, ChunkTest, MainTest, SingleTest, LoadAhead, Stop, Goto,
              StartBody
<1>6. CASE VectorLet \/ VectorFold \/ VectorStore \/ VectorPanic \/ NextCopy
  BY <1>6 DEF VectorLet, VectorFold, VectorStore, VectorPanic, NextCopy, Running, Stop, Goto, StartBody
<1>7. CASE MergeCopy \/ FoldLane \/ NextFold \/ Remainder
  BY <1>7 DEF MergeCopy, FoldLane, NextFold, Remainder, Combining, Goto
<1>8. CASE ScalarBegin \/ ScalarStatement \/ ScalarAdvance \/ (pc \in {"done", "panic"} /\ pc' = pc)
  BY <1>8 DEF ScalarBegin, ScalarStatement, ScalarAdvance, Stop, Goto
<1> QED
  BY <1>2, <1>3, <1>4, <1>5, <1>6, <1>7, <1>8 DEF Next, Terminated, vars

(* A chunk done statement by statement is the iterations done one by one:  *)
(* between two chunks memory is what the source loop run forward up to _i  *)
(* leaves, which did not panic, for every job, vector length and memory.   *)
THEOREM ChunksKeepOrder == Spec => []ScalarPrefix
<1>1. Init => ShortInv /\ HeldInv /\ StartInv /\ LaneInv /\ ScalarPrefix
  BY DEF Init, ShortInv, HeldInv, StartInv, LaneInv, ScalarPrefix
<1>2. /\ Inv /\ ShortInv /\ HeldInv /\ StartInv /\ LaneInv /\ ScalarPrefix /\ [Next]_vars
      => (ShortInv /\ HeldInv /\ StartInv /\ LaneInv /\ ScalarPrefix)'
  BY ShortStep, HeldStep, StartStep, LaneStep, PrefixStep
<1> QED
  BY <1>1, <1>2, Invariance, PTL DEF Spec
=============================================================================
