------------------------- MODULE PublicExportsProofs ------------------------
(***************************************************************************)
(* Theorems about PublicExports for any compiles of any packages: nothing  *)
(* is read for another package than is imported, and where nothing goes    *)
(* wrong every import is found and looked up once.                         *)
(***************************************************************************)
EXTENDS PublicExports, FiniteSetTheorems, WellFoundedInduction, TLAPS

(* A nonempty set of naturals has a least element: the line that ends      *)
(* first, and through it the last that starts.                             *)
LEMMA LeastNatural == ASSUME NEW S \in SUBSET Nat, S # {} PROVE \E x \in S : \A y \in S : x <= y
<1> DEFINE R == OpToRel(<, Nat)
<1>1. IsWellFoundedOn(R, Nat)
  BY NatLessThanWellFounded
<1>2. \A x, y \in S : y < x => <<y, x>> \in R
  BY DEF OpToRel
<1> HIDE DEF R
<1>3. PICK x \in S : \A y \in S : <<y, x>> \notin R
  BY <1>1, WFMin
<1>4. \A y \in S : ~(y < x)
  BY <1>2, <1>3, Zenon
<1> QED
  BY <1>4

Token ==
  {PathToken(x) : x \in Paths} \union {DirToken(x) : x \in Paths} \union {RestToken(x) : x \in Paths}
    \union {Equals, Newline}

(* The tokens can be told apart.                                           *)
LEMMA TokenKinds ==
  ASSUME NEW x \in Paths, NEW y \in Paths
  PROVE  /\ PathToken(x) # Equals /\ PathToken(x) # Newline
         /\ PathToken(x) # DirToken(y) /\ PathToken(x) # RestToken(y)
         /\ Equals # Newline /\ DirToken(x) # Equals /\ DirToken(x) # Newline
         /\ RestToken(x) # Equals /\ RestToken(x) # Newline /\ DirToken(x) # RestToken(y)
         /\ PathToken(x) = PathToken(y) => x = y
         /\ DirToken(x) = DirToken(y) => x = y
  BY ExportsAssumption DEF PathToken, DirToken, RestToken, Equals, Newline

LEMMA FileKinds ==
  ASSUME NEW x \in Paths, NEW y \in Paths
  PROVE  /\ FileOf(x) = FileOf(y) => x = y
         /\ FileOf(x) \in Seq(Token) /\ Len(FileOf(x)) = 2
         /\ FileOf(x)[1] = DirToken(x) /\ FileOf(x)[2] = RestToken(x)
<1>1. DirToken(x) \in Token /\ RestToken(x) \in Token
  BY DEF Token
<1>2. FileOf(x) = FileOf(y) => DirToken(x) = DirToken(y)
  BY DEF FileOf
<1> QED
  BY <1>1, <1>2, TokenKinds DEF FileOf

LEMMA LineTokens ==
  ASSUME NEW x \in Paths
  PROVE  /\ Line(x)[1] = PathToken(x) /\ Line(x)[2] = Equals /\ Line(x)[3] = DirToken(x)
         /\ Line(x)[4] = RestToken(x) /\ Line(x)[5] = Newline
         /\ \A n \in 1..5 : Line(x)[n] \in Token
<1>1. /\ Line(x)[1] = PathToken(x) /\ Line(x)[2] = Equals /\ Line(x)[3] = DirToken(x)
      /\ Line(x)[4] = RestToken(x) /\ Line(x)[5] = Newline
  BY DEF Line
<1>2. PathToken(x) \in Token /\ Equals \in Token /\ DirToken(x) \in Token /\ RestToken(x) \in Token /\ Newline \in Token
  BY DEF Token
<1> QED
  BY <1>1, <1>2

-----------------------------------------------------------------------------
(* Five tokens for each path.                                              *)
LEMMA SpreadIs ==
  ASSUME NEW o \in Seq(Paths)
  PROVE  /\ Spread(o) \in Seq(Token) /\ Len(Spread(o)) = 5 * Len(o)
         /\ \A j \in 1..Len(o) :
              /\ Spread(o)[5 * j - 4] = PathToken(o[j]) /\ Spread(o)[5 * j - 3] = Equals
              /\ Spread(o)[5 * j - 2] = DirToken(o[j]) /\ Spread(o)[5 * j - 1] = RestToken(o[j])
              /\ Spread(o)[5 * j] = Newline
<1>0. Len(o) \in Nat /\ \A j \in 1..Len(o) : o[j] \in Paths
  OBVIOUS
<1>1. \A n \in 1..5 * Len(o) : ((n - 1) \div 5) + 1 \in 1..Len(o) /\ ((n - 1) % 5) + 1 \in 1..5
  BY <1>0
<1>2. /\ DOMAIN Spread(o) = 1..5 * Len(o)
      /\ \A n \in 1..5 * Len(o) : Spread(o)[n] = Line(o[((n - 1) \div 5) + 1])[((n - 1) % 5) + 1]
      /\ Spread(o) = [n \in 1..5 * Len(o) |-> Spread(o)[n]]
  BY DEF Spread, Width
<1>3. \A n \in 1..5 * Len(o) : Spread(o)[n] \in Token
  BY <1>0, <1>1, <1>2, LineTokens
<1>4. 5 * Len(o) \in Nat
  BY <1>0
<1>5. Spread(o) \in Seq(Token) /\ Len(Spread(o)) = 5 * Len(o)
  BY <1>2, <1>3, <1>4
<1>6. ASSUME NEW j \in 1..Len(o), NEW c \in 0..4
      PROVE  Spread(o)[5 * j - c] = Line(o[j])[5 - c]
  <2>1. 5 * j - c \in 1..5 * Len(o)
    BY <1>0
  <2>2. (5 * j - c - 1) \div 5 = j - 1 /\ (5 * j - c - 1) % 5 = 4 - c
    BY <1>0
  <2>3. Spread(o)[5 * j - c] = Line(o[((5 * j - c - 1) \div 5) + 1])[((5 * j - c - 1) % 5) + 1]
    BY <1>2, <2>1
  <2>4. j - 1 + 1 = j /\ 4 - c + 1 = 5 - c
    BY <1>0
  <2> QED
    BY <2>2, <2>3, <2>4
<1>7. ASSUME NEW j \in 1..Len(o)
      PROVE  /\ Spread(o)[5 * j - 4] = Line(o[j])[1] /\ Spread(o)[5 * j - 3] = Line(o[j])[2]
             /\ Spread(o)[5 * j - 2] = Line(o[j])[3] /\ Spread(o)[5 * j - 1] = Line(o[j])[4]
             /\ Spread(o)[5 * j] = Line(o[j])[5]
  <2>1. 5 * j - 0 = 5 * j
    BY <1>0
  <2> QED
    BY <1>6, <2>1
<1> QED
  BY <1>0, <1>5, <1>7, LineTokens

(* Every token belongs to the line of some path.                           *)
LEMMA InSomeLine ==
  ASSUME NEW o \in Seq(Paths), NEW n \in 1..Len(Spread(o))
  PROVE  \E j \in 1..Len(o) : n \in {5 * j - 4, 5 * j - 3, 5 * j - 2, 5 * j - 1, 5 * j}
<1>1. Len(o) \in Nat /\ n \in 1..5 * Len(o)
  BY SpreadIs
<1>2. ((n - 1) \div 5) + 1 \in 1..Len(o)
  BY <1>1
<1>3. PICK j \in 1..Len(o) : j = ((n - 1) \div 5) + 1
  BY <1>2
<1> QED
  BY <1>1, <1>3

(* A path begins a line, and its name stands two tokens further on.        *)
LEMMA PathBegins ==
  ASSUME NEW o \in Seq(Paths), NEW n \in 1..Len(Spread(o)), NEW x \in Paths, Spread(o)[n] = PathToken(x)
  PROVE  \E j \in 1..Len(o) : n = 5 * j - 4 /\ o[j] = x
<1>1. PICK j \in 1..Len(o) : n \in {5 * j - 4, 5 * j - 3, 5 * j - 2, 5 * j - 1, 5 * j}
  BY InSomeLine
<1>2. o[j] \in Paths
  OBVIOUS
<1>3. n = 5 * j - 4
  <2>1. /\ Spread(o)[5 * j - 3] = Equals /\ Spread(o)[5 * j - 2] = DirToken(o[j])
        /\ Spread(o)[5 * j - 1] = RestToken(o[j]) /\ Spread(o)[5 * j] = Newline
    BY SpreadIs
  <2>2. /\ PathToken(x) # Equals /\ PathToken(x) # DirToken(o[j])
        /\ PathToken(x) # RestToken(o[j]) /\ PathToken(x) # Newline
    BY <1>2, TokenKinds
  <2> QED
    BY <1>1, <2>1, <2>2
<1>4. PathToken(o[j]) = PathToken(x)
  BY <1>3, SpreadIs
<1> QED
  BY <1>2, <1>3, <1>4, TokenKinds

LEMMA ConcatIs ==
  ASSUME NEW s \in Seq(Token), NEW t \in Seq(Token)
  PROVE  /\ s \o t \in Seq(Token) /\ Len(s \o t) = Len(s) + Len(t)
         /\ \A n \in 1..Len(s) : (s \o t)[n] = s[n]
         /\ \A n \in 1..Len(t) : (s \o t)[Len(s) + n] = t[n]
  OBVIOUS

LEMMA WholeLines ==
  ASSUME NEW i \in Nat, NEW m \in Nat
  PROVE  (5 * i + m) \div 5 = i + (m \div 5) /\ (5 * i + m) % 5 = m % 5
<1>1. PICK q \in Nat, r \in 0..4 : m = 5 * q + r
  <2>1. m \div 5 \in Nat /\ m % 5 \in 0..4 /\ m = 5 * (m \div 5) + (m % 5)
    OBVIOUS
  <2> QED
    BY <2>1
<1>2. 5 * i + m = 5 * (i + q) + r
  BY <1>1
<1>3. \A d \in Nat : (5 * d + r) \div 5 = d /\ (5 * d + r) % 5 = r
  OBVIOUS
<1>4. i + q \in Nat
  OBVIOUS
<1> QED
  BY <1>1, <1>2, <1>3, <1>4

(* The lines of one sequence of paths after those of another.              *)
LEMMA SpreadConcat ==
  ASSUME NEW a \in Seq(Paths), NEW b \in Seq(Paths)
  PROVE  Spread(a) \o Spread(b) = Spread(a \o b)
<1> DEFINE c == a \o b
           s == Spread(a) \o Spread(b)
<1>1. /\ c \in Seq(Paths) /\ Len(c) = Len(a) + Len(b) /\ Len(a) \in Nat /\ Len(b) \in Nat
      /\ \A j \in 1..Len(a) : c[j] = a[j]
      /\ \A j \in 1..Len(b) : c[Len(a) + j] = b[j]
  OBVIOUS
<1> HIDE DEF c
<1>2. /\ Spread(a) \in Seq(Token) /\ Spread(b) \in Seq(Token) /\ Spread(c) \in Seq(Token)
      /\ Len(Spread(a)) = 5 * Len(a) /\ Len(Spread(b)) = 5 * Len(b) /\ Len(Spread(c)) = 5 * Len(c)
  BY <1>1, SpreadIs
<1>3. /\ s \in Seq(Token) /\ Len(s) = 5 * Len(a) + 5 * Len(b)
      /\ \A n \in 1..5 * Len(a) : s[n] = Spread(a)[n]
      /\ \A n \in 1..5 * Len(b) : s[5 * Len(a) + n] = Spread(b)[n]
  <2> DEFINE u == Spread(a)
             v == Spread(b)
  <2>1. u \in Seq(Token) /\ v \in Seq(Token) /\ Len(u) = 5 * Len(a) /\ Len(v) = 5 * Len(b) /\ s = u \o v
    BY <1>2
  <2> HIDE DEF u, v, s
  <2>2. /\ u \o v \in Seq(Token) /\ Len(u \o v) = Len(u) + Len(v)
        /\ \A n \in 1..Len(u) : (u \o v)[n] = u[n]
        /\ \A n \in 1..Len(v) : (u \o v)[Len(u) + n] = v[n]
    BY <2>1, ConcatIs
  <2> QED
    BY <2>1, <2>2 DEF u, v
<1> HIDE DEF s
<1>4. \A o \in Seq(Paths) : \A n \in 1..5 * Len(o) :
        Spread(o)[n] = Line(o[((n - 1) \div 5) + 1])[((n - 1) % 5) + 1]
  BY DEF Spread, Width
<1>5. ASSUME NEW n \in 1..5 * Len(a) PROVE s[n] = Spread(c)[n]
  <2> DEFINE q == ((n - 1) \div 5) + 1
             r == ((n - 1) % 5) + 1
  <2>1. q \in 1..Len(a) /\ n \in 1..5 * Len(c)
    BY <1>1
  <2>2. Spread(a)[n] = Line(a[q])[r] /\ Spread(c)[n] = Line(c[q])[r]
    BY <1>1, <1>4, <2>1
  <2> HIDE DEF q, r
  <2> QED
    BY <1>1, <1>3, <2>1, <2>2
<1>6. ASSUME NEW n \in 1..5 * Len(b) PROVE s[5 * Len(a) + n] = Spread(c)[5 * Len(a) + n]
  <2> DEFINE q == ((n - 1) \div 5) + 1
             r == ((n - 1) % 5) + 1
  <2>1. q \in 1..Len(b) /\ 5 * Len(a) + n \in 1..5 * Len(c)
    BY <1>1
  <2>2. 5 * Len(a) + n - 1 = 5 * Len(a) + (n - 1) /\ n - 1 \in Nat
    BY <1>1
  <2>3. /\ (5 * Len(a) + n - 1) \div 5 = Len(a) + ((n - 1) \div 5)
        /\ (5 * Len(a) + n - 1) % 5 = (n - 1) % 5
    BY <1>1, <2>2, WholeLines
  <2>w. (Len(a) + ((n - 1) \div 5)) + 1 = Len(a) + q
    BY <1>1
  <2>4. Spread(b)[n] = Line(b[q])[r] /\ Spread(c)[5 * Len(a) + n] = Line(c[Len(a) + q])[r]
    <3>1. Spread(b)[n] = Line(b[q])[r]
      BY <1>4
    <3>2. c \in Seq(Paths) /\ 5 * Len(a) + n \in 1..5 * Len(c)
      BY <1>1, <2>1
    <3>3. Spread(c)[5 * Len(a) + n]
            = Line(c[((5 * Len(a) + n - 1) \div 5) + 1])[((5 * Len(a) + n - 1) % 5) + 1]
      BY <1>4, <3>2
    <3> QED
      BY <2>3, <2>w, <3>1, <3>3
  <2> HIDE DEF q, r
  <2> QED
    BY <1>1, <1>3, <2>1, <2>4
<1>7. ASSUME NEW n \in 1..Len(s) PROVE s[n] = Spread(c)[n]
  <2>1. CASE n \in 1..5 * Len(a)
    BY <1>5, <2>1
  <2>2. CASE n \notin 1..5 * Len(a)
    <3>1. PICK m \in 1..5 * Len(b) : n = 5 * Len(a) + m
      <4>1. n - 5 * Len(a) \in 1..5 * Len(b) /\ n = 5 * Len(a) + (n - 5 * Len(a))
        BY <1>1, <1>3, <2>2
      <4> QED
        BY <4>1
    <3> QED
      BY <1>6, <3>1
  <2> QED
    BY <2>1, <2>2
<1>8. Len(s) = Len(Spread(c))
  BY <1>1, <1>2, <1>3
<1>9. s = Spread(c)
  <2> DEFINE t == Spread(c)
  <2>1. s \in Seq(Token) /\ t \in Seq(Token) /\ Len(s) = Len(t) /\ \A n \in 1..Len(s) : s[n] = t[n]
    BY <1>2, <1>3, <1>7, <1>8
  <2> HIDE DEF t
  <2>2. s = t
    BY <2>1
  <2> QED
    BY <2>2 DEF t
<1> QED
  BY <1>9 DEF s, c

-----------------------------------------------------------------------------
(* The paths of a set, in the order they are written.                      *)
LEMMA Ordered ==
  ASSUME NEW S \in SUBSET Paths, IsFiniteSet(S)
  PROVE  InOrder(S) \in Seq(Paths) /\ {InOrder(S)[j] : j \in 1..Len(InOrder(S))} = S
<1> DEFINE n == Cardinality(S)
<1>1. PICK m \in Nat : ExistsBijection(1..m, S)
  BY FS_NatBijection
<1>2. n = m
  BY <1>1, FS_CountingElements
<1>3. PICK o \in Bijection(1..n, S) : TRUE
  BY <1>1, <1>2 DEF ExistsBijection
<1>4. o \in [1..n -> S] /\ {o[j] : j \in 1..n} = S
  BY <1>3 DEF Bijection, Surjection, Injection
<1>5. InOrder(S) \in [1..n -> S] /\ {InOrder(S)[j] : j \in 1..n} = S
  BY <1>4, ZenonT(40) DEF InOrder
<1> HIDE DEF n
<1>6. InOrder(S) \in Seq(Paths) /\ Len(InOrder(S)) = n
  BY <1>1, <1>2, <1>5
<1> QED
  BY <1>5, <1>6

(* The largest and the smallest of a set of positions.                     *)
LEMMA LargestIn ==
  ASSUME NEW n \in Nat, NEW S \in SUBSET (1..n), S # {}
  PROVE  Max(S) \in S
<1> DEFINE R == {n - l : l \in S}
<1>1. R \in SUBSET Nat /\ R # {}
  OBVIOUS
<1>2. PICK r \in R : \A q \in R : r <= q
  BY <1>1, LeastNatural
<1>3. PICK l \in S : r = n - l
  BY <1>2
<1>4. \A m \in S : l >= m
  <2> TAKE m \in S
  <2>1. n - m \in R
    OBVIOUS
  <2> QED
    BY <1>2, <1>3, <2>1
<1> QED
  BY <1>4 DEF Max

LEMMA SmallestIs ==
  ASSUME NEW S \in SUBSET Nat, NEW m \in S, \A y \in S : m <= y
  PROVE  Min(S) = m
<1>1. \A x \in S : (\A y \in S : x <= y) => x = m
  BY m \in Nat
<1> QED
  BY <1>1 DEF Min

-----------------------------------------------------------------------------
(* A name that stands where a path is said to be found is that path's own. *)
OwnNames(content) ==
  /\ content \in Seq(Token)
  /\ \A l \in 1..Len(content) : \A x, y \in Paths :
       (l + 2 <= Len(content) /\ content[l] = PathToken(x) /\ content[l + 1] = Equals /\ content[l + 2] = DirToken(y))
         => x = y

(* Lines that are cut short leave it so, whatever comes after them.        *)
LEMMA CutLines ==
  ASSUME NEW content, OwnNames(content), NEW o \in Seq(Paths), NEW n \in 0..Len(Spread(o))
  PROVE  OwnNames(content \o SubSeq(Spread(o), 1, n))
<1> DEFINE t == SubSeq(Spread(o), 1, n)
           c == content \o t
<1>1. content \in Seq(Token) /\ Spread(o) \in Seq(Token) /\ Len(Spread(o)) \in Nat
  BY SpreadIs DEF OwnNames
<1>2. t \in Seq(Token) /\ Len(t) = n /\ \A m \in 1..n : t[m] = Spread(o)[m]
  BY <1>1
<1> HIDE DEF t
<1>3. /\ c \in Seq(Token) /\ Len(c) = Len(content) + n /\ Len(content) \in Nat /\ n \in Nat
      /\ \A m \in 1..Len(content) : c[m] = content[m]
      /\ \A m \in 1..n : c[Len(content) + m] = t[m]
  <2>1. /\ c \in Seq(Token) /\ Len(c) = Len(content) + Len(t)
        /\ \A m \in 1..Len(content) : c[m] = content[m]
        /\ \A m \in 1..Len(t) : c[Len(content) + m] = t[m]
    BY <1>1, <1>2, ConcatIs
  <2> QED
    BY <1>1, <1>2, <2>1
<1> HIDE DEF c
<1>4. n >= 1 => \E z \in Paths : t[1] = PathToken(z)
  <2> HAVE n >= 1
  <2>1. Len(Spread(o)) = 5 * Len(o) /\ Len(o) \in Nat
    BY SpreadIs
  <2>2. 1 \in 1..Len(o) /\ o[1] \in Paths /\ 5 * 1 - 4 = 1 /\ 1 \in 1..n
    BY <2>1
  <2>3. Spread(o)[1] = PathToken(o[1])
    BY <2>2, SpreadIs
  <2> QED
    BY <1>2, <2>2, <2>3
<1>5. ASSUME NEW l \in 1..Len(c), NEW x \in Paths, NEW y \in Paths, l + 2 <= Len(c),
             c[l] = PathToken(x), c[l + 1] = Equals, c[l + 2] = DirToken(y)
      PROVE  x = y
  <2>1. CASE l + 2 <= Len(content)
    <3>1. l \in 1..Len(content) /\ l + 1 \in 1..Len(content) /\ l + 2 \in 1..Len(content)
      BY <1>3, <1>5, <2>1
    <3>2. content[l] = PathToken(x) /\ content[l + 1] = Equals /\ content[l + 2] = DirToken(y)
      BY <1>3, <1>5, <3>1
    <3> QED
      BY <2>1, <3>1, <3>2 DEF OwnNames
  <2>2. CASE l + 1 = Len(content)
    <3>1. c[l + 2] = t[1] /\ n >= 1
      BY <1>3, <1>5, <2>2
    <3> QED
      BY <1>4, <1>5, <3>1, TokenKinds
  <2>3. CASE l = Len(content)
    <3>1. c[l + 1] = t[1] /\ n >= 1
      BY <1>3, <1>5, <2>3
    <3> QED
      BY <1>4, <1>5, <3>1, TokenKinds
  <2>4. CASE l > Len(content)
    <3>1. PICK m \in 1..n : l = Len(content) + m /\ m + 2 <= n
      <4>1. l - Len(content) \in 1..n /\ l = Len(content) + (l - Len(content)) /\ l - Len(content) + 2 <= n
        BY <1>3, <1>5, <2>4
      <4> QED
        BY <4>1
    <3>2. m + 2 \in 1..n /\ l + 2 = Len(content) + (m + 2) /\ m \in 1..Len(Spread(o))
      BY <1>3, <3>1
    <3>3. Spread(o)[m] = PathToken(x) /\ Spread(o)[m + 2] = DirToken(y)
      BY <1>2, <1>3, <1>5, <3>1, <3>2
    <3>4. PICK j \in 1..Len(o) : m = 5 * j - 4 /\ o[j] = x
      BY <3>2, <3>3, PathBegins
    <3>5. Spread(o)[5 * j - 2] = DirToken(x) /\ m + 2 = 5 * j - 2
      BY <3>4, SpreadIs
    <3> QED
      BY <3>3, <3>5, TokenKinds
  <2> QED
    BY <1>3, <2>1, <2>2, <2>3, <2>4
<1>6. OwnNames(c)
  BY <1>3, <1>5 DEF OwnNames
<1> QED
  BY <1>6 DEF c, t

(* What a text says of a path begins after the equals sign of one of its   *)
(* lines and goes on to the end of that line.                              *)
EndOfLine(content, l) == Min({n \in l + 2..Len(content) : content[n] = Newline} \union {Len(content) + 1})

LEMMA KnownIs ==
  ASSUME NEW content \in Seq(Token), NEW x \in DOMAIN Known(content)
  PROVE  /\ x \in Paths
         /\ \E l \in LinesOf(content, x) :
              /\ l \in 1..Len(content) /\ l + 1 <= Len(content)
              /\ EndOfLine(content, l) \in l + 2..Len(content) + 1
              /\ Known(content)[x] = SubSeq(content, l + 2, EndOfLine(content, l) - 1)
<1> DEFINE L == LinesOf(content, x)
           l == Max(L)
           E == {n \in l + 2..Len(content) : content[n] = Newline} \union {Len(content) + 1}
<1>0. Len(content) \in Nat
  OBVIOUS
<1>1. x \in Paths /\ L # {}
  BY DEF Known
<1>2. \A m \in L : m \in 1..Len(content) /\ m + 1 <= Len(content)
  BY <1>0 DEF LinesOf
<1>3. l \in L
  BY <1>0, <1>1, <1>2, LargestIn
<1>4. Known(content)[x] = SubSeq(content, l + 2, EndOfLine(content, l) - 1)
  BY <1>1 DEF Known, EndOfLine
<1>5. EndOfLine(content, l) \in l + 2..Len(content) + 1
  <2> HIDE DEF l
  <2>1. E \in SUBSET Nat /\ E # {} /\ \A n \in E : n \in l + 2..Len(content) + 1
    BY <1>0, <1>2, <1>3
  <2> HIDE DEF E
  <2>2. PICK m \in E : \A n \in E : m <= n
    BY <2>1, LeastNatural
  <2>3. Min(E) = m
    BY <2>1, <2>2, SmallestIs
  <2> QED
    BY <2>1, <2>2, <2>3 DEF EndOfLine, E
<1> QED
  BY <1>1, <1>2, <1>3, <1>4, <1>5

(* It is the file of that path or no file at all.                          *)
LEMMA KnownIsOwn ==
  ASSUME NEW content, OwnNames(content), NEW x \in DOMAIN Known(content), Known(content)[x] \in Files
  PROVE  x \in Paths /\ Known(content)[x] = FileOf(x)
<1>0. content \in Seq(Token) /\ Len(content) \in Nat
  BY DEF OwnNames
<1>1. /\ x \in Paths
      /\ \E l \in LinesOf(content, x) :
           /\ l \in 1..Len(content) /\ l + 1 <= Len(content)
           /\ EndOfLine(content, l) \in l + 2..Len(content) + 1
           /\ Known(content)[x] = SubSeq(content, l + 2, EndOfLine(content, l) - 1)
  BY <1>0, KnownIs
<1>2. PICK l \in LinesOf(content, x) :
        /\ l \in 1..Len(content) /\ l + 1 <= Len(content)
        /\ EndOfLine(content, l) \in l + 2..Len(content) + 1
        /\ Known(content)[x] = SubSeq(content, l + 2, EndOfLine(content, l) - 1)
  BY <1>1
<1>3. PICK y \in Paths : Known(content)[x] = FileOf(y)
  BY DEF Files
<1>4. PICK e \in l + 2..Len(content) + 1 : e = EndOfLine(content, l)
  BY <1>2
<1>5. FileOf(y) = SubSeq(content, l + 2, e - 1) /\ Len(FileOf(y)) = 2 /\ FileOf(y)[1] = DirToken(y)
  BY <1>2, <1>3, <1>4, FileKinds
<1>6. l + 2 <= e - 1 /\ e - 1 <= Len(content)
  BY <1>0, <1>2, <1>4, <1>5
<1>7. SubSeq(content, l + 2, e - 1)[1] = content[l + 2]
  BY <1>0, <1>2, <1>4, <1>6
<1>8. content[l] = PathToken(x) /\ content[l + 1] = Equals /\ content[l + 2] = DirToken(y)
  BY <1>5, <1>7 DEF LinesOf
<1>9. x = y
  <2>1. x \in Paths /\ l \in 1..Len(content) /\ l + 2 <= Len(content)
    BY <1>0, <1>1, <1>2, <1>4, <1>6
  <2> QED
    BY <1>8, <2>1 DEF OwnNames
<1> QED
  BY <1>1, <1>3, <1>9

LEMMA PairIs ==
  ASSUME NEW s \in Seq(Token), NEW n \in 1..Len(s), n + 1 <= Len(s)
  PROVE  SubSeq(s, n, n + 1) = <<s[n], s[n + 1]>>
<1> DEFINE t == SubSeq(s, n, n + 1)
<1>1. t \in Seq(Token) /\ Len(t) = 2 /\ t[1] = s[n] /\ t[2] = s[n + 1]
  <2>1. n \in Nat /\ n >= 1 /\ n + 1 - n + 1 = 2 /\ Len(s) \in Nat
    OBVIOUS
  <2>2. Len(t) = 2 /\ t \in Seq(Token)
    BY <2>1
  <2>3. t[1] = s[n + 1 - 1] /\ t[2] = s[n + 2 - 1]
    BY <2>1
  <2>4. n + 1 - 1 = n /\ n + 2 - 1 = n + 1
    BY <2>1
  <2> QED
    BY <2>2, <2>3, <2>4
<1> HIDE DEF t
<1>2. t = <<s[n], s[n + 1]>>
  BY <1>1
<1> QED
  BY <1>2 DEF t

(* Of whole lines, every path written is known, by its file.               *)
LEMMA KnownOfLines ==
  ASSUME NEW o \in Seq(Paths)
  PROVE  /\ DOMAIN Known(Spread(o)) = {o[j] : j \in 1..Len(o)}
         /\ \A x \in DOMAIN Known(Spread(o)) : Known(Spread(o))[x] = FileOf(x)
<1> DEFINE t == Spread(o)
<1>0. /\ t \in Seq(Token) /\ Len(t) = 5 * Len(o) /\ Len(o) \in Nat
      /\ \A j \in 1..Len(o) :
           /\ o[j] \in Paths
           /\ t[5 * j - 4] = PathToken(o[j]) /\ t[5 * j - 3] = Equals
           /\ t[5 * j - 2] = DirToken(o[j]) /\ t[5 * j - 1] = RestToken(o[j]) /\ t[5 * j] = Newline
  BY SpreadIs
<1>1. ASSUME NEW x \in Paths, NEW l \in LinesOf(t, x)
      PROVE  \E j \in 1..Len(o) : l = 5 * j - 4 /\ o[j] = x
  <2>1. l \in 1..Len(t) /\ t[l] = PathToken(x)
    BY <1>0 DEF LinesOf
  <2> QED
    BY <2>1, PathBegins
<1> HIDE DEF t
<1>2. ASSUME NEW j \in 1..Len(o) PROVE 5 * j - 4 \in LinesOf(t, o[j])
  <2>1. 5 * j - 4 \in 1..Len(t) - 1 /\ 5 * j - 4 + 1 = 5 * j - 3
    BY <1>0
  <2>2. 5 * j - 4 = 1 \/ t[5 * j - 4 - 1] = Newline
    <3>1. CASE j = 1
      BY <3>1
    <3>2. CASE j # 1
      <4>1. j - 1 \in 1..Len(o) /\ 5 * (j - 1) = 5 * j - 4 - 1
        BY <1>0, <3>2
      <4> QED
        BY <1>0, <4>1
    <3> QED
      BY <3>1, <3>2
  <2> QED
    BY <1>0, <2>1, <2>2 DEF LinesOf
<1>3. DOMAIN Known(t) = {x \in Paths : LinesOf(t, x) # {}}
  BY DEF Known
<1>4. DOMAIN Known(t) = {o[j] : j \in 1..Len(o)}
  <2>1. ASSUME NEW x \in DOMAIN Known(t) PROVE x \in {o[j] : j \in 1..Len(o)}
    BY <1>1, <1>3
  <2>2. ASSUME NEW j \in 1..Len(o) PROVE o[j] \in DOMAIN Known(t)
    BY <1>0, <1>2, <1>3
  <2> QED
    BY <2>1, <2>2
<1>5. ASSUME NEW x \in DOMAIN Known(t) PROVE Known(t)[x] = FileOf(x)
  <2>1. x \in Paths /\ \E l \in LinesOf(t, x) : Known(t)[x] = SubSeq(t, l + 2, EndOfLine(t, l) - 1)
    BY <1>0, KnownIs
  <2>2. PICK l \in LinesOf(t, x) : Known(t)[x] = SubSeq(t, l + 2, EndOfLine(t, l) - 1)
    BY <2>1
  <2>3. PICK j \in 1..Len(o) : l = 5 * j - 4 /\ o[j] = x
    BY <1>1, <2>1
  <2>4. l + 2 = 5 * j - 2 /\ 5 * j \in l + 2..Len(t) /\ l + 2 \in Nat
    BY <1>0, <2>3
  <2>5. EndOfLine(t, l) = 5 * j
    <3> DEFINE E == {n \in l + 2..Len(t) : t[n] = Newline} \union {Len(t) + 1}
    <3>1. E \in SUBSET Nat /\ 5 * j \in E
      BY <1>0, <2>4
    <3>2. ASSUME NEW n \in E PROVE 5 * j <= n
      <4>1. t[5 * j - 2] # Newline /\ t[5 * j - 1] # Newline
        BY <1>0, TokenKinds
      <4>2. n # 5 * j - 2 /\ n # 5 * j - 1
        <5>1. CASE n \in l + 2..Len(t) /\ t[n] = Newline
          BY <4>1, <5>1
        <5>2. CASE n = Len(t) + 1
          BY <1>0, <5>2
        <5> QED
          BY <5>1, <5>2
      <4> QED
        BY <1>0, <2>4, <4>2
    <3> HIDE DEF E
    <3>3. Min(E) = 5 * j
      BY <3>1, <3>2, SmallestIs
    <3> QED
      BY <3>3 DEF E, EndOfLine
  <2>6. Known(t)[x] = SubSeq(t, 5 * j - 2, 5 * j - 1)
    BY <2>2, <2>4, <2>5
  <2>7. 5 * j - 2 \in 1..Len(t) /\ 5 * j - 2 + 1 = 5 * j - 1 /\ 5 * j - 1 <= Len(t)
    BY <1>0
  <2>8. SubSeq(t, 5 * j - 2, 5 * j - 1) = <<t[5 * j - 2], t[5 * j - 1]>>
    <3>1. SubSeq(t, 5 * j - 2, 5 * j - 2 + 1) = <<t[5 * j - 2], t[5 * j - 2 + 1]>>
      BY <1>0, <2>7, PairIs
    <3> QED
      BY <2>7, <3>1
  <2> QED
    BY <1>0, <2>3, <2>6, <2>8 DEF FileOf
<1> QED
  BY <1>4, <1>5 DEF t

-----------------------------------------------------------------------------
(* What is kept for each process.                                          *)
PerProcess ==
  /\ pc = [p \in Processes |-> pc[p]] /\ known = [p \in Processes |-> known[p]]
  /\ found = [p \in Processes |-> found[p]] /\ before = [p \in Processes |-> before[p]]
  /\ outcome = [p \in Processes |-> outcome[p]] /\ read = [p \in Processes |-> read[p]]

(* A process knows of a path its own file, or none that is one.            *)
KnownInv ==
  \A p \in Processes :
    /\ found[p] \subseteq Provides(p) /\ DOMAIN known[p] \subseteq Paths
    /\ \A x \in DOMAIN known[p] : known[p][x] \in Files => known[p][x] = FileOf(x)

(* Where nothing goes wrong the file is whole lines, and each process      *)
(* knows what was written when it read.                                    *)
SharedInv ==
  (troubled = {}) =>
    /\ \E o \in Seq(Paths) : text = Spread(o) /\ recorded = {o[j] : j \in 1..Len(o)}
    /\ \A p \in Processes :
         /\ \A x \in DOMAIN known[p] : known[p][x] = FileOf(x)
         /\ pc[p] = "read" => before[p] \subseteq recorded
         /\ pc[p] = "lookup" => before[p] \subseteq DOMAIN known[p]
         /\ pc[p] \in {"lock", "append", "import"} => Provides(p) \intersect Listed \subseteq DOMAIN known[p]
         /\ (pc[p] = "end" /\ \A i \in Config[p].imports : Imported(p, i) \in Listed \intersect Provides(p)) =>
              outcome[p] = "types"

Inv == PerProcess /\ OwnNames(text) /\ KnownInv /\ ReadsItsImports /\ SharedInv

LEMMA Provided == \A p \in Processes : Provides(p) \subseteq Paths /\ IsFiniteSet(Provides(p))
  BY ExportsAssumption DEF Provides, Paths

LEMMA InvInit == Init => Inv
<1> SUFFICES ASSUME Init PROVE Inv
  OBVIOUS
<1>1. PerProcess /\ ReadsItsImports
  BY DEF Init, PerProcess, ReadsItsImports
<1>2. OwnNames(text)
  BY DEF Init, OwnNames
<1>3. KnownInv
  BY DEF Init, KnownInv
<1>4. Spread(<<>>) = <<>> /\ <<>> \in Seq(Paths)
  BY DEF Spread, Width
<1>5. {<<>>[j] : j \in 1..Len(<<>>)} = {}
  OBVIOUS
<1>6. SharedInv
  <2>1. \E o \in Seq(Paths) : text = Spread(o) /\ recorded = {o[j] : j \in 1..Len(o)}
    BY <1>4, <1>5, Zenon DEF Init
  <2>2. \A p \in Processes : pc[p] = "start" /\ DOMAIN known[p] = {}
    BY DEF Init
  <2> QED
    BY <2>1, <2>2 DEF SharedInv
<1> QED
  BY <1>1, <1>2, <1>3, <1>6 DEF Inv

(* What a process appends, whole or cut short.                             *)
LEMMA Appended ==
  ASSUME Inv, NEW p \in Processes
  PROVE  \E o \in Seq(Paths) : Written(p) = Spread(o) /\ {o[j] : j \in 1..Len(o)} = found[p]
<1>1. found[p] \subseteq Paths /\ IsFiniteSet(found[p])
  BY Provided, FS_Subset DEF Inv, KnownInv
<1> QED
  BY <1>1, Ordered DEF Written

LEMMA OwnNamesKept == Inv /\ [Next]_vars => OwnNames(text)'
<1> SUFFICES ASSUME Inv, [Next]_vars PROVE OwnNames(text)'
  OBVIOUS
<1>1. CASE text' = text
  BY <1>1 DEF Inv, OwnNames
<1>2. ASSUME NEW p \in Processes, NEW n \in 0..Len(Written(p)), text' = text \o SubSeq(Written(p), 1, n)
      PROVE  OwnNames(text)'
  <2>1. PICK o \in Seq(Paths) : Written(p) = Spread(o)
    BY Appended
  <2>2. n \in 0..Len(Spread(o)) /\ text' = text \o SubSeq(Spread(o), 1, n)
    BY <1>2, <2>1
  <2>3. OwnNames(text \o SubSeq(Spread(o), 1, n))
    BY <2>2, CutLines DEF Inv
  <2> HIDE DEF Inv
  <2>4. ASSUME NEW t, t = text', OwnNames(t) PROVE OwnNames(text)'
    BY <2>4 DEF OwnNames
  <2> QED
    BY <2>2, <2>3, <2>4
<1>3. ASSUME NEW p \in Processes, AppendLines(p) PROVE OwnNames(text)'
  <2>1. PICK o \in Seq(Paths) : Written(p) = Spread(o)
    BY Appended
  <2>2. Len(Spread(o)) \in Nat /\ SubSeq(Spread(o), 1, Len(Spread(o))) = Spread(o)
    BY SpreadIs
  <2> QED
    BY <1>2, <1>3, <2>1, <2>2 DEF AppendLines
<1>4. ASSUME NEW p \in Processes, AppendFails(p) PROVE OwnNames(text)'
  <2>1. PICK n \in 0..Len(Written(p)) - 1 : text' = text \o SubSeq(Written(p), 1, n)
    BY <1>4 DEF AppendFails
  <2>2. Len(Written(p)) \in Nat
    BY Appended, SpreadIs
  <2>3. n \in 0..Len(Written(p))
    BY <2>1, <2>2
  <2> QED
    BY <1>2, <2>1, <2>3
<1> QED
  BY <1>1, <1>3, <1>4 DEF Next, Step, Fault, vars, FromArchives, LockToRead, Read, LookUp, LockToAppend, Import,
     OpenFails, ListFails, Kill, AllEnded

LEMMA PerProcessKept == Inv /\ [Next]_vars => PerProcess'
<1> SUFFICES ASSUME PerProcess, [Next]_vars PROVE PerProcess'
  BY DEF Inv
<1> USE DEF PerProcess, Goto, Learn, history
<1>1. CASE UNCHANGED vars
  BY <1>1 DEF vars
<1>2. ASSUME NEW p \in Processes, Step(p) PROVE PerProcess'
  <2>1. CASE FromArchives(p) \/ Read(p)
    BY <2>1 DEF FromArchives, Read
  <2>2. CASE LookUp(p)
    BY <2>2 DEF LookUp
  <2>3. CASE LockToRead(p) \/ LockToAppend(p)
    BY <2>3 DEF LockToRead, LockToAppend
  <2>4. CASE AppendLines(p)
    BY <2>4 DEF AppendLines
  <2>5. CASE Import(p)
    BY <2>5 DEF Import
  <2> QED
    BY <1>2, <2>1, <2>2, <2>3, <2>4, <2>5 DEF Step
<1>3. ASSUME NEW p \in Processes, Fault(p) PROVE PerProcess'
  <2>1. CASE OpenFails(p)
    BY <2>1 DEF OpenFails
  <2>2. CASE ListFails(p) \/ Kill(p)
    BY <2>2 DEF ListFails, Kill
  <2>3. CASE AppendFails(p)
    BY <2>3 DEF AppendFails
  <2> QED
    BY <1>3, <2>1, <2>2, <2>3 DEF Fault
<1> QED
  BY <1>1, <1>2, <1>3 DEF Next, AllEnded

(* What is learnt is from whole archives, from the file or from the go     *)
(* command.                                                                *)
LEMMA KnownKept == Inv /\ [Next]_vars => KnownInv'
<1> SUFFICES ASSUME Inv, [Next]_vars PROVE KnownInv'
  OBVIOUS
<1>0. \A q \in Processes : Provides(q) \subseteq Paths
  BY Provided
<1>1. CASE UNCHANGED <<known, found>>
  BY <1>1 DEF Inv, KnownInv
<1>2. ASSUME NEW p \in Processes, FromArchives(p) PROVE KnownInv'
  BY <1>0, <1>2 DEF FromArchives, Learn, Inv, KnownInv, PerProcess
<1>3. ASSUME NEW p \in Processes, Read(p) PROVE KnownInv'
  <2>1. \A x \in DOMAIN Known(text) : Known(text)[x] \in Files => Known(text)[x] = FileOf(x)
    BY KnownIsOwn DEF Inv
  <2>2. DOMAIN Known(text) \subseteq Paths
    BY DEF Known
  <2>3. known' = [known EXCEPT ![p] = Known(text)] /\ found' = found
    BY <1>3 DEF Read, Learn
  <2> QED
    BY <2>1, <2>2, <2>3 DEF Inv, KnownInv, PerProcess
<1>4. ASSUME NEW p \in Processes, LookUp(p) PROVE KnownInv'
  <2> DEFINE new == Missing(p) \intersect Listed
             files == [x \in DOMAIN known[p] \union new |-> IF x \in new THEN FileOf(x) ELSE known[p][x]]
  <2>1. found' = [found EXCEPT ![p] = new] /\ found'[p] = new
    BY <1>4 DEF LookUp, Inv, PerProcess
  <2>2. known' = [known EXCEPT ![p] = files]
    BY <1>4, <2>1 DEF LookUp, Learn
  <2>3. new \subseteq Provides(p) /\ DOMAIN files = DOMAIN known[p] \union new
    BY DEF Missing
  <2>4. \A x \in DOMAIN files : files[x] \in Files => files[x] = FileOf(x)
    BY DEF Inv, KnownInv
  <2> HIDE DEF new, files
  <2> QED
    BY <1>0, <2>1, <2>2, <2>3, <2>4 DEF Inv, KnownInv, PerProcess
<1> QED
  BY <1>1, <1>2, <1>3, <1>4 DEF Next, Step, Fault, vars, LockToRead, AppendLines, LockToAppend, Import,
     OpenFails, ListFails, AppendFails, Kill, AllEnded

(* Imports are looked up where they are mapped to.                         *)
LEMMA ImportsKept == Inv /\ [Next]_vars => ReadsItsImports'
<1> SUFFICES ASSUME Inv, [Next]_vars PROVE ReadsItsImports'
  OBVIOUS
<1>1. CASE UNCHANGED <<outcome, read>>
  BY <1>1 DEF Inv, ReadsItsImports
<1>2. ASSUME NEW p \in Processes, outcome' = [outcome EXCEPT ![p] = "fails"], read' = read PROVE ReadsItsImports'
  BY <1>2 DEF Inv, ReadsItsImports, PerProcess
<1>3. ASSUME NEW p \in Processes, Import(p) PROVE ReadsItsImports'
  <2> DEFINE imports == Config[p].imports
             Opens(i) == Mapped(p, i) \in DOMAIN known[p] /\ known[p][Mapped(p, i)] \in Files
             owners == [i \in imports |-> OwnerOf(known[p][Mapped(p, i)])]
  <2>1. CASE ~(\A i \in imports : Opens(i))
    <3>1. outcome' = [outcome EXCEPT ![p] = "fails"] /\ read' = read
      BY <1>3, <2>1 DEF Import
    <3> QED
      BY <1>2, <3>1
  <2>2. CASE \A i \in imports : Opens(i)
    <3>1. read' = [read EXCEPT ![p] = owners] /\ outcome' = [outcome EXCEPT ![p] = "types"]
      BY <1>3, <2>2 DEF Import
    <3>2. \A i \in imports : owners[i] = Imported(p, i)
      <4> TAKE i \in imports
      <4>1. Mapped(p, i) \in Paths /\ known[p][Mapped(p, i)] = FileOf(Mapped(p, i))
        BY <2>2 DEF Inv, KnownInv
      <4>2. OwnerOf(FileOf(Mapped(p, i))) = Mapped(p, i)
        BY <4>1, FileKinds DEF OwnerOf
      <4> QED
        BY <4>1, <4>2 DEF Mapped, Imported
    <3> HIDE DEF owners
    <3> QED
      BY <3>1, <3>2 DEF Inv, ReadsItsImports, PerProcess
  <2> QED
    BY <2>1, <2>2
<1> QED
  BY <1>1, <1>2, <1>3 DEF Next, Step, Fault, vars, FromArchives, LockToRead, Read, LookUp, AppendLines, LockToAppend,
     OpenFails, ListFails, AppendFails, Kill, AllEnded

(* SharedInv says of a process what it knows where it is.                  *)
Knows(p) ==
  /\ \A x \in DOMAIN known[p] : known[p][x] = FileOf(x)
  /\ pc[p] = "read" => before[p] \subseteq recorded
  /\ pc[p] = "lookup" => before[p] \subseteq DOMAIN known[p]
  /\ pc[p] \in {"lock", "append", "import"} => Provides(p) \intersect Listed \subseteq DOMAIN known[p]
  /\ (pc[p] = "end" /\ \A i \in Config[p].imports : Imported(p, i) \in Listed \intersect Provides(p)) =>
       outcome[p] = "types"
Lines == \E o \in Seq(Paths) : text = Spread(o) /\ recorded = {o[j] : j \in 1..Len(o)}

(* The other processes know what they knew.                                *)
LEMMA OthersKnow ==
  ASSUME NEW p \in Processes, NEW q \in Processes, Knows(q), recorded \subseteq recorded',
         known'[q] = known[q], pc'[q] = pc[q], before'[q] = before[q], outcome'[q] = outcome[q]
  PROVE  Knows(q)'
  BY DEF Knows, Imported, Provides

LEMMA RangeOfBoth ==
  ASSUME NEW o \in Seq(Paths), NEW w \in Seq(Paths)
  PROVE  {(o \o w)[j] : j \in 1..Len(o \o w)} = {o[j] : j \in 1..Len(o)} \union {w[j] : j \in 1..Len(w)}
<1>1. /\ Len(o \o w) = Len(o) + Len(w) /\ Len(o) \in Nat /\ Len(w) \in Nat
      /\ \A j \in 1..Len(o) : (o \o w)[j] = o[j]
      /\ \A j \in 1..Len(w) : (o \o w)[Len(o) + j] = w[j]
  OBVIOUS
<1>2. ASSUME NEW j \in 1..Len(o \o w)
      PROVE  (o \o w)[j] \in {o[m] : m \in 1..Len(o)} \union {w[m] : m \in 1..Len(w)}
  <2>1. CASE j <= Len(o)
    BY <1>1, <2>1
  <2>2. CASE j > Len(o)
    <3>1. j - Len(o) \in 1..Len(w) /\ Len(o) + (j - Len(o)) = j
      BY <1>1, <2>2
    <3> QED
      BY <1>1, <3>1
  <2> QED
    BY <1>1, <2>1, <2>2
<1>3. ASSUME NEW j \in 1..Len(o) PROVE o[j] \in {(o \o w)[m] : m \in 1..Len(o \o w)}
  BY <1>1
<1>4. ASSUME NEW j \in 1..Len(w) PROVE w[j] \in {(o \o w)[m] : m \in 1..Len(o \o w)}
  <2>1. Len(o) + j \in 1..Len(o \o w)
    BY <1>1
  <2> QED
    BY <1>1, <2>1
<1> QED
  BY <1>2, <1>3, <1>4

LEMMA SharedKept == Inv /\ [Next]_vars => SharedInv'
<1> SUFFICES ASSUME Inv, [Next]_vars, troubled' = {} PROVE Lines' /\ \A q \in Processes : Knows(q)'
  BY DEF SharedInv, Lines, Knows
<1>0. Lines \/ troubled # {}
  BY DEF Inv, SharedInv, Lines
<1>1. \A q \in Processes : Knows(q) \/ troubled # {}
  BY DEF Inv, SharedInv, Knows
<1>2. CASE UNCHANGED vars
  BY <1>0, <1>1, <1>2 DEF vars, history, Lines, Knows, Imported, Provides
<1>3. ASSUME NEW p \in Processes, Fault(p) PROVE FALSE
  BY <1>3 DEF Fault, OpenFails, ListFails, AppendFails, Kill
<1>4. ASSUME NEW p \in Processes, Step(p) PROVE Lines' /\ \A q \in Processes : Knows(q)'
  <2>0. troubled = {} /\ Lines /\ \A q \in Processes : Knows(q)
    BY <1>0, <1>1, <1>4 DEF Step, history, FromArchives, LockToRead, Read, LookUp, LockToAppend, AppendLines, Import
  <2> USE DEF Goto, Learn, history
  <2>1. ASSUME recorded \subseteq recorded', Knows(p)',
               \A q \in Processes : q # p => /\ known'[q] = known[q] /\ pc'[q] = pc[q]
                                             /\ before'[q] = before[q] /\ outcome'[q] = outcome[q]
        PROVE  \A q \in Processes : Knows(q)'
    <3> TAKE q \in Processes
    <3>1. CASE q = p
      BY <2>1, <3>1 DEF Knows, Imported, Provides
    <3>2. CASE q # p
      BY <2>0, <2>1, <3>2, OthersKnow
    <3> QED
      BY <3>1, <3>2
  <2>2. CASE FromArchives(p)
    <3>1. Lines' /\ recorded' = recorded
      BY <2>0, <2>2 DEF FromArchives, Lines
    <3>2. pc'[p] = "import" /\ known'[p] = [x \in Provides(p) |-> FileOf(x)]
      BY <2>2 DEF FromArchives, Inv, PerProcess
    <3>3. Knows(p)'
      BY <3>2 DEF Knows, Provides
    <3> QED
      BY <2>1, <2>2, <3>1, <3>3 DEF FromArchives, Inv, PerProcess
  <2>3. CASE LockToRead(p)
    <3>1. Lines' /\ recorded' = recorded
      BY <2>0, <2>3 DEF LockToRead, Lines
    <3>2. pc'[p] = "read" /\ known'[p] = known[p] /\ before'[p] = recorded
      BY <2>3 DEF LockToRead, Inv, PerProcess
    <3>3. Knows(p)'
      BY <2>0, <3>1, <3>2 DEF Knows
    <3> QED
      BY <2>1, <2>3, <3>1, <3>3 DEF LockToRead, Inv, PerProcess
  <2>4. CASE Read(p)
    <3>1. Lines' /\ recorded' = recorded /\ before' = before
      BY <2>0, <2>4 DEF Read, Lines
    <3>2. /\ pc[p] = "read" /\ known'[p] = Known(text)
          /\ pc'[p] = IF Provides(p) \subseteq DOMAIN Known(text) THEN "import" ELSE "lookup"
      BY <2>4 DEF Read, Inv, PerProcess
    <3>3. DOMAIN Known(text) = recorded /\ \A x \in DOMAIN Known(text) : Known(text)[x] = FileOf(x)
      BY <2>0, KnownOfLines DEF Lines
    <3>4. before[p] \subseteq recorded
      BY <2>0, <3>2 DEF Knows
    <3>5. Knows(p)'
      BY <3>1, <3>2, <3>3, <3>4 DEF Knows, Provides
    <3> QED
      BY <2>1, <2>4, <3>1, <3>5 DEF Read, Inv, PerProcess
  <2>5. CASE LookUp(p)
    <3> DEFINE new == Missing(p) \intersect Listed
               files == [x \in DOMAIN known[p] \union new |-> IF x \in new THEN FileOf(x) ELSE known[p][x]]
    <3>1. Lines' /\ recorded' = recorded
      BY <2>0, <2>5 DEF LookUp, Lines
    <3>2. found'[p] = new
      BY <2>5 DEF LookUp, Inv, PerProcess
    <3>3. pc'[p] = "lock" /\ known' = [known EXCEPT ![p] = files]
      BY <2>5, <3>2 DEF LookUp, Inv, PerProcess
    <3>4. DOMAIN files = DOMAIN known[p] \union new /\ \A x \in DOMAIN files : files[x] = FileOf(x)
      BY <2>0 DEF Knows
    <3>5. Provides(p) \intersect Listed \subseteq DOMAIN files
      BY <3>4 DEF Missing
    <3> HIDE DEF new, files
    <3>6. known'[p] = files
      BY <3>3 DEF Inv, PerProcess
    <3>7. Knows(p)'
      BY <3>3, <3>4, <3>5, <3>6 DEF Knows, Provides
    <3> QED
      BY <2>1, <2>5, <3>1, <3>3, <3>7 DEF LookUp, Inv, PerProcess
  <2>6. CASE LockToAppend(p)
    <3>1. Lines' /\ recorded' = recorded
      BY <2>0, <2>6 DEF LockToAppend, Lines
    <3>2. pc[p] = "lock" /\ pc'[p] = "append" /\ known'[p] = known[p]
      BY <2>6 DEF LockToAppend, Inv, PerProcess
    <3>3. Knows(p)'
      BY <2>0, <3>2 DEF Knows, Provides
    <3> QED
      BY <2>1, <2>6, <3>1, <3>3 DEF LockToAppend, Inv, PerProcess
  <2>7. CASE AppendLines(p)
    <3>1. PICK o \in Seq(Paths) : text = Spread(o) /\ recorded = {o[j] : j \in 1..Len(o)}
      BY <2>0 DEF Lines
    <3>2. PICK w \in Seq(Paths) : Written(p) = Spread(w) /\ {w[j] : j \in 1..Len(w)} = found[p]
      BY Appended
    <3>3. o \o w \in Seq(Paths) /\ text' = Spread(o \o w)
      <4>1. text' = Spread(o) \o Spread(w)
        BY <2>7, <3>1, <3>2 DEF AppendLines
      <4>2. o \o w \in Seq(Paths)
        OBVIOUS
      <4> QED
        BY <4>1, <4>2, SpreadConcat
    <3>4. recorded' = recorded \union found[p]
      BY <2>7 DEF AppendLines
    <3>5. {(o \o w)[j] : j \in 1..Len(o \o w)} = {o[j] : j \in 1..Len(o)} \union {w[j] : j \in 1..Len(w)}
      BY RangeOfBoth
    <3>6. Lines' /\ recorded \subseteq recorded'
      BY <3>1, <3>2, <3>3, <3>4, <3>5 DEF Lines
    <3>7. pc[p] = "append" /\ pc'[p] = "import" /\ known'[p] = known[p]
      BY <2>7 DEF AppendLines, Inv, PerProcess
    <3>8. Knows(p)'
      BY <2>0, <3>7 DEF Knows, Provides
    <3> QED
      BY <2>1, <2>7, <3>6, <3>8 DEF AppendLines, Inv, PerProcess
  <2>8. CASE Import(p)
    <3> DEFINE imports == Config[p].imports
               Opens(i) == Mapped(p, i) \in DOMAIN known[p] /\ known[p][Mapped(p, i)] \in Files
    <3>1. Lines' /\ recorded' = recorded
      BY <2>0, <2>8 DEF Import, Lines
    <3>2. pc[p] = "import" /\ pc'[p] = "end" /\ known'[p] = known[p]
      BY <2>8 DEF Import, Inv, PerProcess
    <3>3. ASSUME \A i \in imports : Imported(p, i) \in Listed \intersect Provides(p)
          PROVE  outcome'[p] = "types"
      <4>1. \A i \in imports : Opens(i)
        <5> TAKE i \in imports
        <5>1. Mapped(p, i) \in DOMAIN known[p] /\ Mapped(p, i) \in Paths
          BY <2>0, <3>2, <3>3, Provided DEF Knows, Mapped, Imported
        <5> QED
          BY <2>0, <5>1 DEF Knows, Files
      <4> QED
        BY <2>8, <4>1 DEF Import, Inv, PerProcess
    <3>4. Knows(p)'
      BY <2>0, <3>2, <3>3 DEF Knows, Provides, Imported
    <3>5. \A q \in Processes : q # p => outcome'[q] = outcome[q]
      BY <2>8 DEF Import, Inv, PerProcess
    <3> QED
      BY <2>1, <2>8, <3>1, <3>4, <3>5 DEF Import, Inv, PerProcess
  <2> QED
    BY <1>4, <2>2, <2>3, <2>4, <2>5, <2>6, <2>7, <2>8 DEF Step
<1> QED
  BY <1>2, <1>3, <1>4 DEF Next, AllEnded

LEMMA InvStep == Inv /\ [Next]_vars => Inv'
  BY PerProcessKept, OwnNamesKept, KnownKept, ImportsKept, SharedKept DEF Inv

-----------------------------------------------------------------------------
(* The invariant of the proofs.                                            *)
THEOREM Invariance == Spec => []Inv
  BY InvInit, InvStep, PTL DEF Spec

(* However many compiles share the file and whatever is cut short in it,   *)
(* none is type-checked against the export data of another package.        *)
THEOREM NoOtherImport == Spec => []ReadsItsImports
<1>1. Inv => ReadsItsImports
  BY DEF Inv
<1> QED
  BY <1>1, Invariance, PTL

(* Where nothing goes wrong every import that has export data is found.    *)
THEOREM EveryImportFound == Spec => []FindsEveryImport
<1>1. Inv => FindsEveryImport
  BY DEF Inv, SharedInv, FindsEveryImport
<1> QED
  BY <1>1, Invariance, PTL

(* Nothing is looked up that had been written when the file was read.      *)
THEOREM LookedUpOnce == Spec => []LooksUpOnce
<1>1. Inv => LooksUpOnce
  BY DEF Inv, SharedInv, LooksUpOnce, Missing
<1> QED
  BY <1>1, Invariance, PTL
=============================================================================
