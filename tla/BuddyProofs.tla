----------------------------- MODULE BuddyProofs -----------------------------
(* The buddy allocator for every range of frames, every MAX_ORDER below 15  *)
(* and every number of threads: the flags of a frame always mean what       *)
(* __buddy_free takes them to mean, and no frame is ever lost or in two     *)
(* places.                                                                  *)
EXTENDS Buddy, FiniteSetTheorems, SequenceTheorems, WellFoundedInduction, TLAPS

-----------------------------------------------------------------------------
(* Powers of two.                                                           *)

\* The orders that Size is applied to.
Shifts == 0 .. MaxOrder + 2

\* The smallest of some natural numbers.
LEMMA LeastIn ==
    ASSUME NEW S \in SUBSET Nat, S # {}
    PROVE  Least(S) \in S /\ \A x \in S : Least(S) <= x
<1>1. PICK a \in S : \A b \in S : <<b, a>> \notin OpToRel(<, Nat)
  BY WFMin, NatLessThanWellFounded
<1>2. ASSUME NEW b \in S, b < a  PROVE FALSE
  <2>1. <<b, a>> \in Nat \X Nat /\ <<b, a>>[1] = b /\ <<b, a>>[2] = a
    OBVIOUS
  <2>2. <<b, a>> \in OpToRel(<, Nat)
    BY <1>2, <2>1 DEF OpToRel
  <2> QED  BY <1>1, <2>2
<1>3. \A b \in S : a <= b
  BY <1>2
<1> QED  BY <1>3 DEF Least

\* f doubles from 1 up to n.
Doubles(f, n) ==
    /\ f \in [0 .. n -> Nat] /\ f[0] = 1
    /\ \A i \in 1 .. n : f[i] = 2 * f[i - 1]

\* The recursive definition of Pow2 defines a function: there is one for
\* every bound, hence one that satisfies the equation.
LEMMA PowersDouble == Doubles(Pow2, MaxOrder + 2)
<1> DEFINE S == {n \in Nat : ~ \E f : Doubles(f, n)}
<1>1. S = {}
  <2>1. SUFFICES ASSUME S # {}  PROVE FALSE
    OBVIOUS
  <2>2. PICK n \in S : \A x \in S : n <= x
    BY <2>1, LeastIn
  <2>3. CASE n = 0
    <3>1. Doubles([i \in 0 .. 0 |-> 1], 0)
      BY DEF Doubles
    <3> QED  BY <2>3, <3>1
  <2>4. CASE n # 0
    <3>1. n - 1 \in Nat /\ n - 1 \notin S /\ n \in Nat
      BY <2>2, <2>4
    <3>2. PICK f : Doubles(f, n - 1)
      BY <3>1
    <3> DEFINE g == [i \in 0 .. n |-> IF i = n THEN 2 * f[n - 1] ELSE f[i]]
    <3>3. g \in [0 .. n -> Nat] /\ g[0] = 1
      BY <2>4, <3>1, <3>2 DEF Doubles
    <3>4. \A i \in 1 .. n : g[i] = 2 * g[i - 1]
      <4>1. SUFFICES ASSUME NEW i \in 1 .. n  PROVE g[i] = 2 * g[i - 1]
        OBVIOUS
      <4>2. i - 1 \in 0 .. n /\ i - 1 # n /\ i \in 0 .. n /\ g[i - 1] = f[i - 1]
        BY <3>1
      <4>3. CASE i = n
        BY <4>2, <4>3
      <4>4. CASE i # n
        <5>1. i \in 1 .. n - 1 /\ g[i] = f[i]
          BY <3>1, <4>2, <4>4
        <5> QED  BY <3>2, <4>2, <5>1 DEF Doubles
      <4> QED  BY <4>3, <4>4
    <3>5. Doubles(g, n)
      BY <3>3, <3>4 DEF Doubles
    <3> QED  BY <2>2, <3>5
  <2> QED  BY <2>3, <2>4
<1>2. MaxOrder + 2 \in Nat
  BY BuddyAssumption
<1>3. PICK f : Doubles(f, MaxOrder + 2)
  BY <1>1, <1>2
<1> DEFINE step(g) == [o \in 0 .. MaxOrder + 2 |-> IF o = 0 THEN 1 ELSE 2 * g[o - 1]]
<1>4. f = step(f)
  BY <1>2, <1>3 DEF Doubles
<1>5. Pow2 = step(Pow2)
  BY <1>4 DEF Pow2
<1>6. Pow2[0] = 1 /\ \A i \in 1 .. MaxOrder + 2 : Pow2[i] = 2 * Pow2[i - 1]
  BY <1>2, <1>5
<1>7. \A i \in 0 .. MaxOrder + 2 : Pow2[i] \in Nat
  <2> DEFINE T == {i \in 0 .. MaxOrder + 2 : Pow2[i] \notin Nat}
  <2>1. SUFFICES ASSUME T # {}  PROVE FALSE
    OBVIOUS
  <2>5. T \in SUBSET Nat
    BY <1>2
  <2>2. PICK i \in T : \A x \in T : i <= x
    <3> HIDE DEF T
    <3> QED  BY <2>1, <2>5, LeastIn
  <2>3. i # 0 /\ i - 1 \in 0 .. MaxOrder + 2 /\ ~(i <= i - 1)
    BY <1>2, <1>6, <2>2
  <2>4. Pow2[i - 1] \in Nat
    BY <2>2, <2>3
  <2> QED  BY <1>2, <1>6, <2>2, <2>3, <2>4
<1>8. Pow2 \in [0 .. MaxOrder + 2 -> Nat]
  BY <1>5, <1>7
<1> QED  BY <1>6, <1>8 DEF Doubles

\* What a shift by one more does.
LEMMA Sizes2 ==
    /\ \A o \in Shifts : Size(o) \in Nat /\ Size(o) >= 1
    /\ Size(0) = 1
    /\ \A o \in Shifts : o + 1 \in Shifts => Size(o + 1) = Size(o) + Size(o)
    /\ \A o \in Orders : o \in Shifts /\ o + 1 \in Shifts /\ Size(o + 1) = Size(o) + Size(o)
<1>1. MaxOrder \in Nat
  BY BuddyAssumption
<1>2. \A o \in 1 .. MaxOrder + 2 : Size(o) = 2 * Size(o - 1)
  BY PowersDouble DEF Doubles, Size
<1>3. Size(0) = 1 /\ \A o \in Shifts : Size(o) \in Nat
  BY PowersDouble DEF Doubles, Size, Shifts
<1>6. \A o \in Orders : o \in Shifts /\ o + 1 \in Shifts
  BY <1>1 DEF Orders, Shifts
<1>4. \A o \in Shifts : o + 1 \in Shifts => Size(o + 1) = Size(o) + Size(o)
  <2>1. SUFFICES ASSUME NEW o \in Shifts, o + 1 \in Shifts
                 PROVE  Size(o + 1) = Size(o) + Size(o)
    OBVIOUS
  <2>2. o \in Nat /\ o + 1 \in 1 .. MaxOrder + 2 /\ (o + 1) - 1 = o
    BY <1>1, <2>1 DEF Shifts
  <2>3. Size(o + 1) = 2 * Size(o)
    BY <1>2, <2>2
  <2> QED  BY <1>3, <2>2, <2>3
<1>5. \A o \in Shifts : Size(o) >= 1
  <2> DEFINE T == {i \in Shifts : Size(i) = 0}
  <2>1. SUFFICES ASSUME T # {}  PROVE FALSE
    BY <1>3
  <2>5. T \in SUBSET Nat
    BY <1>1 DEF Shifts
  <2>2. PICK i \in T : \A x \in T : i <= x
    <3> HIDE DEF T
    <3> QED  BY <2>1, <2>5, LeastIn
  <2>3. i # 0 /\ i \in 1 .. MaxOrder + 2 /\ i - 1 \in Shifts /\ ~(i <= i - 1)
    BY <1>1, <1>3, <2>2 DEF Shifts
  <2>4. Size(i) = 2 * Size(i - 1) /\ Size(i - 1) \in Nat /\ Size(i - 1) # 0
    BY <1>2, <1>3, <2>2, <2>3
  <2> QED  BY <2>2, <2>4
<1> QED  BY <1>3, <1>4, <1>5, <1>6

\* A block is a multiple of every smaller one, and at least twice its size.
LEMMA SizeTimes ==
    ASSUME NEW o \in Shifts, NEW p \in Shifts, o <= p
    PROVE  /\ \E c \in Nat \ {0} : Size(p) = c * Size(o)
           /\ Size(o) <= Size(p)
           /\ o < p => Size(o) + Size(o) <= Size(p)
<1> DEFINE Good(q) == /\ \E c \in Nat \ {0} : Size(q) = c * Size(o)
                      /\ Size(o) <= Size(q)
                      /\ o < q => Size(o) + Size(o) <= Size(q)
           T == {q \in Shifts : o <= q /\ ~Good(q)}
<1>1. MaxOrder \in Nat /\ o \in Nat /\ p \in Nat
  BY BuddyAssumption DEF Shifts
<1>2. T = {}
  <2>1. SUFFICES ASSUME T # {}  PROVE FALSE
    OBVIOUS
  <2>5. T \in SUBSET Nat
    BY <1>1 DEF Shifts
  <2>2. PICK q \in T : \A x \in T : q <= x
    <3> HIDE DEF T
    <3> QED  BY <2>1, <2>5, LeastIn
  <2>3. CASE q = o
    <3>1. Size(o) = 1 * Size(o) /\ Size(o) <= Size(o)
      BY Sizes2
    <3> QED  BY <1>1, <2>2, <2>3, <3>1
  <2>4. CASE q # o
    <3>6. q \in Shifts /\ o <= q
      BY <2>2
    <3>1. /\ q - 1 \in Shifts /\ o <= q - 1 /\ ~(q <= q - 1)
          /\ q \in Nat /\ (q - 1) + 1 = q
      BY <1>1, <2>4, <3>6 DEF Shifts, Orders
    <3>2. Good(q - 1)
      BY <2>2, <3>1
    <3>3. PICK c \in Nat \ {0} : Size(q - 1) = c * Size(o)
      BY <3>2
    <3>4. Size(q) = Size(q - 1) + Size(q - 1) /\ Size(q - 1) \in Nat /\ Size(o) \in Nat
      BY <3>1, Sizes2
    <3>5. Size(q) = (2 * c) * Size(o) /\ 2 * c \in Nat \ {0}
      BY <3>3, <3>4
    <3>7. Good(q)
      BY <3>2, <3>4, <3>5
    <3> QED  BY <2>2, <3>7
  <2> QED  BY <2>3, <2>4
<1>3. p \notin T
  BY <1>2
<1> QED  BY <1>3

-----------------------------------------------------------------------------
(* Multiples of a power of two.                                             *)

Aligned(x, o) == \E a \in Int : x = a * Size(o)

\* Division by a positive number.
LEMMA Division ==
    ASSUME NEW x \in Int, NEW s \in Nat, s >= 1
    PROVE  /\ x \div s \in Int /\ (x % s) \in 0 .. s - 1 /\ x = (x \div s) * s + (x % s)
           /\ \A a \in Int, r \in 0 .. s - 1 : x = a * s + r => x \div s = a /\ (x % s) = r
<1>1. x \div s \in Int /\ (x % s) \in 0 .. s - 1 /\ x = (x \div s) * s + (x % s)
  OBVIOUS
<1>2. ASSUME NEW a \in Int, NEW r \in 0 .. s - 1, x = a * s + r
      PROVE  x \div s = a /\ (x % s) = r
  BY <1>2
<1> QED  BY <1>1, <1>2

\* Multiples of s are at least s apart.
LEMMA Apart2 ==
    ASSUME NEW a \in Int, NEW b \in Int, NEW s \in Nat, s >= 1, a * s < b * s
    PROVE  a < b /\ a * s + s <= b * s
<1>1. a < b
  <2>1. SUFFICES ASSUME b <= a  PROVE FALSE
    OBVIOUS
  <2>2. PICK d \in Nat : a = b + d
    <3>1. a - b \in Nat /\ a = b + (a - b)
      BY <2>1
    <3> QED  BY <3>1
  <2>3. a * s = b * s + d * s /\ d * s \in Nat /\ a * s \in Int /\ b * s \in Int
    BY <2>2
  <2> QED  BY <2>3
<1>2. PICK d \in Nat : b = (a + 1) + d
  <2>1. b - (a + 1) \in Nat /\ b = (a + 1) + (b - (a + 1))
    BY <1>1
  <2> QED  BY <2>1
<1>3. b * s = (a * s + s) + d * s /\ d * s \in Nat /\ a * s \in Int
  BY <1>2
<1> QED  BY <1>1, <1>3

\* Two different frames at multiples of a block size are a block apart.
LEMMA AlignedGap ==
    ASSUME NEW o \in Shifts, NEW x, NEW y, Aligned(x, o), Aligned(y, o), x < y
    PROVE  x + Size(o) <= y
<1>1. PICK a \in Int, b \in Int : x = a * Size(o) /\ y = b * Size(o)
  BY DEF Aligned
<1>2. Size(o) \in Nat /\ Size(o) >= 1
  BY Sizes2
<1> QED  BY <1>1, <1>2, Apart2

\* Multiples of a block size are closed under sum and difference.
LEMMA AlignedSum ==
    ASSUME NEW o \in Shifts, NEW x, NEW y, Aligned(x, o), Aligned(y, o)
    PROVE  x \in Int /\ y \in Int /\ Aligned(x + y, o) /\ Aligned(x - y, o)
<1>1. PICK a \in Int, b \in Int : x = a * Size(o) /\ y = b * Size(o)
  BY DEF Aligned
<1>2. Size(o) \in Nat
  BY Sizes2
<1>3. a + b \in Int /\ x + y = (a + b) * Size(o)
  BY <1>1, <1>2
<1>4. a - b \in Int /\ x - y = (a - b) * Size(o)
  BY <1>1, <1>2
<1>5. x \in Int /\ y \in Int
  BY <1>1, <1>2
<1> QED  BY <1>3, <1>4, <1>5 DEF Aligned

\* A multiple of a large block is one of every smaller block.
LEMMA AlignedLess ==
    ASSUME NEW o \in Shifts, NEW p \in Shifts, o <= p, NEW x, Aligned(x, p)
    PROVE  Aligned(x, o)
<1>1. PICK a \in Int : x = a * Size(p)
  BY DEF Aligned
<1>2. PICK c \in Nat \ {0} : Size(p) = c * Size(o)
  BY SizeTimes
<1>3. Size(o) \in Nat
  BY Sizes2
<1>4. a * (c * Size(o)) = (a * c) * Size(o) /\ a * c \in Int
  BY <1>2, <1>3
<1>5. x = (a * c) * Size(o) /\ a * c \in Int
  BY <1>1, <1>2, <1>4
<1> QED  BY <1>5 DEF Aligned

\* A larger block size is a multiple of a smaller one.
LEMMA AlignedSize ==
    ASSUME NEW o \in Shifts, NEW p \in Shifts, o <= p
    PROVE  Aligned(Size(p), o) /\ Aligned(0, o)
<1>1. PICK c \in Nat \ {0} : Size(p) = c * Size(o)
  BY SizeTimes
<1>2. Size(o) \in Nat /\ 0 = 0 * Size(o)
  BY Sizes2
<1> QED  BY <1>1, <1>2 DEF Aligned

\* Base(x, o) is the start of the block of order o that x lies in.
LEMMA BaseOf ==
    ASSUME NEW o \in Shifts, NEW x \in Int
    PROVE  /\ Base(x, o) \in Int /\ Aligned(Base(x, o), o)
           /\ Base(x, o) <= x /\ x < Base(x, o) + Size(o)
           /\ \A y : Aligned(y, o) /\ y <= x /\ x < y + Size(o) => y = Base(x, o)
           /\ Aligned(x, o) <=> (x % Size(o)) = 0
           /\ Aligned(x, o) <=> Base(x, o) = x
           /\ x >= 0 => Base(x, o) >= 0
<1>1. Size(o) \in Nat /\ Size(o) >= 1
  BY Sizes2
<1> DEFINE q == x \div Size(o)
           r == (x % Size(o))
<1>0. q \in Int /\ r \in 0 .. Size(o) - 1 /\ x = q * Size(o) + r
  BY <1>1, Division
<1> HIDE DEF q
<1>2. q \in Int /\ r \in 0 .. Size(o) - 1 /\ x = q * Size(o) + r /\ q * Size(o) \in Int
  BY <1>0, <1>1
<1>3. Base(x, o) = q * Size(o)
  BY <1>1, <1>2 DEF Base
<1>4. Aligned(Base(x, o), o)
  BY <1>2, <1>3 DEF Aligned
<1>5. Base(x, o) \in Int /\ Base(x, o) <= x /\ x < Base(x, o) + Size(o)
  <2> DEFINE m == q * Size(o)
  <2>1. m \in Int /\ x = m + r /\ r \in Int /\ 0 <= r /\ r <= Size(o) - 1
    BY <1>1, <1>2
  <2> HIDE DEF m, r
  <2>2. m <= x /\ x < m + Size(o)
    BY <1>1, <2>1
  <2> QED  BY <1>3, <2>1, <2>2 DEF m
<1>6. ASSUME NEW y, Aligned(y, o), y <= x, x < y + Size(o)  PROVE y = Base(x, o)
  <2>1. y \in Int
    BY <1>6, AlignedSum
  <2>2. ~(y < Base(x, o)) /\ ~(Base(x, o) < y)
    BY <1>1, <1>4, <1>5, <1>6, <2>1, AlignedGap
  <2> QED  BY <1>5, <2>1, <2>2
<1>7. Aligned(x, o) <=> Base(x, o) = x
  BY <1>1, <1>4, <1>6
<1>8. (x % Size(o)) = 0 <=> Base(x, o) = x
  BY <1>2, <1>3
<1>9. x >= 0 => Base(x, o) >= 0
  <2>1. SUFFICES ASSUME x >= 0, Base(x, o) < 0  PROVE FALSE
    BY <1>5
  <2>3. Aligned(0, o)
    <3>1. o <= o
      BY DEF Shifts
    <3> QED  BY <3>1, AlignedSize
  <2>2. Base(x, o) + Size(o) <= 0
    BY <1>4, <2>1, <2>3, AlignedGap
  <2> QED  BY <1>1, <1>5, <2>1, <2>2
<1> QED  BY <1>4, <1>5, <1>6, <1>7, <1>8, <1>9

Cells(x, o) == x .. x + Size(o) - 1

\* Of two blocks that meet, the smaller lies in the larger.
LEMMA Nested ==
    ASSUME NEW o \in Shifts, NEW p \in Shifts, o <= p, NEW x, NEW y,
           Aligned(x, o), Aligned(y, p), Cells(x, o) \cap Cells(y, p) # {}
    PROVE  Cells(x, o) \subseteq Cells(y, p)
<1>1. Aligned(y, o) /\ Aligned(y + Size(p), o)
  BY AlignedLess, AlignedSize, AlignedSum
<1>2. x \in Int /\ y \in Int /\ Size(o) \in Nat /\ Size(p) \in Nat
  BY <1>1, AlignedSum, Sizes2
<1>3. y <= x
  <2>1. SUFFICES ASSUME x < y  PROVE FALSE
    BY <1>2
  <2>2. x + Size(o) <= y
    BY <1>1, <2>1, AlignedGap
  <2> QED  BY <1>2, <2>2 DEF Cells
<1>4. x < y + Size(p)
  BY <1>2 DEF Cells
<1>5. x + Size(o) <= y + Size(p)
  BY <1>1, <1>4, AlignedGap
<1> QED  BY <1>2, <1>3, <1>5 DEF Cells

\* Bit o of n, and n without its bits from o up.
LEMMA Bits ==
    ASSUME NEW o \in Orders, NEW n \in Nat
    PROVE  /\ (n % Size(o)) \in 0 .. Size(o) - 1
           /\ (n % Size(o + 1)) = (n % Size(o)) + (IF Bit(n, o) THEN Size(o) ELSE 0)
           /\ Aligned(n, o) => (Bit(n, o) <=> Aligned(n - Size(o), o + 1))
           /\ Aligned(n, o) => (~Bit(n, o) <=> Aligned(n, o + 1))
<1>1. /\ Size(o) \in Nat /\ Size(o) >= 1 /\ Size(o + 1) = Size(o) + Size(o)
      /\ o \in Shifts /\ o + 1 \in Shifts
  BY Sizes2
<1> DEFINE s == Size(o)
           a == n \div s
           r == (n % s)
           c == a \div 2
           e == a % 2
<1>2. a \in Int /\ r \in 0 .. s - 1 /\ n = a * s + r
  <2>1. n \in Int
    OBVIOUS
  <2> QED  BY <1>1, <2>1, Division
<1>3. c \in Int /\ e \in 0 .. 1 /\ a = c * 2 + e
  <2> HIDE DEF a
  <2>1. c \in Int /\ e \in 0 .. 2 - 1 /\ a = c * 2 + e
    BY <1>2, Division
  <2> QED  BY <2>1
<1>4. Bit(n, o) <=> e = 1
  BY DEF Bit
<1> HIDE DEF a, r, c, e, s
<1>5. n = c * (s + s) + (e * s + r)
  BY <1>1, <1>2, <1>3 DEF s
<1>6. e * s + r \in 0 .. (s + s) - 1
  <2>1. e = 0 \/ e = 1
    BY <1>3
  <2>2. CASE e = 0
    BY <1>1, <1>2, <2>2 DEF s
  <2>3. CASE e = 1
    BY <1>1, <1>2, <2>3 DEF s
  <2> QED  BY <2>1, <2>2, <2>3
<1>7. (n % Size(o + 1)) = e * s + r
  <2> DEFINE d == s + s
             m == e * s + r
  <2>1. d \in Nat /\ d >= 1 /\ Size(o + 1) = d
    BY <1>1 DEF s
  <2>2. n \in Int /\ c \in Int /\ m \in 0 .. d - 1 /\ n = c * d + m
    BY <1>3, <1>5, <1>6
  <2> HIDE DEF d, m
  <2>3. (n % d) = m
    BY ZenonT(40), <2>1, <2>2, Division
  <2> QED  BY <2>1, <2>3 DEF m
<1>8. e * s + r = r + (IF Bit(n, o) THEN s ELSE 0)
  BY <1>1, <1>2, <1>3, <1>4 DEF s
<1>9. ASSUME Aligned(n, o)
      PROVE  /\ Bit(n, o) <=> Aligned(n - Size(o), o + 1)
             /\ ~Bit(n, o) <=> Aligned(n, o + 1)
  <2>1. r = 0
    BY <1>1, <1>9, BaseOf DEF r, s
  <2>2. n \in Int /\ n - Size(o) \in Int
    BY <1>1
  <2>9. Aligned(n, o + 1) <=> (n % Size(o + 1)) = 0
    BY <1>1, <2>2, BaseOf
  <2>3. Aligned(n, o + 1) <=> e * s = 0
    <3>1. e = 0 \/ e = 1
      BY <1>3
    <3> QED  BY <1>1, <1>7, <2>1, <2>9, <3>1 DEF s
  <2>4. e = 1 => Aligned(n - Size(o), o + 1)
    <3>1. SUFFICES ASSUME e = 1  PROVE Aligned(n - Size(o), o + 1)
      OBVIOUS
    <3>2. n - s = c * (s + s)
      BY <1>1, <1>3, <1>5, <2>1, <3>1 DEF s
    <3> QED  BY <1>1, <1>3, <3>2 DEF Aligned, s
  <2>5. Aligned(n, o + 1) /\ Aligned(n - Size(o), o + 1) => FALSE
    <3>1. SUFFICES ASSUME Aligned(n, o + 1), Aligned(n - Size(o), o + 1)  PROVE FALSE
      OBVIOUS
    <3>2. n - Size(o) < n
      BY <1>1
    <3>3. n - Size(o) + Size(o + 1) <= n
      BY <1>1, <3>1, <3>2, AlignedGap
    <3> QED  BY <1>1, <3>3
  <2>6. e = 0 \/ e = 1
    BY <1>3
  <2>7. CASE e = 0
    BY <1>1, <1>4, <2>3, <2>5, <2>7 DEF s
  <2>8. CASE e = 1
    BY <1>1, <1>4, <2>3, <2>4, <2>8 DEF s
  <2> QED  BY <2>6, <2>7, <2>8
<1> QED  BY <1>1, <1>2, <1>7, <1>8, <1>9 DEF s, r

\* f and g are the two halves of a block of order o + 1.
Pair(f, g, o) ==
    \/ Aligned(f, o + 1) /\ g = f + Size(o)
    \/ Aligned(g, o + 1) /\ f = g + Size(o)

\* Of two buddies, the one below is where the block of both starts, and that
\* block is the two of them.
LEMMA PairFacts ==
    ASSUME NEW o \in Orders, NEW f \in Nat, NEW g \in Nat, Pair(f, g, o)
    PROVE  /\ Pair(g, f, o) /\ f # g /\ g = buddy_index(f, o)
           /\ Aligned(f, o) /\ Aligned(g, o)
           /\ f < g => Base(f, o + 1) = f
           /\ g < f => Base(f, o + 1) = g
           /\ Cells(Base(f, o + 1), o + 1) = Cells(f, o) \cup Cells(g, o)
           /\ Cells(f, o) \cap Cells(g, o) = {}
<1>1. /\ Size(o) \in Nat /\ Size(o) >= 1 /\ Size(o + 1) = Size(o) + Size(o)
      /\ o \in Shifts /\ o + 1 \in Shifts /\ o <= o + 1 /\ o <= o
  BY Sizes2 DEF Orders
<1>2. CASE Aligned(f, o + 1) /\ g = f + Size(o)
  <2>1. Aligned(f, o) /\ Aligned(g, o)
    BY <1>1, <1>2, AlignedLess, AlignedSize, AlignedSum
  <2>2. ~Bit(f, o) /\ Base(f, o + 1) = f
    BY <1>1, <1>2, <2>1, Bits, BaseOf
  <2> QED  BY <1>1, <1>2, <2>1, <2>2 DEF buddy_index, Pair, Cells
<1>3. CASE Aligned(g, o + 1) /\ f = g + Size(o)
  <2>1. Aligned(f, o) /\ Aligned(g, o)
    BY <1>1, <1>3, AlignedLess, AlignedSize, AlignedSum
  <2>2. f - Size(o) = g
    BY <1>1, <1>3
  <2>5. Bit(f, o)
    <3>1. Aligned(f - Size(o), o + 1)
      BY <1>3, <2>2
    <3> QED  BY <2>1, <3>1, Bits
  <2>3. Bit(f, o) /\ g <= f /\ f < g + Size(o + 1) /\ f \in Int
    BY <1>1, <1>3, <2>5
  <2>4. Base(f, o + 1) = g
    BY <1>1, <1>3, <2>3, BaseOf
  <2> QED  BY <1>1, <1>3, <2>1, <2>2, <2>3, <2>4 DEF buddy_index, Pair, Cells
<1> QED  BY <1>2, <1>3 DEF Pair

\* Flipping a bit finds the other half.
LEMMA BuddyOf ==
    ASSUME NEW o \in Orders, NEW f \in Nat, Aligned(f, o)
    PROVE  buddy_index(f, o) \in Nat /\ Pair(f, buddy_index(f, o), o)
<1>1. /\ Size(o) \in Nat /\ Size(o) >= 1 /\ o \in Shifts /\ o + 1 \in Shifts
  BY Sizes2
<1>2. CASE Bit(f, o)
  <2>1. buddy_index(f, o) = f - Size(o) /\ Aligned(f - Size(o), o + 1)
    BY <1>2, Bits DEF buddy_index
  <2>2. f >= Size(o)
    <3>1. SUFFICES ASSUME f < Size(o)  PROVE FALSE
      BY <1>1
    <3>2. Aligned(0, o) /\ f >= 0 /\ f = Base(f, o) /\ 0 = Base(f, o)
      <4>1. o <= o /\ f \in Int
        BY DEF Orders
      <4>2. Aligned(0, o)
        BY <1>1, <4>1, AlignedSize
      <4>3. 0 <= f /\ f < 0 + Size(o)
        BY <1>1, <3>1
      <4> QED  BY <1>1, <4>1, <4>2, <4>3, BaseOf
    <3>3. Aligned(0, o + 1)
      BY <1>1, AlignedSize DEF Orders
    <3> QED  BY <1>2, <3>2, <3>3, Bits
  <2> QED  BY <1>1, <2>1, <2>2 DEF Pair
<1>3. CASE ~Bit(f, o)
  BY <1>1, <1>3, Bits DEF buddy_index, Pair
<1> QED  BY <1>2, <1>3

\* The low bits of a number grow with their number.
LEMMA LowMono ==
    ASSUME NEW n \in Nat, NEW b \in Shifts, NEW c \in Shifts, b <= c
    PROVE  (n % Size(b)) <= (n % Size(c))
<1>1. /\ Size(b) \in Nat /\ Size(b) >= 1 /\ Size(c) \in Nat /\ Size(c) >= 1 /\ n \in Int
  BY Sizes2
<1>2. (n % Size(b)) \in Int /\ (n % Size(c)) \in Int
  BY <1>1, Division
<1>3. /\ Base(n, b) \in Int /\ Base(n, c) \in Int /\ Aligned(Base(n, b), b)
      /\ n < Base(n, b) + Size(b) /\ Base(n, c) <= n /\ Aligned(Base(n, c), c)
  BY <1>1, BaseOf
<1>4. ~(Base(n, b) < Base(n, c))
  <2>1. Aligned(Base(n, c), b)
    BY <1>3, AlignedLess
  <2> QED  BY <1>1, <1>3, <2>1, AlignedGap
<1> QED  BY <1>1, <1>2, <1>3, <1>4 DEF Base

\* A number below a power of two has no bits from there on.
LEMMA LowAll ==
    ASSUME NEW n \in Nat, NEW c \in Shifts, n < Size(c)
    PROVE  (n % Size(c)) = n
<1>1. /\ Size(c) \in Nat /\ Size(c) >= 1 /\ n \in Int /\ 0 \in Int /\ n \in 0 .. Size(c) - 1
      /\ n = 0 * Size(c) + n
  BY Sizes2
<1> QED  BY <1>1, Division

\* Each number below the low bits of n is reached at one of the bits.
LEMMA Bracket ==
    ASSUME NEW n \in Nat, NEW c \in 0 .. MaxOrder + 1, NEW y \in Nat, y < (n % Size(c))
    PROVE  \E b \in Orders : /\ b < c /\ Bit(n, b)
                             /\ (n % Size(b)) <= y /\ y < (n % Size(b)) + Size(b)
<1>1. MaxOrder \in Nat /\ c \in Shifts
  BY BuddyAssumption DEF Shifts
<1> DEFINE T == {b \in 0 .. c : y < (n % Size(b))}
<1>2. T \in SUBSET Nat /\ T # {}
  BY <1>1
<1>3. PICK b \in T : \A x \in T : b <= x
  <2> HIDE DEF T
  <2> QED  BY <1>2, LeastIn
<1>4. b # 0
  <2>1. (n % Size(0)) = 0
    BY Sizes2
  <2> QED  BY <1>3, <2>1
<1>5. b \in 0 .. c /\ y < (n % Size(b))
  BY <1>3
<1>6. b - 1 \in Orders /\ b - 1 \in 0 .. c /\ b - 1 < c /\ (b - 1) + 1 = b /\ ~(b <= b - 1)
  BY <1>1, <1>4, <1>5 DEF Orders
<1>7. ~(y < (n % Size(b - 1)))
  BY <1>3, <1>6
<1>8. /\ (n % Size(b - 1)) \in 0 .. Size(b - 1) - 1 /\ Size(b - 1) \in Nat
      /\ (n % Size(b)) = (n % Size(b - 1)) + (IF Bit(n, b - 1) THEN Size(b - 1) ELSE 0)
  BY <1>6, Bits, Sizes2
<1>9. Bit(n, b - 1)
  BY <1>5, <1>7, <1>8
<1>10. (n % Size(b - 1)) <= y /\ y < (n % Size(b - 1)) + Size(b - 1)
  BY <1>5, <1>7, <1>8, <1>9
<1> QED  BY <1>6, <1>9, <1>10

\* Two bits of n: the higher starts above the end of the lower.
LEMMA BitsApart ==
    ASSUME NEW n \in Nat, NEW b \in Orders, NEW c \in Orders, b < c, Bit(n, b)
    PROVE  (n % Size(b)) + Size(b) <= (n % Size(c))
<1>1. b + 1 \in Shifts /\ c \in Shifts /\ b + 1 <= c
  BY Sizes2 DEF Orders
<1>2. (n % Size(b + 1)) = (n % Size(b)) + Size(b)
  BY Bits
<1> QED  BY <1>1, <1>2, LowMono

-----------------------------------------------------------------------------
(* Cutting frames into blocks.                                              *)

\* The blocks in P, one of each order at most, make up the frames from a to
\* b - 1.
Tiles(P, a, b) ==
    /\ \A p \in P : /\ p \in Int \X Orders /\ a <= p[1] /\ p[1] + Size(p[2]) <= b
    /\ \A p, q \in P : p[2] = q[2] => p = q
    /\ \A p, q \in P : p # q => Cells(p[1], p[2]) \cap Cells(q[1], q[2]) = {}
    /\ \A x \in a .. b - 1 : \E p \in P : x \in Cells(p[1], p[2])

\* No bit of n, with those below it, is more than n.
LEMMA LowBound ==
    ASSUME NEW n \in Nat, n < Size(MaxOrder + 1), NEW b \in Orders
    PROVE  /\ (n % Size(b)) \in Nat /\ (n % Size(b)) + (IF Bit(n, b) THEN Size(b) ELSE 0) <= n
           /\ Size(b) \in Nat /\ Size(b) >= 1
<1>1. MaxOrder \in Nat /\ MaxOrder + 1 \in Shifts
  BY BuddyAssumption DEF Shifts
<1>2. b + 1 \in Shifts /\ b + 1 <= MaxOrder + 1
  BY <1>1, Sizes2 DEF Orders
<1>3. (n % Size(MaxOrder + 1)) = n
  BY <1>1, LowAll
<1>4. (n % Size(b + 1)) <= n
  BY <1>1, <1>2, <1>3, LowMono
<1> QED  BY <1>2, <1>4, Bits, Sizes2

\* The blocks cut off smallest first, as buddy_init and buddy_alloc_frames do
\* for what lies before an aligned frame, fill the range and nothing else.
LEMMA RisingTiles ==
    ASSUME NEW fr \in Int, NEW n \in Nat, n < Size(MaxOrder + 1)
    PROVE  Tiles(Rising(fr, n), fr, fr + n)
<1> DEFINE low(b) == (n % Size(b))
           P == Rising(fr, n)
<1>1. MaxOrder \in Nat /\ MaxOrder + 1 \in Shifts /\ MaxOrder + 1 \in 0 .. MaxOrder + 1
  BY BuddyAssumption DEF Shifts
<1>2. low(MaxOrder + 1) = n
  BY <1>1, LowAll
<1>3. \A b \in Orders : /\ low(b) \in Nat /\ low(b) + (IF Bit(n, b) THEN Size(b) ELSE 0) <= n
                        /\ Size(b) \in Nat /\ Size(b) >= 1
  BY LowBound
<1>4. \A p : p \in P <=> \E b \in Orders : Bit(n, b) /\ p = <<fr + low(b), b>>
  BY DEF Rising
<1> HIDE DEF P
<1>5. ASSUME NEW p \in P
      PROVE  /\ p \in Int \X Orders /\ Bit(n, p[2]) /\ p[1] = fr + low(p[2])
             /\ fr <= p[1] /\ p[1] + Size(p[2]) <= fr + n
  <2>1. PICK b \in Orders : Bit(n, b) /\ p = <<fr + low(b), b>>
    BY <1>4
  <2>2. low(b) \in Nat /\ Size(b) \in Nat /\ low(b) + Size(b) <= n
    BY <1>3, <2>1
  <2> HIDE DEF low
  <2> QED  BY <2>1, <2>2
<1>6. ASSUME NEW p \in P, NEW q \in P, p[2] = q[2]  PROVE p = q
  BY <1>5, <1>6
<1>7. ASSUME NEW p \in P, NEW q \in P, p[2] < q[2]
      PROVE  Cells(p[1], p[2]) \cap Cells(q[1], q[2]) = {}
  <2>1. /\ Bit(n, p[2]) /\ p[1] = fr + low(p[2]) /\ q[1] = fr + low(q[2])
        /\ p[2] \in Orders /\ q[2] \in Orders
    BY <1>5
  <2>2. low(p[2]) + Size(p[2]) <= low(q[2])
    BY <1>7, <2>1, BitsApart
  <2>3. low(p[2]) \in Nat /\ low(q[2]) \in Nat /\ Size(p[2]) \in Nat /\ Size(q[2]) \in Nat
    BY <1>3, <2>1
  <2> HIDE DEF low
  <2> QED  BY <2>1, <2>2, <2>3 DEF Cells
<1>8. ASSUME NEW p \in P, NEW q \in P, p # q
      PROVE  Cells(p[1], p[2]) \cap Cells(q[1], q[2]) = {}
  <2>1. p[2] \in Int /\ q[2] \in Int /\ p[2] # q[2]
    BY <1>5, <1>6, <1>8 DEF Orders
  <2>2. p[2] < q[2] \/ q[2] < p[2]
    BY <2>1
  <2> QED  BY <1>7, <2>2
<1>9. ASSUME NEW x \in fr .. fr + n - 1  PROVE \E p \in P : x \in Cells(p[1], p[2])
  <2>1. x - fr \in Nat /\ x - fr < n
    OBVIOUS
  <2>2. PICK b \in Orders : Bit(n, b) /\ low(b) <= x - fr /\ x - fr < low(b) + Size(b)
    BY <1>1, <1>2, <2>1, Bracket
  <2>3. <<fr + low(b), b>> \in P
    BY <1>4, <2>2
  <2>4. low(b) \in Nat /\ Size(b) \in Nat
    BY <1>3
  <2>5. x \in Cells(fr + low(b), b)
    <3> HIDE DEF low
    <3> QED  BY <2>2, <2>4 DEF Cells
  <2> QED  BY <2>3, <2>5
<1> HIDE DEF low
<1>10. Tiles(P, fr, fr + n)
  BY <1>5, <1>6, <1>8, <1>9 DEF Tiles
<1> QED  BY <1>10 DEF P

\* A falling piece starts as far from the end as the rising one ends from the
\* start.
LEMMA FallingPiece ==
    ASSUME NEW fr \in Int, NEW n \in Nat
    PROVE  \A p : p \in Falling(fr, n) <=>
              \E b \in Orders : Bit(n, b) /\ p = <<fr + (n - (n % Size(b)) - Size(b)), b>>
<1>1. ASSUME NEW b \in Orders, Bit(n, b)
      PROVE  (n \div Size(b + 1)) * Size(b + 1) = n - (n % Size(b)) - Size(b)
  <2>1. Size(b + 1) \in Nat /\ Size(b + 1) >= 1 /\ n \in Int /\ Size(b) \in Nat
    BY Sizes2
  <2> DEFINE s == Size(b + 1)
  <2>2. n = (n \div Size(b + 1)) * Size(b + 1) + (n % Size(b + 1)) /\ n \div Size(b + 1) \in Int
    <3>1. s \in Nat /\ s >= 1 /\ n \in Int
      BY <2>1
    <3> HIDE DEF s
    <3>2. n = (n \div s) * s + (n % s) /\ n \div s \in Int
      BY <3>1, Division
    <3> QED  BY <3>2 DEF s
  <2>3. (n % Size(b + 1)) = (n % Size(b)) + Size(b) /\ (n % Size(b)) \in Int
    BY <1>1, <2>1, Bits
  <2> DEFINE m == (n \div Size(b + 1)) * Size(b + 1)
  <2>4. m \in Int
    BY <2>1, <2>2
  <2> HIDE DEF m
  <2>5. n = m + (n % Size(b + 1))
    BY <2>2 DEF m
  <2>6. m = n - (n % Size(b)) - Size(b)
    BY <2>1, <2>3, <2>4, <2>5
  <2> QED  BY <2>6 DEF m
<1> QED  BY <1>1 DEF Falling

\* So do the blocks cut off largest first.
LEMMA FallingTiles ==
    ASSUME NEW fr \in Int, NEW n \in Nat, n < Size(MaxOrder + 1)
    PROVE  Tiles(Falling(fr, n), fr, fr + n)
<1> DEFINE low(b) == (n % Size(b))
           P == Falling(fr, n)
<1>1. MaxOrder \in Nat /\ MaxOrder + 1 \in Shifts /\ MaxOrder + 1 \in 0 .. MaxOrder + 1
  BY BuddyAssumption DEF Shifts
<1>2. low(MaxOrder + 1) = n
  BY <1>1, LowAll
<1>3. \A b \in Orders : /\ low(b) \in Nat /\ low(b) + (IF Bit(n, b) THEN Size(b) ELSE 0) <= n
                        /\ Size(b) \in Nat /\ Size(b) >= 1
  BY LowBound
<1>4. \A p : p \in P <=> \E b \in Orders : Bit(n, b) /\ p = <<fr + (n - low(b) - Size(b)), b>>
  <2> HIDE DEF P
  <2>1. \A p : p \in Falling(fr, n) <=>
          \E b \in Orders : Bit(n, b) /\ p = <<fr + (n - (n % Size(b)) - Size(b)), b>>
    BY FallingPiece
  <2> QED  BY <2>1 DEF P
<1> HIDE DEF P
<1>5. ASSUME NEW p \in P
      PROVE  /\ p \in Int \X Orders /\ Bit(n, p[2]) /\ p[1] = fr + (n - low(p[2]) - Size(p[2]))
             /\ fr <= p[1] /\ p[1] + Size(p[2]) <= fr + n
  <2>1. PICK b \in Orders : Bit(n, b) /\ p = <<fr + (n - low(b) - Size(b)), b>>
    BY <1>4
  <2>2. low(b) \in Nat /\ Size(b) \in Nat /\ low(b) + Size(b) <= n
    BY <1>3, <2>1
  <2> HIDE DEF low
  <2> QED  BY <2>1, <2>2
<1>6. ASSUME NEW p \in P, NEW q \in P, p[2] = q[2]  PROVE p = q
  BY <1>5, <1>6
<1>7. ASSUME NEW p \in P, NEW q \in P, p[2] < q[2]
      PROVE  Cells(p[1], p[2]) \cap Cells(q[1], q[2]) = {}
  <2>1. /\ Bit(n, p[2]) /\ p[2] \in Orders /\ q[2] \in Orders
        /\ p[1] = fr + (n - low(p[2]) - Size(p[2])) /\ q[1] = fr + (n - low(q[2]) - Size(q[2]))
    BY <1>5
  <2>2. low(p[2]) + Size(p[2]) <= low(q[2])
    BY <1>7, <2>1, BitsApart
  <2>3. low(p[2]) \in Nat /\ low(q[2]) \in Nat /\ Size(p[2]) \in Nat /\ Size(q[2]) \in Nat
    BY <1>3, <2>1
  <2> HIDE DEF low
  <2> QED  BY <2>1, <2>2, <2>3 DEF Cells
<1>8. ASSUME NEW p \in P, NEW q \in P, p # q
      PROVE  Cells(p[1], p[2]) \cap Cells(q[1], q[2]) = {}
  <2>1. p[2] \in Int /\ q[2] \in Int /\ p[2] # q[2]
    BY <1>5, <1>6, <1>8 DEF Orders
  <2>2. p[2] < q[2] \/ q[2] < p[2]
    BY <2>1
  <2> QED  BY <1>7, <2>2
<1>9. ASSUME NEW x \in fr .. fr + n - 1  PROVE \E p \in P : x \in Cells(p[1], p[2])
  <2>1. fr + n - 1 - x \in Nat /\ fr + n - 1 - x < n
    OBVIOUS
  <2>2. PICK b \in Orders :
          Bit(n, b) /\ low(b) <= fr + n - 1 - x /\ fr + n - 1 - x < low(b) + Size(b)
    BY <1>1, <1>2, <2>1, Bracket
  <2>3. <<fr + (n - low(b) - Size(b)), b>> \in P
    BY <1>4, <2>2
  <2>4. low(b) \in Nat /\ Size(b) \in Nat
    BY <1>3
  <2>5. x \in Cells(fr + (n - low(b) - Size(b)), b)
    <3> HIDE DEF low
    <3> QED  BY <2>2, <2>4 DEF Cells
  <2> QED  BY <2>3, <2>5
<1> HIDE DEF low
<1>10. Tiles(P, fr, fr + n)
  BY <1>5, <1>6, <1>8, <1>9 DEF Tiles
<1> QED  BY <1>10 DEF P

\* The halves that __buddy_alloc puts back fill what it split off.
LEMMA HalvesTiles ==
    ASSUME NEW fr \in Int, NEW k \in Orders, NEW od \in Orders, k <= od
    PROVE  Tiles(Halves(fr, k, od), fr + Size(k), fr + Size(od))
<1> DEFINE P == Halves(fr, k, od)
<1>1. MaxOrder \in Nat /\ k \in Shifts /\ od \in Shifts
  BY BuddyAssumption, Sizes2
<1>2. \A p : p \in P <=> \E o \in k .. od - 1 : p = <<fr + Size(o), o>>
  BY DEF Halves
<1> HIDE DEF P
<1>3. \A o \in k .. od - 1 : /\ o \in Orders /\ o \in Shifts /\ Size(o) \in Nat
                             /\ Size(k) <= Size(o) /\ Size(o) + Size(o) <= Size(od)
  <2>1. SUFFICES ASSUME NEW o \in k .. od - 1
                 PROVE  /\ o \in Orders /\ o \in Shifts /\ Size(o) \in Nat
                        /\ Size(k) <= Size(o) /\ Size(o) + Size(o) <= Size(od)
    OBVIOUS
  <2>2. o \in Orders /\ k <= o /\ o < od
    BY <1>1 DEF Orders
  <2>3. o \in Shifts /\ o <= od
    BY <2>2, Sizes2 DEF Orders
  <2> QED  BY <1>1, <2>2, <2>3, SizeTimes, Sizes2
<1>4. ASSUME NEW p \in P
      PROVE  /\ p \in Int \X Orders /\ p[2] \in k .. od - 1 /\ p[1] = fr + Size(p[2])
             /\ fr + Size(k) <= p[1] /\ p[1] + Size(p[2]) <= fr + Size(od)
  <2>1. PICK o \in k .. od - 1 : p = <<fr + Size(o), o>>
    BY <1>2
  <2>2. Size(k) \in Nat /\ Size(od) \in Nat
    BY <1>1, Sizes2
  <2> QED  BY <1>3, <2>1, <2>2
<1>5. ASSUME NEW p \in P, NEW q \in P, p[2] = q[2]  PROVE p = q
  BY <1>4, <1>5
<1>6. ASSUME NEW p \in P, NEW q \in P, p[2] < q[2]
      PROVE  Cells(p[1], p[2]) \cap Cells(q[1], q[2]) = {}
  <2>1. p[2] \in Shifts /\ q[2] \in Shifts /\ p[2] <= q[2]
    BY <1>3, <1>4, <1>6 DEF Orders
  <2>2. Size(p[2]) + Size(p[2]) <= Size(q[2])
    BY <1>6, <2>1, SizeTimes
  <2>3. p[1] = fr + Size(p[2]) /\ q[1] = fr + Size(q[2]) /\ Size(p[2]) \in Nat /\ Size(q[2]) \in Nat
    BY <1>3, <1>4
  <2> QED  BY <2>2, <2>3 DEF Cells
<1>7. ASSUME NEW p \in P, NEW q \in P, p # q
      PROVE  Cells(p[1], p[2]) \cap Cells(q[1], q[2]) = {}
  <2>1. p[2] \in Int /\ q[2] \in Int /\ p[2] # q[2]
    BY <1>4, <1>5, <1>7 DEF Orders
  <2>2. p[2] < q[2] \/ q[2] < p[2]
    BY <2>1
  <2> QED  BY <1>6, <2>2
<1>8. ASSUME NEW x \in fr + Size(k) .. fr + Size(od) - 1  PROVE \E p \in P : x \in Cells(p[1], p[2])
  <2> DEFINE T == {o \in k .. od : x < fr + Size(o)}
  <2>1. Size(k) \in Nat /\ Size(od) \in Nat /\ k \in Nat /\ od \in Nat
    BY <1>1, Sizes2 DEF Orders
  <2>2. T \in SUBSET Nat /\ T # {}
    BY <2>1
  <2>3. PICK o \in T : \A y \in T : o <= y
    <3> HIDE DEF T
    <3> QED  BY <2>2, LeastIn
  <2>4. o \in k .. od /\ x < fr + Size(o) /\ fr + Size(k) <= x
    BY <2>1, <2>3
  <2>5. o # k
    BY <2>1, <2>4
  <2>6. o - 1 \in k .. od - 1 /\ o - 1 \in k .. od /\ (o - 1) + 1 = o /\ ~(o <= o - 1)
    BY <2>1, <2>4, <2>5
  <2>7. ~(x < fr + Size(o - 1))
    BY <2>3, <2>6
  <2>8. Size(o) = Size(o - 1) + Size(o - 1) /\ Size(o - 1) \in Nat
    BY <1>3, <2>6, Sizes2
  <2>9. x \in Cells(fr + Size(o - 1), o - 1)
    BY <2>4, <2>7, <2>8 DEF Cells
  <2>10. <<fr + Size(o - 1), o - 1>> \in P
    BY <1>2, <2>6
  <2> QED  BY <2>9, <2>10
<1>9. Tiles(P, fr + Size(k), fr + Size(od))
  <2> DEFINE a == fr + Size(k)
             z == fr + Size(od)
  <2>1. \A p \in P : p \in Int \X Orders /\ a <= p[1] /\ p[1] + Size(p[2]) <= z
    BY <1>4
  <2>2. ASSUME NEW x \in a .. z - 1  PROVE \E p \in P : x \in Cells(p[1], p[2])
    <3>1. x \in fr + Size(k) .. fr + Size(od) - 1
      BY <1>1, Sizes2
    <3> QED  BY <1>8, <3>1
  <2> HIDE DEF a, z
  <2>3. Tiles(P, a, z)
    BY <1>5, <1>7, <2>1, <2>2 DEF Tiles
  <2> QED  BY <2>3 DEF a, z
<1> QED  BY <1>9 DEF P

\* The order of a block that fits into a larger one.
LEMMA Fits ==
    ASSUME NEW b \in Shifts, NEW c \in Shifts
    PROVE  /\ Size(b) <= Size(c) => b <= c
           /\ Size(b) < Size(c) => b < c
<1>1. b \in Nat /\ c \in Nat /\ Size(b) \in Nat /\ Size(c) \in Nat /\ Size(c) >= 1
  BY BuddyAssumption, Sizes2 DEF Shifts
<1>2. c < b => Size(c) + Size(c) <= Size(b)
  BY <1>1, SizeTimes
<1>3. c = b \/ c < b \/ b < c
  BY <1>1
<1> QED  BY <1>1, <1>2, <1>3

\* The blocks behind n frames, up to the end of the block they were taken
\* from, are upper halves.
LEMMA RisingOdd ==
    ASSUME NEW fr \in Nat, NEW n \in Nat, NEW c \in Orders, Aligned(fr + n, c), n <= Size(c),
           NEW p \in Rising(fr, n)
    PROVE  /\ p[2] \in Orders /\ p[2] <= c /\ (n < Size(c) => p[2] < c)
           /\ p[1] \in Nat /\ Aligned(p[1], p[2])
           /\ p[2] < c => Aligned(p[1] - Size(p[2]), p[2] + 1)
<1>1. PICK b \in Orders : Bit(n, b) /\ p = <<fr + (n % Size(b)), b>>
  BY DEF Rising
<1>2. c \in Shifts /\ b \in Shifts /\ b + 1 \in Shifts /\ c + 1 \in Shifts
      /\ Size(c) \in Nat /\ Size(c) >= 1 /\ Size(c + 1) = Size(c) + Size(c)
      /\ Size(b) \in Nat /\ Size(b) >= 1 /\ Size(b + 1) = Size(b) + Size(b)
  BY Sizes2
<1>3. n < Size(MaxOrder + 1)
  <2>1. c + 1 <= MaxOrder + 1 /\ MaxOrder + 1 \in Shifts
    BY BuddyAssumption DEF Orders, Shifts
  <2>2. Size(c + 1) <= Size(MaxOrder + 1)
    BY <1>2, <2>1, SizeTimes
  <2>3. Size(MaxOrder + 1) \in Nat
    BY <2>1, Sizes2
  <2> QED  BY <1>2, <2>2, <2>3
<1>4. (n % Size(b)) \in Nat /\ (n % Size(b)) + Size(b) <= n
  BY <1>1, <1>3, LowBound
<1>5. b <= c /\ (n < Size(c) => b < c)
  <2>1. Size(b) <= Size(c) /\ (n < Size(c) => Size(b) < Size(c))
    BY <1>2, <1>4
  <2> QED  BY <1>2, <2>1, Fits
<1>6. Aligned(p[1], b)
  <2>1. Aligned(fr + n, b)
    BY <1>2, <1>5, AlignedLess
  <2>2. Aligned(Base(n, b), b) /\ Base(n, b) = n - (n % Size(b))
    BY <1>2, BaseOf DEF Base
  <2>3. (fr + n) - Base(n, b) = fr + (n % Size(b))
    BY <1>4, <2>2
  <2> QED  BY <1>1, <1>2, <2>1, <2>2, <2>3, AlignedSum
<1>7. b < c => Aligned(p[1] - Size(b), b + 1)
  <2>1. SUFFICES ASSUME b < c  PROVE Aligned(p[1] - Size(b), b + 1)
    OBVIOUS
  <2>2. b + 1 <= c
    BY <2>1 DEF Orders
  <2>3. Aligned(fr + n, b + 1) /\ Aligned(Size(b + 1), b + 1)
    BY <1>2, <2>2, AlignedLess, AlignedSize DEF Orders
  <2>4. Aligned(Base(n, b + 1), b + 1) /\ Base(n, b + 1) = n - (n % Size(b + 1))
    BY <1>2, BaseOf DEF Base
  <2>5. (n % Size(b + 1)) = (n % Size(b)) + Size(b)
    BY <1>1, Bits
  <2>6. (fr + n) - Base(n, b + 1) - Size(b + 1) = p[1] - Size(b)
    BY <1>1, <1>2, <1>4, <2>4, <2>5
  <2>7. Aligned((fr + n) - Base(n, b + 1), b + 1)
    BY <1>2, <2>3, <2>4, AlignedSum
  <2>8. Aligned((fr + n) - Base(n, b + 1) - Size(b + 1), b + 1)
    BY <1>2, <2>3, <2>7, AlignedSum
  <2> QED  BY <2>6, <2>8
<1> QED  BY <1>1, <1>4, <1>5, <1>6, <1>7

\* The blocks that n frames at the start of a block are cut into are lower
\* halves.
LEMMA FallingEven ==
    ASSUME NEW fr \in Nat, NEW n \in Nat, NEW c \in Orders, Aligned(fr, c), n <= Size(c),
           NEW p \in Falling(fr, n)
    PROVE  /\ p[2] \in Orders /\ p[2] <= c /\ (n < Size(c) => p[2] < c)
           /\ p[1] \in Nat /\ Aligned(p[1], p[2])
           /\ p[2] < c => Aligned(p[1], p[2] + 1)
<1>1. PICK b \in Orders : Bit(n, b) /\ p = <<fr + (n - (n % Size(b)) - Size(b)), b>>
  BY FallingPiece
<1>2. c \in Shifts /\ b \in Shifts /\ b + 1 \in Shifts /\ c + 1 \in Shifts
      /\ Size(c) \in Nat /\ Size(c) >= 1 /\ Size(c + 1) = Size(c) + Size(c)
      /\ Size(b) \in Nat /\ Size(b) >= 1 /\ Size(b + 1) = Size(b) + Size(b)
  BY Sizes2
<1>3. n < Size(MaxOrder + 1)
  <2>1. c + 1 <= MaxOrder + 1 /\ MaxOrder + 1 \in Shifts
    BY BuddyAssumption DEF Orders, Shifts
  <2>2. Size(c + 1) <= Size(MaxOrder + 1)
    BY <1>2, <2>1, SizeTimes
  <2>3. Size(MaxOrder + 1) \in Nat
    BY <2>1, Sizes2
  <2> QED  BY <1>2, <2>2, <2>3
<1>4. (n % Size(b)) \in Nat /\ (n % Size(b)) + Size(b) <= n
  BY <1>1, <1>3, LowBound
<1>5. b <= c /\ (n < Size(c) => b < c)
  <2>1. Size(b) <= Size(c) /\ (n < Size(c) => Size(b) < Size(c))
    BY <1>2, <1>4
  <2> QED  BY <1>2, <2>1, Fits
<1>6. Aligned(p[1], b)
  <2>1. Aligned(fr, b) /\ Aligned(Size(b), b)
    BY <1>2, <1>5, AlignedLess, AlignedSize DEF Orders
  <2>2. Aligned(Base(n, b), b) /\ Base(n, b) = n - (n % Size(b))
    BY <1>2, BaseOf DEF Base
  <2>3. Aligned(fr + Base(n, b), b)
    BY <1>2, <2>1, <2>2, AlignedSum
  <2>4. Aligned((fr + Base(n, b)) - Size(b), b)
    BY <1>2, <2>1, <2>3, AlignedSum
  <2>5. (fr + Base(n, b)) - Size(b) = fr + (n - (n % Size(b)) - Size(b))
    BY <1>2, <1>4, <2>2
  <2> QED  BY <1>1, <2>4, <2>5
<1>7. b < c => Aligned(p[1], b + 1)
  <2>1. SUFFICES ASSUME b < c  PROVE Aligned(p[1], b + 1)
    OBVIOUS
  <2>2. b + 1 <= c
    BY <2>1 DEF Orders
  <2>3. Aligned(fr, b + 1)
    BY <1>2, <2>2, AlignedLess
  <2>4. Aligned(Base(n, b + 1), b + 1) /\ Base(n, b + 1) = n - (n % Size(b + 1))
    BY <1>2, BaseOf DEF Base
  <2>5. (n % Size(b + 1)) = (n % Size(b)) + Size(b)
    BY <1>1, Bits
  <2>6. fr + Base(n, b + 1) = p[1]
    BY <1>1, <1>2, <1>4, <2>4, <2>5
  <2> QED  BY <1>2, <2>3, <2>4, <2>6, AlignedSum
<1> QED  BY <1>1, <1>2, <1>4, <1>5, <1>6, <1>7

\* The largest block that fits into n frames, as buddy_free_frames finds it:
\* the rest of the frames is cut as before.
LEMMA FallingFirst ==
    ASSUME NEW fr \in Nat, NEW n \in Nat, n >= 1, n < Size(MaxOrder + 1)
    PROVE  LET sz == Least({Size(b) : b \in {c \in Orders : Size(c + 1) > n}})
           IN /\ sz \in 1 .. n
              /\ \E b \in Orders :
                   /\ sz = Size(b) /\ <<fr, b>> \in Falling(fr, n)
                   /\ Falling(fr + sz, n - sz) = Falling(fr, n) \ {<<fr, b>>}
<1> DEFINE T == {c \in Orders : Size(c + 1) > n}
           sz == Least({Size(b) : b \in T})
<1>1. MaxOrder \in Nat /\ MaxOrder \in Orders
  BY BuddyAssumption DEF Orders
<1>2. T \in SUBSET Nat /\ T # {}
  BY <1>1, Sizes2 DEF Orders, Shifts
<1>3. PICK b \in T : \A c \in T : b <= c
  <2> HIDE DEF T
  <2> QED  BY <1>2, LeastIn
<1>4. /\ b \in Orders /\ b \in Shifts /\ b + 1 \in Shifts /\ n < Size(b + 1)
      /\ Size(b) \in Nat /\ Size(b) >= 1 /\ Size(b + 1) = Size(b) + Size(b)
  <2>1. b \in Orders /\ n < Size(b + 1)
    BY <1>3, Sizes2
  <2> QED  BY <2>1, Sizes2
<1>5. sz = Size(b)
  <2> DEFINE R == {Size(c) : c \in T}
  <2>1. \A c \in T : Size(b) <= Size(c) /\ Size(c) \in Nat
    <3>1. SUFFICES ASSUME NEW c \in T  PROVE Size(b) <= Size(c) /\ Size(c) \in Nat
      OBVIOUS
    <3>2. c \in Shifts /\ b <= c
      BY <1>3, Sizes2
    <3> QED  BY <1>4, <3>2, SizeTimes, Sizes2
  <2>2. R \in SUBSET Nat /\ Size(b) \in R /\ \A x \in R : Size(b) <= x
    BY <1>3, <2>1
  <2> HIDE DEF R
  <2>3. Least(R) \in R /\ \A x \in R : Least(R) <= x
    BY <2>2, LeastIn
  <2>4. Least(R) \in Nat /\ Least(R) <= Size(b) /\ Size(b) <= Least(R)
    BY <2>2, <2>3
  <2>5. Least(R) = Size(b)
    BY <1>4, <2>4
  <2> QED  BY <2>5 DEF R
<1> HIDE DEF sz
<1>6. Size(b) <= n
  <2>1. CASE b = 0
    BY <2>1, Sizes2
  <2>2. CASE b # 0
    <3>1. b - 1 \in Orders /\ ~(b <= b - 1) /\ (b - 1) + 1 = b
      BY <1>1, <1>4, <2>2 DEF Orders
    <3>2. b - 1 \notin T
      BY <1>3, <3>1
    <3>3. ~(Size((b - 1) + 1) > n)
      BY <3>1, <3>2
    <3> QED  BY <1>4, <3>1, <3>3
  <2> QED  BY <2>1, <2>2
<1>7. Bit(n, b) /\ (n % Size(b)) = n - Size(b)
  <2>1. (n % Size(b + 1)) = n
    BY <1>4, LowAll
  <2>2. /\ (n % Size(b)) \in 0 .. Size(b) - 1
        /\ (n % Size(b + 1)) = (n % Size(b)) + (IF Bit(n, b) THEN Size(b) ELSE 0)
    BY <1>4, Bits
  <2> QED  BY <1>4, <1>6, <2>1, <2>2
<1> DEFINE m == n - Size(b)
<1>8. m \in Nat /\ m < Size(b) /\ n \in Int /\ m \in Int
  BY <1>4, <1>6
<1>9. \A c \in Shifts : c <= b => (m % Size(c)) = (n % Size(c))
  <2>1. SUFFICES ASSUME NEW c \in Shifts, c <= b  PROVE (m % Size(c)) = (n % Size(c))
    OBVIOUS
  <2>2. Aligned(Base(n, c), c) /\ Aligned(Size(b), c) /\ Base(n, c) <= n /\ n < Base(n, c) + Size(c)
        /\ Base(n, c) \in Int
    BY <1>4, <1>8, <2>1, AlignedSize, BaseOf
  <2>3. Aligned(Base(n, c) - Size(b), c)
    BY <2>2, AlignedSum
  <2>4. Base(n, c) - Size(b) <= m /\ m < (Base(n, c) - Size(b)) + Size(c)
    BY <1>4, <2>1, <2>2, Sizes2
  <2> HIDE DEF m
  <2>5. Base(n, c) - Size(b) = Base(m, c)
    BY <1>8, <2>3, <2>4, BaseOf
  <2>6. Size(c) \in Nat /\ Size(c) >= 1
    BY Sizes2
  <2>7. (m % Size(c)) \in Int /\ (n % Size(c)) \in Int
    BY <1>8, <2>6, Division
  <2>8. n - (n % Size(c)) - Size(b) = m - (m % Size(c))
    BY <2>5 DEF Base
  <2>9. m = n - Size(b)
    BY DEF m
  <2> QED  BY <1>4, <1>8, <2>7, <2>8, <2>9
<1> HIDE DEF m
<1>10. \A c \in Orders : Bit(m, c) <=> Bit(n, c) /\ c # b
  <2>1. SUFFICES ASSUME NEW c \in Orders  PROVE Bit(m, c) <=> Bit(n, c) /\ c # b
    OBVIOUS
  <2>2. /\ c \in Shifts /\ c + 1 \in Shifts /\ c \in Int /\ b \in Int
        /\ Size(c) \in Nat /\ Size(c) >= 1 /\ Size(c + 1) = Size(c) + Size(c)
    BY <1>4, Sizes2 DEF Orders
  <2>3. /\ (m % Size(c + 1)) = (m % Size(c)) + (IF Bit(m, c) THEN Size(c) ELSE 0)
        /\ (n % Size(c + 1)) = (n % Size(c)) + (IF Bit(n, c) THEN Size(c) ELSE 0)
        /\ (m % Size(c)) \in Int /\ (n % Size(c)) \in Int
    BY <1>8, Bits
  <2>4. CASE c < b
    <3>1. c + 1 <= b /\ c <= b
      BY <2>2, <2>4
    <3>2. (m % Size(c + 1)) = (n % Size(c + 1)) /\ (m % Size(c)) = (n % Size(c))
      BY <1>9, <2>2, <3>1
    <3> QED  BY <2>2, <2>3, <2>4, <3>2
  <2>5. CASE b <= c
    <3>1. m < Size(c) /\ m < Size(c + 1)
      <4>1. Size(b) <= Size(c)
        BY <1>4, <2>2, <2>5, SizeTimes
      <4> QED  BY <1>4, <1>8, <2>2, <4>1
    <3>2. (m % Size(c)) = m /\ (m % Size(c + 1)) = m
      BY <1>8, <2>2, <3>1, LowAll
    <3>3. ~Bit(m, c)
      BY <1>8, <2>2, <2>3, <3>2
    <3>4. CASE c # b
      <4>1. b + 1 <= c
        BY <2>2, <2>5, <3>4
      <4>2. Size(b + 1) <= Size(c)
        BY <1>4, <2>2, <4>1, SizeTimes
      <4>3. n < Size(c) /\ n < Size(c + 1)
        BY <1>4, <2>2, <4>2
      <4>4. (n % Size(c)) = n /\ (n % Size(c + 1)) = n
        BY <2>2, <4>3, LowAll
      <4> QED  BY <2>2, <2>3, <3>3, <4>4
    <3> QED  BY <3>3, <3>4
  <2> QED  BY <2>2, <2>4, <2>5
<1>11. <<fr, b>> \in Falling(fr, n)
  <2>1. fr + (n - (n % Size(b)) - Size(b)) = fr
    BY <1>4, <1>7
  <2> QED  BY <1>4, <1>7, <2>1, FallingPiece
<1>12. Falling(fr + Size(b), m) = Falling(fr, n) \ {<<fr, b>>}
  <2>1. ASSUME NEW c \in Orders, Bit(n, c), c # b
        PROVE  (fr + Size(b)) + (m - (m % Size(c)) - Size(c)) = fr + (n - (n % Size(c)) - Size(c))
    <3>1. c <= b /\ c \in Shifts
      <4>1. n < Size(MaxOrder + 1) /\ (n % Size(c)) + Size(c) <= n /\ (n % Size(c)) \in Nat
        BY <2>1, LowBound
      <4>2. Size(c) < Size(b + 1) /\ Size(c) \in Nat /\ c \in Shifts
        BY <1>4, <4>1, Sizes2
      <4>3. c < b + 1
        BY <1>4, <4>2, Fits
      <4> QED  BY <1>4, <4>2, <4>3 DEF Orders
    <3>2. (m % Size(c)) = (n % Size(c))
      BY <1>9, <3>1
    <3>3. Size(c) \in Nat /\ (n % Size(c)) \in Int /\ m = n - Size(b)
      BY Bits, Sizes2 DEF m
    <3> QED  BY <1>4, <3>2, <3>3
  <2>2. fr + Size(b) \in Int /\ fr \in Int
    BY <1>4
  <2>3. \A p : p \in Falling(fr + Size(b), m) <=> \E c \in Orders :
           Bit(m, c) /\ p = <<(fr + Size(b)) + (m - (m % Size(c)) - Size(c)), c>>
    BY <1>8, <2>2, FallingPiece
  <2>4. \A p : p \in Falling(fr, n) <=> \E c \in Orders :
           Bit(n, c) /\ p = <<fr + (n - (n % Size(c)) - Size(c)), c>>
    BY <2>2, FallingPiece
  <2>5. fr + (n - (n % Size(b)) - Size(b)) = fr
    BY <1>4, <1>7
  <2>6. ASSUME NEW p \in Falling(fr + Size(b), m)  PROVE p \in Falling(fr, n) \ {<<fr, b>>}
    <3>1. PICK c \in Orders : Bit(m, c) /\ p = <<(fr + Size(b)) + (m - (m % Size(c)) - Size(c)), c>>
      BY <2>3, <2>6
    <3>2. Bit(n, c) /\ c # b
      BY <1>10, <3>1
    <3>3. p = <<fr + (n - (n % Size(c)) - Size(c)), c>>
      BY <2>1, <3>1, <3>2
    <3> QED  BY <2>4, <3>2, <3>3
  <2>7. ASSUME NEW p \in Falling(fr, n), p # <<fr, b>>  PROVE p \in Falling(fr + Size(b), m)
    <3>1. PICK c \in Orders : Bit(n, c) /\ p = <<fr + (n - (n % Size(c)) - Size(c)), c>>
      BY <2>4, <2>7
    <3>2. c # b
      BY <2>5, <2>7, <3>1
    <3>3. p = <<(fr + Size(b)) + (m - (m % Size(c)) - Size(c)), c>> /\ Bit(m, c)
      BY <1>10, <2>1, <3>1, <3>2
    <3> QED  BY <2>3, <3>3
  <2> QED  BY <2>6, <2>7
<1>13. sz \in 1 .. n
  BY <1>4, <1>5, <1>6
<1>14. /\ sz \in 1 .. n /\ b \in Orders /\ sz = Size(b) /\ <<fr, b>> \in Falling(fr, n)
       /\ Falling(fr + sz, n - sz) = Falling(fr, n) \ {<<fr, b>>}
  BY <1>4, <1>5, <1>11, <1>12, <1>13 DEF m
<1> QED  BY <1>14 DEF sz

-----------------------------------------------------------------------------
(* The lists of free blocks.                                                *)

\* What is on a list.
LEMMA EmptyList ==
    ASSUME NEW S, NEW q \in Seq(S)
    PROVE  /\ ToSet(q) \subseteq S
           /\ q = <<>> <=> ToSet(q) = {}
BY DEF ToSet

\* list_add_tail keeps a list free of repetitions if the frame is new to it.
LEMMA AppendList ==
    ASSUME NEW S, NEW q \in Seq(S), NEW f \in S
    PROVE  /\ Append(q, f) \in Seq(S)
           /\ Append(q, f) # <<>>
           /\ ToSet(Append(q, f)) = ToSet(q) \cup {f}
           /\ IsInjective(q) /\ f \notin ToSet(q) => IsInjective(Append(q, f))
<1> DEFINE r == Append(q, f)
<1>1. r \in Seq(S) /\ Len(r) = Len(q) + 1 /\ r[Len(q) + 1] = f
      /\ \A i \in 1 .. Len(q) : r[i] = q[i]
  BY AppendProperties
<1>2. r # <<>>
  BY <1>1
<1>3. ToSet(r) = ToSet(q) \cup {f}
  <2>1. DOMAIN r = 1 .. Len(q) + 1 /\ DOMAIN q = 1 .. Len(q) /\ Len(q) \in Nat
    BY <1>1
  <2> QED  BY <1>1, <2>1 DEF ToSet
<1>4. ASSUME IsInjective(q), f \notin ToSet(q)  PROVE IsInjective(r)
  <2>1. DOMAIN r = 1 .. Len(q) + 1 /\ DOMAIN q = 1 .. Len(q) /\ Len(q) \in Nat
    BY <1>1
  <2> QED  BY SMTT(30), <1>1, <1>4, <2>1 DEF ToSet, IsInjective
<1> QED  BY <1>1, <1>2, <1>3, <1>4

\* list_del closes the gap: the frames behind the one it takes off move up.
LEMMA DropMember ==
    ASSUME NEW S, NEW q \in Seq(S), NEW f \in ToSet(q)
    PROVE  \E i \in 1 .. Len(q) :
             /\ q[i] = f
             /\ Drop(q, f) \in Seq(S) /\ Len(Drop(q, f)) = Len(q) - 1
             /\ \A k \in 1 .. Len(q) - 1 :
                  Drop(q, f)[k] = IF k < i THEN q[k] ELSE q[k + 1]
<1> DEFINE i == CHOOSE j \in DOMAIN q : q[j] = f
           r == RemoveAt(q, i)
<1>1. i \in 1 .. Len(q) /\ q[i] = f /\ DOMAIN q = 1 .. Len(q) /\ Len(q) \in Nat
  BY DEF ToSet
<1>3. Drop(q, f) = r
  BY DEF Drop, i
<1> HIDE DEF i
<1>2. /\ r \in Seq(S) /\ Len(r) = Len(q) - 1
      /\ \A k \in 1 .. Len(r) : r[k] = IF k < i THEN q[k] ELSE q[k + 1]
  <2> DEFINE front == SubSeq(q, 1, i - 1)
             back == SubSeq(q, i + 1, Len(q))
  <2>1. /\ front \in Seq(S) /\ Len(front) = i - 1
        /\ \A k \in 1 .. i - 1 : front[k] = q[k]
    <3>1. \A k \in 1 .. i - 1 : q[k] \in S
      BY <1>1, ElementOfSeq
    <3> QED  BY <1>1, <3>1, SubSeqProperties
  <2>2. /\ back \in Seq(S) /\ Len(back) = Len(q) - i
        /\ \A k \in 1 .. Len(q) - i : back[k] = q[i + k]
    <3>1. \A k \in i + 1 .. Len(q) : q[k] \in S
      BY <1>1, ElementOfSeq
    <3>2. /\ back \in Seq(S)
          /\ Len(back) = IF i + 1 <= Len(q) THEN Len(q) - (i + 1) + 1 ELSE 0
          /\ \A k \in 1 .. Len(q) - (i + 1) + 1 : back[k] = q[(i + 1) + k - 1]
      BY <1>1, <3>1, SubSeqProperties
    <3>3. \A k \in 1 .. Len(q) - i : (i + 1) + k - 1 = i + k
      BY <1>1
    <3>4. Len(q) - (i + 1) + 1 = Len(q) - i /\ (~(i + 1 <= Len(q)) => Len(q) - i = 0)
      <4>1. i \in Int /\ Len(q) \in Int /\ i <= Len(q)
        BY <1>1
      <4>2. \A n, m \in Int : m - (n + 1) + 1 = m - n /\ (n <= m /\ ~(n + 1 <= m) => m - n = 0)
        OBVIOUS
      <4> QED  BY <4>1, <4>2
    <3> HIDE DEF back
    <3> QED  BY <3>2, <3>3, <3>4
  <2> HIDE DEF front, back
  <2>3. r = front \o back
    BY DEF RemoveAt, front, back
  <2>4. /\ front \o back \in Seq(S)
        /\ Len(front \o back) = Len(q) - 1
        /\ \A k \in 1 .. Len(q) - 1 : (front \o back)[k] =
             IF k <= i - 1 THEN front[k] ELSE back[k - (i - 1)]
    <3>1. /\ front \o back \in Seq(S)
          /\ Len(front \o back) = Len(front) + Len(back)
          /\ \A k \in 1 .. Len(front) + Len(back) : (front \o back)[k] =
               IF k <= Len(front) THEN front[k] ELSE back[k - Len(front)]
      BY <2>1, <2>2, ConcatProperties
    <3>2. Len(front) + Len(back) = Len(q) - 1
      BY <1>1, <2>1, <2>2
    <3> QED  BY <2>1, <3>1, <3>2
  <2>5. ASSUME NEW k \in 1 .. Len(q) - 1
        PROVE  (front \o back)[k] = IF k < i THEN q[k] ELSE q[k + 1]
    <3>1. CASE k < i
      BY <1>1, <2>1, <2>4, <3>1
    <3>2. CASE ~(k < i)
      <4>1. k - (i - 1) \in 1 .. Len(q) - i /\ i + (k - (i - 1)) = k + 1
        BY <1>1, <3>2
      <4>2. (front \o back)[k] = back[k - (i - 1)]
        <5>1. ~(k <= i - 1)
          BY <1>1, <3>2
        <5> QED  BY <2>4, <5>1
      <4>3. back[k - (i - 1)] = q[i + (k - (i - 1))]
        BY <2>2, <4>1
      <4> QED  BY <3>2, <4>1, <4>2, <4>3
    <3> QED  BY <3>1, <3>2
  <2> QED  BY <1>1, <2>3, <2>4, <2>5
<1> QED  BY <1>1, <1>2, <1>3

\* list_del takes exactly the frame off, whatever its place.
LEMMA DropList ==
    ASSUME NEW S, NEW q \in Seq(S), NEW f, IsInjective(q)
    PROVE  /\ Drop(q, f) \in Seq(S)
           /\ IsInjective(Drop(q, f))
           /\ ToSet(Drop(q, f)) = ToSet(q) \ {f}
<1>1. CASE f \notin ToSet(q)
  BY <1>1 DEF Drop
<1>2. CASE f \in ToSet(q)
  <2> DEFINE r == Drop(q, f)
  <2>1. PICK i \in 1 .. Len(q) :
          /\ q[i] = f /\ r \in Seq(S) /\ Len(r) = Len(q) - 1
          /\ \A k \in 1 .. Len(q) - 1 : r[k] = IF k < i THEN q[k] ELSE q[k + 1]
    BY <1>2, DropMember
  <2>2. DOMAIN q = 1 .. Len(q) /\ Len(q) \in Nat
    OBVIOUS
  <2> HIDE DEF r
  <2>3. DOMAIN r = 1 .. Len(q) - 1
    BY <2>1, <2>2
  <2>4. IsInjective(r)
    <3>1. SUFFICES ASSUME NEW a \in 1 .. Len(q) - 1, NEW b \in 1 .. Len(q) - 1, r[a] = r[b]
                   PROVE  a = b
      BY <2>3 DEF IsInjective
    <3> DEFINE old(k) == IF k < i THEN k ELSE k + 1
    <3>2. \A k \in 1 .. Len(q) - 1 : old(k) \in DOMAIN q /\ r[k] = q[old(k)]
      BY <2>1, <2>2
    <3>3. old(a) = old(b)
      BY <3>1, <3>2 DEF IsInjective
    <3> QED  BY <2>1, <3>3
  <2>5. ToSet(r) = ToSet(q) \ {f}
    <3>1. ASSUME NEW x \in ToSet(r)  PROVE x \in ToSet(q) /\ x # f
      BY <2>1, <2>2, <2>3, <3>1 DEF ToSet, IsInjective
    <3>2. ASSUME NEW x \in ToSet(q), x # f  PROVE x \in ToSet(r)
      <4>1. PICK k \in 1 .. Len(q) : q[k] = x
        BY <2>1 DEF ToSet
      <4>2. CASE k < i
        BY <2>1, <2>2, <2>3, <4>1, <4>2 DEF ToSet
      <4>3. CASE k > i
        <5>1. k - 1 \in 1 .. Len(q) - 1 /\ ~(k - 1 < i) /\ (k - 1) + 1 = k
          BY <2>1, <4>1, <4>3
        <5> QED  BY <2>1, <2>2, <2>3, <4>1, <5>1 DEF ToSet
      <4> QED  BY <2>1, <3>2, <4>1, <4>2, <4>3
    <3> QED  BY <3>1, <3>2
  <2> QED  BY <2>1, <2>4, <2>5 DEF r
<1> QED  BY <1>1, <1>2

\* Taking the first block off.
LEMMA TailList ==
    ASSUME NEW S, NEW q \in Seq(S), q # <<>>, IsInjective(q)
    PROVE  /\ Tail(q) \in Seq(S) /\ IsInjective(Tail(q)) /\ Head(q) \in ToSet(q)
           /\ ToSet(Tail(q)) = ToSet(q) \ {Head(q)}
<1> DEFINE r == Tail(q)
<1>1. /\ Len(q) \in Nat /\ Len(q) >= 1 /\ DOMAIN q = 1 .. Len(q) /\ Head(q) = q[1]
      /\ r \in Seq(S) /\ Len(r) = Len(q) - 1 /\ DOMAIN r = 1 .. Len(q) - 1
      /\ \A i \in 1 .. Len(q) - 1 : r[i] = q[i + 1]
  BY HeadTailProperties
<1> HIDE DEF r
<1>2. IsInjective(r)
  BY SMTT(30), <1>1 DEF IsInjective
<1>3. ToSet(r) = ToSet(q) \ {Head(q)}
  <2>1. ASSUME NEW x \in ToSet(r)  PROVE x \in ToSet(q) /\ x # Head(q)
    BY SMTT(30), <1>1, <2>1 DEF ToSet, IsInjective
  <2>2. ASSUME NEW x \in ToSet(q), x # Head(q)  PROVE x \in ToSet(r)
    <3>1. PICK i \in 1 .. Len(q) : q[i] = x
      BY <1>1 DEF ToSet
    <3>2. i # 1
      BY <1>1, <2>2, <3>1
    <3>3. i - 1 \in 1 .. Len(q) - 1 /\ (i - 1) + 1 = i
      BY <1>1, <3>1, <3>2
    <3> QED  BY <1>1, <3>1, <3>3 DEF ToSet
  <2> QED  BY <2>1, <2>2
<1>4. Head(q) \in ToSet(q)
  <2>1. 1 \in DOMAIN q
    BY <1>1
  <2> QED  BY <1>1, <2>1 DEF ToSet
<1> QED  BY <1>1, <1>2, <1>3, <1>4 DEF r

\* Blocks of which no two have the same order.
OnePerOrder(B) == \A p, q \in B : p[2] = q[2] => p = q

\* What is on the lists once some blocks have been added.
LEMMA AddTailList ==
    ASSUME NEW S, NEW lists \in [Orders -> Seq(S)], NEW B \in SUBSET (S \X Orders),
           OnePerOrder(B), \A o \in Orders : IsInjective(lists[o]),
           \A p \in B : p[1] \notin ToSet(lists[p[2]])
    PROVE  /\ AddTail(lists, B) \in [Orders -> Seq(S)]
           /\ \A o \in Orders : IsInjective(AddTail(lists, B)[o])
           /\ \A o \in Orders : \A x :
                x \in ToSet(AddTail(lists, B)[o]) <=> x \in ToSet(lists[o]) \/ <<x, o>> \in B
<1> DEFINE L(o) == IF \E b \in B : b[2] = o
                   THEN Append(lists[o], (CHOOSE b \in B : b[2] = o)[1])
                   ELSE lists[o]
<1>1. AddTail(lists, B) = [o \in Orders |-> L(o)]
  BY DEF AddTail
<1>2. ASSUME NEW o \in Orders
      PROVE  /\ L(o) \in Seq(S) /\ IsInjective(L(o))
             /\ \A x : x \in ToSet(L(o)) <=> x \in ToSet(lists[o]) \/ <<x, o>> \in B
  <2>1. CASE \E b \in B : b[2] = o
    <3>1. PICK b \in B : b[2] = o /\ b = (CHOOSE c \in B : c[2] = o)
      BY <2>1
    <3>2. L(o) = Append(lists[o], b[1])
      BY <2>1, <3>1
    <3>3. b[1] \in S /\ b = <<b[1], o>> /\ \A x : <<x, o>> \in B <=> x = b[1]
      <4>1. b[1] \in S /\ b = <<b[1], o>>
        <5>1. b \in S \X Orders /\ b[2] = o
          BY <3>1
        <5> QED  BY <5>1
      <4>2. ASSUME NEW x, <<x, o>> \in B  PROVE x = b[1]
        <5>1. <<x, o>> = b
          BY <3>1, <4>2 DEF OnePerOrder
        <5> QED  BY <5>1
      <4> QED  BY <3>1, <4>1, <4>2
    <3>4. lists[o] \in Seq(S) /\ IsInjective(lists[o]) /\ b[1] \notin ToSet(lists[o])
      BY <3>1
    <3>5. /\ Append(lists[o], b[1]) \in Seq(S)
          /\ ToSet(Append(lists[o], b[1])) = ToSet(lists[o]) \cup {b[1]}
          /\ IsInjective(Append(lists[o], b[1]))
      BY <3>3, <3>4, AppendList
    <3> HIDE DEF L
    <3> QED  BY <3>2, <3>3, <3>5
  <2>2. CASE ~ \E b \in B : b[2] = o
    <3>1. L(o) = lists[o] /\ \A x : <<x, o>> \notin B
      BY <2>2
    <3> HIDE DEF L
    <3> QED  BY <3>1
  <2> QED  BY <2>1, <2>2
<1> HIDE DEF L
<1> QED  BY <1>1, <1>2

\* What buddy_set_order leaves in the frames.
LEMMA SetOrdersAt ==
    ASSUME NEW B, \A p, q \in B : p[1] = q[1] => p = q, NEW f \in Frames
    PROVE  /\ \A p \in B : p[1] = f => SetOrders(B)[f] = p[2]
           /\ f \notin First(B) => SetOrders(B)[f] = order[f]
<1>1. SetOrders(B)[f] = IF \E b \in B : b[1] = f
                        THEN (CHOOSE b \in B : b[1] = f)[2] ELSE order[f]
  BY DEF SetOrders
<1>2. ASSUME NEW p \in B, p[1] = f  PROVE SetOrders(B)[f] = p[2]
  <2>1. (CHOOSE b \in B : b[1] = f) = p
    BY <1>2
  <2> QED  BY <1>1, <1>2, <2>1
<1>3. f \notin First(B) => SetOrders(B)[f] = order[f]
  BY <1>1 DEF First
<1> QED  BY <1>2, <1>3

-----------------------------------------------------------------------------
(* The invariant.                                                           *)

\* What call[t] is.
CallType ==
    [at : {"idle", "mark", "rest", "free"}, fr : Managed \cup {0}, n : 0 .. N]

\* Two regions never share a frame, and together they are the managed frames.
Apart(R) == \A r, q \in R : r # q => RangeOf(r[2]) \cap RangeOf(q[2]) = {}

Covers(R) ==
    /\ \A r \in R : r[2] \in Nat \X (Nat \ {0}) /\ RangeOf(r[2]) \subseteq Managed
    /\ \A x \in Managed : \E r \in R : x \in RangeOf(r[2])

\* A free block is aligned and its buddy is not free as a whole.
Merged ==
    \A o \in Orders : \A f \in ToSet(dir[o]) :
      /\ Aligned(f, o)
      /\ o < MaxOrder => buddy_index(f, o) \notin ToSet(dir[o])

\* n frames from fr on can be given back piece by piece.
Marked(fr, n) ==
    \A p \in Falling(fr, n) : order[p[1]] = p[2] /\ p[1] \notin free /\ Aligned(p[1], p[2])

\* An allocation can be given back.
Holds(b) == b[2] \in Sizes /\ b[2] < Size(MaxOrder + 1) /\ Marked(b[1], b[2])

\* A thread that allocates has a block that is too large; one that frees has
\* its order in every piece.
Called(c) ==
    LET k == ceil_order(c.n)
    IN /\ c.at \in {"mark", "rest"} =>
            c.n \in Sizes /\ k \in Orders /\ c.n < Size(k) /\ Aligned(c.fr, k)
       /\ c.at = "rest" => Marked(c.fr, c.n)
       /\ c.at = "free" => c.n >= 1 /\ c.n < Size(MaxOrder + 1) /\ Marked(c.fr, c.n)

\* The inductive invariant.
BInv ==
    /\ TypeOK /\ FlagsExact
    /\ \A o \in Orders : IsInjective(dir[o])
    /\ Apart(Regions) /\ Covers(Regions)
    /\ Merged
    /\ \A t \in Threads : Called(call[t]) /\ \A b \in held[t] : Holds(b)

\* Regions, by membership.
InRegions(r) ==
    \/ \E o \in Orders : \E f \in ToSet(dir[o]) : r = <<<<"free">>, <<f, Size(o)>>>>
    \/ \E t \in Threads : \E b \in held[t] : r = <<<<"held", t>>, b>>
    \/ \E t \in Threads : \E b \in InHand(t) : r = <<<<"hand", t>>, b>>

LEMMA RegionIs == \A r : r \in Regions <=> InRegions(r)
<1> SUFFICES ASSUME NEW r  PROVE r \in Regions <=> InRegions(r)
  OBVIOUS
<1> DEFINE F == {<<<<"free">>, b>> : b \in FreeBlocks}
           H == UNION {{<<<<"held", t>>, b>> : b \in held[t]} : t \in Threads}
           C == UNION {{<<<<"hand", t>>, b>> : b \in InHand(t)} : t \in Threads}
<1>1. r \in F <=> \E o \in Orders : \E f \in ToSet(dir[o]) : r = <<<<"free">>, <<f, Size(o)>>>>
  <2>1. \A b : b \in FreeBlocks <=> \E o \in Orders : \E f \in ToSet(dir[o]) : b = <<f, Size(o)>>
    BY DEF FreeBlocks
  <2> QED  BY <2>1
<1>2. r \in H <=> \E t \in Threads : \E b \in held[t] : r = <<<<"held", t>>, b>>
  OBVIOUS
<1>3. r \in C <=> \E t \in Threads : \E b \in InHand(t) : r = <<<<"hand", t>>, b>>
  OBVIOUS
<1>4. Regions = F \cup H \cup C
  BY DEF Regions
<1> HIDE DEF F, H, C
<1> QED  BY <1>1, <1>2, <1>3, <1>4 DEF InRegions

\* Some regions give way to others that cover the same frames.
LEMMA Exchange ==
    ASSUME NEW R, NEW A, NEW B, NEW R2, Apart(R), Covers(R), A \subseteq R,
           \A r : r \in R2 <=> (r \in R /\ r \notin A) \/ r \in B,
           Apart(B), \A r \in B : r[2] \in Nat \X (Nat \ {0}),
           \A x : (\E r \in A : x \in RangeOf(r[2])) <=> (\E r \in B : x \in RangeOf(r[2]))
    PROVE  Apart(R2) /\ Covers(R2)
<1>1. ASSUME NEW r \in R, r \notin A, NEW q \in B  PROVE RangeOf(r[2]) \cap RangeOf(q[2]) = {}
  BY <1>1 DEF Apart
<1>2. Apart(R2)
  BY <1>1 DEF Apart
<1>3. ASSUME NEW r \in B  PROVE RangeOf(r[2]) \subseteq Managed
  BY DEF Covers
<1>4. ASSUME NEW x \in Managed  PROVE \E r \in R2 : x \in RangeOf(r[2])
  <2>1. PICK r \in R : x \in RangeOf(r[2])
    BY DEF Covers
  <2> QED  BY <2>1
<1>5. \A r \in R2 : r[2] \in Nat \X (Nat \ {0}) /\ RangeOf(r[2]) \subseteq Managed
  BY <1>3 DEF Covers
<1> QED  BY <1>2, <1>4, <1>5 DEF Covers

-----------------------------------------------------------------------------
(* What a step does to the invariant.  It takes the free blocks X off the   *)
(* lists and puts the blocks K on them; thread t gets the allocations G.    *)

Listed(X, K) ==
    /\ \A p \in X : p \in Managed \X Orders /\ p[1] \in ToSet(dir[p[2]])
    /\ K \subseteq Nat \X Orders
    /\ dir' \in [Orders -> Seq(Managed)] /\ \A o \in Orders : IsInjective(dir'[o])
    /\ \A o \in Orders : \A x :
         x \in ToSet(dir'[o]) <=> (x \in ToSet(dir[o]) /\ <<x, o>> \notin X) \/ <<x, o>> \in K

\* Frames of what t takes, and of what it leaves.
Taken(t, X, x) ==
    \/ \E p \in X : x \in Cells(p[1], p[2])
    \/ \E b \in InHand(t) : x \in RangeOf(b)

Placed(t, K, G, x) ==
    \/ \E p \in K : x \in Cells(p[1], p[2])
    \/ \E b \in InHand(t)' \cup G : x \in RangeOf(b)

Balanced(t, X, K, G) ==
    /\ \A x : Taken(t, X, x) <=> Placed(t, K, G, x)
    /\ \A p, q \in K : p # q => Cells(p[1], p[2]) \cap Cells(q[1], q[2]) = {}
    /\ \A p \in K : \A b \in InHand(t)' \cup G : Cells(p[1], p[2]) \cap RangeOf(b) = {}
    /\ \A b, c \in InHand(t)' \cup G : b = c
    /\ InHand(t)' \cap G = {}
    /\ \A b \in InHand(t)' \cup G : b \in Nat \X (Nat \ {0})

\* The flags of each frame after the step.
Flagged(t, X, K) ==
    /\ order' \in [Frames -> Orders \cup {NoOrder}] /\ free' \subseteq Managed
    /\ \A x \in Frames :
         \/ \E k \in K : k[1] = x /\ x \in free' /\ order'[x] = k[2]
         \/ x \notin First(K) /\ Taken(t, X, x) /\ x \notin free'
         \/ /\ x \notin First(K) /\ order'[x] = order[x] /\ (x \in free' <=> x \in free)
            /\ \A o \in Orders : <<x, o>> \notin X

\* All of it, with what K and the call that goes on must fulfil.
Moves(t, X, K, G) ==
    /\ Listed(X, K) /\ Balanced(t, X, K, G) /\ Flagged(t, X, K)
    /\ \A p \in K : /\ Aligned(p[1], p[2])
                    /\ p[2] < MaxOrder => buddy_index(p[1], p[2]) \notin ToSet(dir'[p[2]])
    /\ held' = [held EXCEPT ![t] = @ \cup G]
    /\ call' = [call EXCEPT ![t] = call'[t]]
    /\ call'[t] \in [at : {"idle", "mark", "rest", "free"}, fr : Nat, n : Nat]
    /\ call'[t].at = "idle" => call'[t] = Idle
    /\ Called(call[t])' /\ \A b \in G : Holds(b)'

\* Regions have different tags if they are of different kinds or threads.
LEMMA Tags ==
    /\ \A t : <<"free">> # <<"held", t>> /\ <<"free">> # <<"hand", t>>
    /\ \A t, u : <<"held", t>> # <<"hand", u>>
    /\ \A t, u : <<"held", t>> = <<"held", u>> => t = u
    /\ \A t, u : <<"hand", t>> = <<"hand", u>> => t = u
<1>1. \A t : <<"free">>[1] = "free" /\ <<"held", t>>[1] = "held" /\ <<"hand", t>>[1] = "hand"
             /\ <<"held", t>>[2] = t /\ <<"hand", t>>[2] = t
  OBVIOUS
<1>2. "free" # "held" /\ "free" # "hand" /\ "held" # "hand"
  OBVIOUS
<1> QED  BY <1>1, <1>2

\* A free block, as a region.
FR(f, o) == <<<<"free">>, <<f, Size(o)>>>>

\* A free block is known by its frame and order.
LEMMA FRIs ==
    /\ \A f, g : \A o, p \in Orders : FR(f, o) = FR(g, p) => f = g /\ o = p
    /\ \A f, o : FR(f, o)[2] = <<f, Size(o)>> /\ RangeOf(FR(f, o)[2]) = Cells(f, o)
    /\ \A f \in Nat : \A o \in Orders : FR(f, o)[2] \in Nat \X (Nat \ {0}) /\ f \in Cells(f, o)
<1>1. ASSUME NEW f, NEW g, NEW o \in Orders, NEW p \in Orders, FR(f, o) = FR(g, p)
      PROVE  f = g /\ o = p
  <2>1. f = g /\ Size(o) = Size(p)
    BY <1>1 DEF FR
  <2>2. o \in Shifts /\ p \in Shifts /\ Size(o) \in Nat /\ o \in Nat /\ p \in Nat
    BY Sizes2 DEF Orders
  <2>3. o <= p /\ p <= o
    BY <2>1, <2>2, Fits
  <2> QED  BY <2>1, <2>2, <2>3
<1>2. \A f, o : FR(f, o)[2] = <<f, Size(o)>> /\ RangeOf(FR(f, o)[2]) = Cells(f, o)
  BY DEF FR, RangeOf, Cells
<1>3. ASSUME NEW f \in Nat, NEW o \in Orders
      PROVE  FR(f, o)[2] \in Nat \X (Nat \ {0}) /\ f \in Cells(f, o)
  <2>1. Size(o) \in Nat /\ Size(o) >= 1
    BY Sizes2
  <2> QED  BY <2>1 DEF FR, Cells
<1> QED  BY <1>1, <1>2, <1>3

\* When blocks change hands, the regions still do not overlap and still cover
\* every frame.
LEMMA MoveRegions ==
    ASSUME BInv, NEW t \in Threads, NEW X, NEW K, NEW G, Moves(t, X, K, G)
    PROVE  Apart(Regions)' /\ Covers(Regions)'
<1> DEFINE FX == {FR(p[1], p[2]) : p \in X}
           FK == {FR(p[1], p[2]) : p \in K}
           H0 == {<<<<"hand", t>>, b>> : b \in InHand(t)}
           H1 == {<<<<"hand", t>>, b>> : b \in InHand(t)'}
           HG == {<<<<"held", t>>, b>> : b \in G}
           A == FX \cup H0
           B == FK \cup H1 \cup HG
           R == Regions
           Q == Regions'
<1>1. /\ \A p \in X : p[1] \in Nat /\ p[2] \in Orders /\ p = <<p[1], p[2]>>
                      /\ p[1] \in ToSet(dir[p[2]])
      /\ \A p \in K : p[1] \in Nat /\ p[2] \in Orders /\ p = <<p[1], p[2]>>
      /\ \A o \in Orders : \A x :
           x \in ToSet(dir'[o]) <=> (x \in ToSet(dir[o]) /\ <<x, o>> \notin X) \/ <<x, o>> \in K
      /\ \A p \in K : p[1] \in ToSet(dir'[p[2]])
  <2>1. Managed \subseteq Nat
    BY BuddyAssumption DEF Managed
  <2> QED  BY <2>1 DEF Moves, Listed
<1>2. /\ held'[t] = held[t] \cup G
      /\ \A u \in Threads : u # t => held'[u] = held[u] /\ call'[u] = call[u]
  BY DEF Moves, BInv, TypeOK
<1>3. \A u \in Threads : u # t => InHand(u)' = InHand(u)
  BY <1>2 DEF InHand
<1>4. /\ \A r : r \in R <=> InRegions(r)
      /\ (\A r : r \in Regions <=> InRegions(r))'
  BY RegionIs, PTL
<1>5. \A r : r \in Q <=> InRegions(r)'
  BY <1>4
<1>6. A \subseteq R
  <2>1. ASSUME NEW p \in X  PROVE InRegions(FR(p[1], p[2]))
    BY <1>1 DEF InRegions, FR
  <2>2. ASSUME NEW b \in InHand(t)  PROVE InRegions(<<<<"hand", t>>, b>>)
    BY DEF InRegions
  <2> QED  BY <1>4, <2>1, <2>2
<1>7. ASSUME NEW r  PROVE r \in Q <=> (r \in R /\ r \notin A) \/ r \in B
  <2> DEFINE fr1 == \E o \in Orders : \E f \in ToSet(dir'[o]) : r = FR(f, o)
             fr0 == \E o \in Orders : \E f \in ToSet(dir[o]) : r = FR(f, o)
             he1 == \E u \in Threads : \E b \in held'[u] : r = <<<<"held", u>>, b>>
             he0 == \E u \in Threads : \E b \in held[u] : r = <<<<"held", u>>, b>>
             ha1 == \E u \in Threads : \E b \in InHand(u)' : r = <<<<"hand", u>>, b>>
             ha0 == \E u \in Threads : \E b \in InHand(u) : r = <<<<"hand", u>>, b>>
  <2>1. r \in Q <=> fr1 \/ he1 \/ ha1
    BY <1>5 DEF InRegions, FR
  <2>2. r \in R <=> fr0 \/ he0 \/ ha0
    BY <1>4 DEF InRegions, FR
  <2>3. fr1 <=> (fr0 /\ r \notin FX) \/ r \in FK
    <3>1. ASSUME fr1  PROVE (fr0 /\ r \notin FX) \/ r \in FK
      <4>0. PICK o \in Orders : \E f \in ToSet(dir'[o]) : r = FR(f, o)
        BY <3>1
      <4>1. PICK f \in ToSet(dir'[o]) : r = FR(f, o)
        BY <4>0
      <4>2. CASE <<f, o>> \in K
        <5>1. FR(<<f, o>>[1], <<f, o>>[2]) = r
          BY <4>1
        <5> QED  BY <4>2, <5>1
      <4>3. CASE f \in ToSet(dir[o]) /\ <<f, o>> \notin X
        <5>1. ASSUME NEW p \in X, r = FR(p[1], p[2])  PROVE FALSE
          <6>2. FR(p[1], p[2]) = FR(f, o) /\ p[2] \in Orders
            BY <1>1, <4>1, <5>1
          <6>1. p[1] = f /\ p[2] = o
            BY <6>2, FRIs
          <6> QED  BY <1>1, <4>3, <6>1
        <5> QED  BY <4>1, <4>3, <5>1
      <4> QED  BY <1>1, <4>1, <4>2, <4>3
    <3>2. ASSUME fr0, r \notin FX  PROVE fr1
      <4>0. PICK o \in Orders : \E f \in ToSet(dir[o]) : r = FR(f, o)
        BY <3>2
      <4>1. PICK f \in ToSet(dir[o]) : r = FR(f, o)
        BY <4>0
      <4>2. <<f, o>> \notin X
        <5>1. SUFFICES ASSUME <<f, o>> \in X  PROVE FALSE
          OBVIOUS
        <5>2. FR(<<f, o>>[1], <<f, o>>[2]) = r
          BY <4>1
        <5> QED  BY <3>2, <5>1, <5>2
      <4> QED  BY <1>1, <4>1, <4>2
    <3>3. ASSUME r \in FK  PROVE fr1
      BY <1>1, <3>3
    <3> QED  BY <3>1, <3>2, <3>3
  <2>4. he1 <=> he0 \/ r \in HG
    BY <1>2
  <2>5. ha1 <=> (ha0 /\ r \notin H0) \/ r \in H1
    BY <1>3, Tags
  <2>6. /\ r \in FX => ~he0 /\ ~ha0
        /\ r \in H0 => ~fr0 /\ ~he0
    BY Tags DEF FR
  <2> HIDE DEF fr1, fr0, he1, he0, ha1, ha0, FX, FK, H0, H1, HG, R, Q
  <2> QED  BY <2>1, <2>2, <2>3, <2>4, <2>5, <2>6
<1>8. Apart(B)
  <2>1. /\ \A p, q \in K : p # q => Cells(p[1], p[2]) \cap Cells(q[1], q[2]) = {}
        /\ \A p \in K : \A b \in InHand(t)' \cup G : Cells(p[1], p[2]) \cap RangeOf(b) = {}
        /\ \A b, c \in InHand(t)' \cup G : b = c
        /\ InHand(t)' \cap G = {}
    BY DEF Moves, Balanced
  <2>2. \A r \in FK : \E p \in K : r = FR(p[1], p[2]) /\ RangeOf(r[2]) = Cells(p[1], p[2])
    BY FRIs
  <2>3. \A r \in H1 \cup HG : r[2] \in InHand(t)' \cup G
    OBVIOUS
  <2>4. \A r, q \in H1 \cup HG : r = q
    <3>1. SUFFICES ASSUME NEW r \in H1 \cup HG, NEW q \in H1 \cup HG  PROVE r = q
      OBVIOUS
    <3>2. r[2] = q[2] /\ r[2] \in InHand(t)' \cup G
      BY <2>1, <2>3
    <3>3. (r \in H1 /\ q \in H1) \/ (r \in HG /\ q \in HG)
      BY <2>1, <3>2
    <3> QED  BY <3>2, <3>3
  <2> HIDE DEF FK, H1, HG
  <2>5. ASSUME NEW r \in FK, NEW q \in FK, r # q  PROVE RangeOf(r[2]) \cap RangeOf(q[2]) = {}
    <3>1. PICK p \in K : r = FR(p[1], p[2]) /\ RangeOf(r[2]) = Cells(p[1], p[2])
      BY <2>2
    <3>2. PICK m \in K : q = FR(m[1], m[2]) /\ RangeOf(q[2]) = Cells(m[1], m[2])
      BY <2>2
    <3>3. p # m
      BY <2>5, <3>1, <3>2
    <3> QED  BY <2>1, <3>1, <3>2, <3>3
  <2>6. ASSUME NEW r \in FK, NEW q \in H1 \cup HG  PROVE RangeOf(r[2]) \cap RangeOf(q[2]) = {}
    BY <2>1, <2>2, <2>3
  <2> QED  BY <2>4, <2>5, <2>6 DEF Apart
<1>9. \A r \in B : r[2] \in Nat \X (Nat \ {0})
  <2>1. \A b \in InHand(t)' \cup G : b \in Nat \X (Nat \ {0})
    BY DEF Moves, Balanced
  <2>2. ASSUME NEW p \in K  PROVE FR(p[1], p[2])[2] \in Nat \X (Nat \ {0})
    BY <1>1, FRIs
  <2> QED  BY <2>1, <2>2
<1>10. \A x : (\E r \in A : x \in RangeOf(r[2])) <=> (\E r \in B : x \in RangeOf(r[2]))
  <2>1. SUFFICES ASSUME NEW x
                 PROVE  (\E r \in A : x \in RangeOf(r[2])) <=> (\E r \in B : x \in RangeOf(r[2]))
    OBVIOUS
  <2>2. (\E r \in A : x \in RangeOf(r[2])) <=> Taken(t, X, x)
    <3>1. (\E r \in FX : x \in RangeOf(r[2])) <=> \E p \in X : x \in Cells(p[1], p[2])
      BY FRIs
    <3>2. (\E r \in H0 : x \in RangeOf(r[2])) <=> \E b \in InHand(t) : x \in RangeOf(b)
      <4>1. \A b : <<<<"hand", t>>, b>>[2] = b
        OBVIOUS
      <4>2. ASSUME NEW r \in H0, x \in RangeOf(r[2])
            PROVE  \E b \in InHand(t) : x \in RangeOf(b)
        BY <4>1, <4>2
      <4>3. ASSUME NEW b \in InHand(t), x \in RangeOf(b)
            PROVE  \E r \in H0 : x \in RangeOf(r[2])
        <5>1. <<<<"hand", t>>, b>> \in H0
          OBVIOUS
        <5>2. x \in RangeOf(<<<<"hand", t>>, b>>[2])
          BY <4>1, <4>3
        <5> HIDE DEF H0
        <5> QED  BY <5>1, <5>2
      <4> QED  BY <4>2, <4>3
    <3> HIDE DEF FX, H0
    <3> QED  BY <3>1, <3>2 DEF Taken
  <2>3. (\E r \in B : x \in RangeOf(r[2])) <=> Placed(t, K, G, x)
    <3>1. (\E r \in FK : x \in RangeOf(r[2])) <=> \E p \in K : x \in Cells(p[1], p[2])
      BY FRIs
    <3>2. (\E r \in H1 \cup HG : x \in RangeOf(r[2]))
            <=> \E b \in InHand(t)' \cup G : x \in RangeOf(b)
      <4>1. \A b : <<<<"hand", t>>, b>>[2] = b /\ <<<<"held", t>>, b>>[2] = b
        OBVIOUS
      <4>2. ASSUME NEW r \in H1 \cup HG, x \in RangeOf(r[2])
            PROVE  \E b \in InHand(t)' \cup G : x \in RangeOf(b)
        BY <4>1, <4>2
      <4>3. ASSUME NEW b \in InHand(t)' \cup G, x \in RangeOf(b)
            PROVE  \E r \in H1 \cup HG : x \in RangeOf(r[2])
        <5>1. <<<<"hand", t>>, b>> \in H1 \cup HG \/ <<<<"held", t>>, b>> \in H1 \cup HG
          OBVIOUS
        <5>2. /\ x \in RangeOf(<<<<"hand", t>>, b>>[2])
              /\ x \in RangeOf(<<<<"held", t>>, b>>[2])
          BY <4>1, <4>3
        <5> HIDE DEF H1, HG
        <5> QED  BY <5>1, <5>2
      <4> QED  BY <4>2, <4>3
    <3> HIDE DEF FK, H1, HG
    <3> QED  BY <3>1, <3>2 DEF Placed
  <2>4. Taken(t, X, x) <=> Placed(t, K, G, x)
    BY DEF Moves, Balanced
  <2> QED  BY <2>2, <2>3, <2>4
<1>11. Apart(R) /\ Covers(R)
  BY DEF BInv
<1> HIDE DEF A, B, R, Q
<1>12. Apart(Q) /\ Covers(Q)
  BY <1>6, <1>7, <1>8, <1>9, <1>10, <1>11, Exchange
<1> QED  BY <1>12 DEF Q, Apart, Covers

\* A block on a list that shares a frame with what t takes is one t takes.
LEMMA Gone ==
    ASSUME BInv, NEW t \in Threads, NEW X, NEW K, Listed(X, K),
           NEW x, Taken(t, X, x), NEW o \in Orders, x \in ToSet(dir[o])
    PROVE  <<x, o>> \in X
<1>1. FR(x, o) \in Regions
  BY RegionIs DEF InRegions, FR
<1>2. x \in Nat
  <2>1. dir[o] \in Seq(Managed) /\ Managed \subseteq Nat
    BY BuddyAssumption DEF BInv, TypeOK, Managed
  <2> QED  BY <2>1, EmptyList
<1>3. x \in RangeOf(FR(x, o)[2])
  BY <1>2, FRIs
<1>4. Apart(Regions)
  BY DEF BInv
<1>5. ASSUME NEW p \in X, x \in Cells(p[1], p[2])  PROVE <<x, o>> \in X
  <2>1. p \in Managed \X Orders /\ p[1] \in ToSet(dir[p[2]])
    BY DEF Listed
  <2>2. FR(p[1], p[2]) \in Regions
    BY <2>1, RegionIs DEF InRegions, FR
  <2>3. x \in RangeOf(FR(p[1], p[2])[2])
    BY <1>5, FRIs
  <2>4. FR(p[1], p[2]) = FR(x, o)
    BY <1>1, <1>3, <1>4, <2>2, <2>3 DEF Apart
  <2>5. p[1] = x /\ p[2] = o
    BY <2>1, <2>4, FRIs
  <2>6. p = <<p[1], p[2]>>
    BY <2>1
  <2> QED  BY <2>5, <2>6
<1>6. ASSUME NEW b \in InHand(t), x \in RangeOf(b)  PROVE FALSE
  <2>1. <<<<"hand", t>>, b>> \in Regions
    BY RegionIs DEF InRegions
  <2>2. x \in RangeOf(<<<<"hand", t>>, b>>[2])
    BY <1>6
  <2>3. <<<<"hand", t>>, b>> = FR(x, o)
    BY <1>1, <1>3, <1>4, <2>1, <2>2 DEF Apart
  <2> QED  BY <2>3, Tags DEF FR
<1> QED  BY <1>5, <1>6 DEF Taken

\* When blocks change hands, the flags still say which blocks are free.
LEMMA MoveFlags ==
    ASSUME BInv, NEW t \in Threads, NEW X, NEW K, NEW G, Moves(t, X, K, G)
    PROVE  FlagsExact'
<1>1. SUFFICES ASSUME NEW x \in Frames, NEW o \in Orders
               PROVE  x \in ToSet(dir'[o]) <=> x \in free' /\ order'[x] = o
  BY DEF FlagsExact
<1>2. /\ Listed(X, K) /\ Balanced(t, X, K, G)
      /\ x \in ToSet(dir'[o]) <=> (x \in ToSet(dir[o]) /\ <<x, o>> \notin X) \/ <<x, o>> \in K
  BY DEF Moves, Listed
<1>3. Taken(t, X, x) => ~(x \in ToSet(dir[o]) /\ <<x, o>> \notin X)
  BY <1>2, Gone
<1>4. CASE \E k \in K : k[1] = x /\ x \in free' /\ order'[x] = k[2]
  <2>1. PICK k \in K : k[1] = x /\ x \in free' /\ order'[x] = k[2]
    BY <1>4
  <2>2. k \in Nat \X Orders /\ k = <<x, k[2]>> /\ x \in Cells(x, k[2])
    <3>1. k \in Nat \X Orders
      BY <1>2 DEF Listed
    <3> QED  BY <2>1, <3>1, FRIs
  <2>3. Taken(t, X, x)
    BY <1>2, <2>1, <2>2 DEF Balanced, Placed
  <2>4. <<x, o>> \in K => o = k[2]
    <3>1. SUFFICES ASSUME <<x, o>> \in K, o # k[2]  PROVE FALSE
      OBVIOUS
    <3>2. x \in Cells(x, o) /\ <<x, o>>[1] = x /\ <<x, o>>[2] = o /\ <<x, o>> # k
      BY <2>2, <3>1, FRIs
    <3>3. Cells(x, o) \cap Cells(k[1], k[2]) = {}
      BY <1>2, <2>1, <3>1, <3>2 DEF Balanced
    <3> QED  BY <2>1, <2>2, <3>2, <3>3
  <2> QED  BY <1>2, <1>3, <2>1, <2>2, <2>3, <2>4
<1>5. CASE x \notin First(K) /\ Taken(t, X, x) /\ x \notin free'
  <2>1. <<x, o>> \notin K
    BY <1>5 DEF First
  <2> QED  BY <1>2, <1>3, <1>5, <2>1
<1>6. CASE /\ x \notin First(K) /\ order'[x] = order[x] /\ (x \in free' <=> x \in free)
           /\ <<x, o>> \notin X
  <2>1. <<x, o>> \notin K
    BY <1>6 DEF First
  <2>2. x \in ToSet(dir[o]) <=> x \in free /\ order[x] = o
    BY DEF BInv, FlagsExact
  <2> QED  BY <1>2, <1>6, <2>1, <2>2
<1> QED  BY <1>4, <1>5, <1>6 DEF Moves, Flagged

\* When blocks change hands, no two buddies are left on one list.
LEMMA MoveMerged ==
    ASSUME BInv, NEW t \in Threads, NEW X, NEW K, NEW G, Moves(t, X, K, G)
    PROVE  Merged'
<1>1. SUFFICES ASSUME NEW o \in Orders, NEW f \in ToSet(dir'[o])
               PROVE  /\ Aligned(f, o)
                      /\ o < MaxOrder => buddy_index(f, o) \notin ToSet(dir'[o])
  BY DEF Merged, Aligned, Size, buddy_index, Bit
<1>2. /\ \A x : x \in ToSet(dir'[o])
                  <=> (x \in ToSet(dir[o]) /\ <<x, o>> \notin X) \/ <<x, o>> \in K
      /\ dir'[o] \in Seq(Managed)
  BY DEF Moves, Listed
<1>3. f \in Nat
  <2>1. Managed \subseteq Nat
    BY BuddyAssumption DEF Managed
  <2> QED  BY <1>2, <2>1, EmptyList
<1>4. \A x : <<x, o>> \in K =>
         Aligned(x, o) /\ (o < MaxOrder => buddy_index(x, o) \notin ToSet(dir'[o]))
  <2>1. SUFFICES ASSUME NEW x, <<x, o>> \in K
                 PROVE  Aligned(x, o)
                        /\ (o < MaxOrder => buddy_index(x, o) \notin ToSet(dir'[o]))
    OBVIOUS
  <2>2. <<x, o>>[1] = x /\ <<x, o>>[2] = o
    OBVIOUS
  <2>3. Aligned(<<x, o>>[1], <<x, o>>[2])
        /\ (<<x, o>>[2] < MaxOrder =>
              buddy_index(<<x, o>>[1], <<x, o>>[2]) \notin ToSet(dir'[<<x, o>>[2]]))
    BY <2>1 DEF Moves
  <2> QED  BY <2>2, <2>3
<1>5. CASE <<f, o>> \in K
  BY <1>4, <1>5
<1>6. CASE f \in ToSet(dir[o])
  <2>1. Aligned(f, o) /\ (o < MaxOrder => buddy_index(f, o) \notin ToSet(dir[o]))
    BY <1>6 DEF BInv, Merged
  <2>2. SUFFICES ASSUME o < MaxOrder, buddy_index(f, o) \in ToSet(dir'[o])  PROVE FALSE
    BY <2>1
  <2>3. <<buddy_index(f, o), o>> \in K
    BY <1>2, <2>1, <2>2
  <2>4. buddy_index(buddy_index(f, o), o) = f
    <3>1. buddy_index(f, o) \in Nat /\ Pair(f, buddy_index(f, o), o)
      BY <1>3, <2>1, BuddyOf
    <3>2. Pair(buddy_index(f, o), f, o)
      BY <1>3, <3>1, PairFacts
    <3> QED  BY <1>3, <3>1, <3>2, PairFacts
  <2> QED  BY <1>4, <2>2, <2>3, <2>4
<1> QED  BY <1>2, <1>5, <1>6

\* The pieces of some frames keep their flags if the frames do.
LEMMA MarkedStays ==
    ASSUME NEW fr \in Nat, NEW n \in Nat, n < Size(MaxOrder + 1), Marked(fr, n),
           \A x \in RangeOf(<<fr, n>>) : order'[x] = order[x] /\ (x \in free' <=> x \in free)
    PROVE  Marked(fr, n)'
<1>1. SUFFICES ASSUME NEW p \in Falling(fr, n)
               PROVE  order'[p[1]] = p[2] /\ p[1] \notin free' /\ Aligned(p[1], p[2])
  BY DEF Marked, Falling, Bit, Size, Aligned
<1>2. fr \in Int
  OBVIOUS
<1>3. p \in Int \X Orders /\ fr <= p[1] /\ p[1] + Size(p[2]) <= fr + n
  BY <1>2, FallingTiles DEF Tiles
<1>4. Size(p[2]) \in Nat /\ Size(p[2]) >= 1
  BY <1>3, Sizes2
<1>5. p[1] \in RangeOf(<<fr, n>>)
  BY <1>3, <1>4 DEF RangeOf
<1>6. order[p[1]] = p[2] /\ p[1] \notin free /\ Aligned(p[1], p[2])
  BY DEF Marked
<1> QED  BY <1>5, <1>6

\* What Marked says after a step.
LEMMA MarkedNow ==
    ASSUME NEW fr, NEW n,
           \A p \in Falling(fr, n) :
             order'[p[1]] = p[2] /\ p[1] \notin free' /\ Aligned(p[1], p[2])
    PROVE  Marked(fr, n)'
BY DEF Marked, Falling, Bit, Size, Aligned

\* A thread in a call goes on if the frames in its hands keep their flags.
LEMMA CalledStays ==
    ASSUME BInv, NEW u \in Threads, Called(call[u]), call'[u] = call[u],
           \A b \in InHand(u) : \A x \in RangeOf(b) :
             order'[x] = order[x] /\ (x \in free' <=> x \in free)
    PROVE  Called(call[u])'
<1>1. PICK c : c = call[u]
  OBVIOUS
<1> DEFINE k == ceil_order(c.n)
<1>2. c \in CallType /\ Called(c) /\ call'[u] = c
  BY <1>1 DEF BInv, TypeOK, CallType
<1>3. c.fr \in Nat /\ c.n \in Nat
  BY <1>2, BuddyAssumption DEF CallType, Managed
<1>4. ASSUME c.at = "rest"  PROVE Marked(c.fr, c.n)'
  <2>1. c.n \in Sizes /\ k \in Orders /\ c.n < Size(k) /\ Aligned(c.fr, k) /\ Marked(c.fr, c.n)
    BY <1>2, <1>4 DEF Called
  <2>2. <<c.fr, Size(k)>> \in InHand(u)
    BY <1>1, <1>4 DEF InHand
  <2>3. /\ Size(k) \in Nat /\ Size(k) <= Size(MaxOrder + 1) /\ Size(MaxOrder + 1) \in Nat
    <3>1. k \in Shifts /\ MaxOrder + 1 \in Shifts /\ k <= MaxOrder + 1
      BY <2>1, BuddyAssumption DEF Orders, Shifts
    <3> QED  BY <3>1, SizeTimes, Sizes2
  <2> HIDE DEF k
  <2>4. RangeOf(<<c.fr, c.n>>) \subseteq RangeOf(<<c.fr, Size(k)>>)
    BY <1>3, <2>1, <2>3 DEF RangeOf
  <2>5. c.n < Size(MaxOrder + 1)
    BY <1>3, <2>1, <2>3
  <2>6. \A x \in RangeOf(<<c.fr, c.n>>) :
           order'[x] = order[x] /\ (x \in free' <=> x \in free)
    BY <2>2, <2>4
  <2> QED  BY <1>3, <2>1, <2>5, <2>6, MarkedStays
<1>5. ASSUME c.at = "free"  PROVE Marked(c.fr, c.n)'
  <2>1. c.n < Size(MaxOrder + 1) /\ Marked(c.fr, c.n)
    BY <1>2, <1>5 DEF Called
  <2>2. <<c.fr, c.n>> \in InHand(u)
    BY <1>1, <1>5 DEF InHand
  <2> QED  BY <1>3, <2>1, <2>2, MarkedStays
<1>6. Called(c)'
  BY <1>2, <1>4, <1>5 DEF Called
<1> QED  BY <1>2, <1>6 DEF Called, Marked

\* When blocks change hands, the orders written for the blocks of every
\* allocation stay as they were.
LEMMA MoveMarks ==
    ASSUME BInv, NEW t \in Threads, NEW X, NEW K, NEW G, Moves(t, X, K, G)
    PROVE  (\A u \in Threads : Called(call[u]) /\ \A b \in held[u] : Holds(b))'
<1>1. \A x \in Frames : ~Taken(t, X, x) =>
         order'[x] = order[x] /\ (x \in free' <=> x \in free)
  <2>1. SUFFICES ASSUME NEW x \in Frames, ~Taken(t, X, x)
                 PROVE  order'[x] = order[x] /\ (x \in free' <=> x \in free)
    OBVIOUS
  <2>2. ASSUME NEW k \in K, k[1] = x  PROVE FALSE
    <3>1. k \in Nat \X Orders
      BY DEF Moves, Listed
    <3>2. x \in Cells(k[1], k[2])
      BY <2>2, <3>1, FRIs
    <3> QED  BY <2>1, <3>2 DEF Moves, Balanced, Placed
  <2> QED  BY <2>1, <2>2 DEF Moves, Flagged
<1>2. /\ held'[t] = held[t] \cup G
      /\ \A u \in Threads : u # t => held'[u] = held[u] /\ call'[u] = call[u]
  BY DEF Moves, BInv, TypeOK
<1>3. /\ \A u \in Threads : Called(call[u]) /\ \A b \in held[u] : Holds(b)
      /\ Called(call[t])' /\ \A b \in G : Holds(b)'
  BY DEF BInv, Moves
<1>4. Apart(Regions) /\ Covers(Regions) /\ Managed \subseteq Frames
  BY BuddyAssumption DEF BInv, Managed, Frames
    \* A region of another kind or thread is not touched.
<1>5. ASSUME NEW r \in Regions, r[1] # <<"free">>, r[1] # <<"hand", t>>, NEW x \in RangeOf(r[2])
      PROVE  x \in Frames /\ ~Taken(t, X, x)
  <2>1. x \in Frames
    BY <1>4 DEF Covers
  <2>2. ASSUME NEW p \in X, x \in Cells(p[1], p[2])  PROVE FALSE
    <3>1. p \in Managed \X Orders /\ p[1] \in ToSet(dir[p[2]])
      BY DEF Moves, Listed
    <3>2. FR(p[1], p[2]) \in Regions /\ x \in RangeOf(FR(p[1], p[2])[2])
      BY <2>2, <3>1, FRIs, RegionIs DEF InRegions, FR
    <3>3. r = FR(p[1], p[2])
      BY <1>4, <1>5, <3>2 DEF Apart
    <3> QED  BY <1>5, <3>3 DEF FR
  <2>3. ASSUME NEW b \in InHand(t), x \in RangeOf(b)  PROVE FALSE
    <3>1. <<<<"hand", t>>, b>> \in Regions /\ x \in RangeOf(<<<<"hand", t>>, b>>[2])
      BY <2>3, RegionIs DEF InRegions
    <3>2. r = <<<<"hand", t>>, b>>
      BY <1>4, <1>5, <3>1 DEF Apart
    <3> QED  BY <1>5, <3>2
  <2> QED  BY <2>1, <2>2, <2>3 DEF Taken
<1>6. ASSUME NEW u \in Threads, NEW b \in held[u]  PROVE Holds(b)'
  <2>1. <<<<"held", u>>, b>> \in Regions
    BY RegionIs DEF InRegions
  <2>2. /\ <<<<"held", u>>, b>>[1] = <<"held", u>> /\ <<<<"held", u>>, b>>[2] = b
    OBVIOUS
  <2>3. \A x \in RangeOf(b) : order'[x] = order[x] /\ (x \in free' <=> x \in free)
    BY <1>1, <1>5, <2>1, <2>2, Tags
  <2>4. b \in Nat \X (Nat \ {0}) /\ Holds(b)
    BY <1>3, <1>4, <2>1, <2>2 DEF Covers
  <2>5. b[1] \in Nat /\ b[2] \in Nat /\ b = <<b[1], b[2]>>
    BY <2>4
  <2>6. Marked(b[1], b[2])'
    BY <2>3, <2>4, <2>5, MarkedStays DEF Holds
  <2> QED  BY <2>4, <2>6 DEF Holds, Size
<1>7. ASSUME NEW u \in Threads, u # t  PROVE Called(call[u])'
  <2>1. \A b \in InHand(u) : \A x \in RangeOf(b) :
           order'[x] = order[x] /\ (x \in free' <=> x \in free)
    <3>1. SUFFICES ASSUME NEW b \in InHand(u)
                   PROVE  \A x \in RangeOf(b) :
                            order'[x] = order[x] /\ (x \in free' <=> x \in free)
      OBVIOUS
    <3>2. <<<<"hand", u>>, b>> \in Regions
      BY RegionIs DEF InRegions
    <3>3. /\ <<<<"hand", u>>, b>>[1] = <<"hand", u>> /\ <<<<"hand", u>>, b>>[2] = b
      OBVIOUS
    <3> QED  BY <1>1, <1>5, <1>7, <3>2, <3>3, Tags
  <2> QED  BY <1>2, <1>3, <1>7, <2>1, CalledStays
<1>8. Called(call[t])'
  BY <1>3
<1> QED  BY <1>2, <1>3, <1>6, <1>7, <1>8

\* n frames from f on are no more than there are.
LEMMA WithinN ==
    ASSUME NEW f \in Nat, NEW n \in Nat \ {0}, RangeOf(<<f, n>>) \subseteq Managed
    PROVE  f \in Managed /\ n \in 0 .. N
<1>1. Start \in Nat /\ N \in Nat
  BY BuddyAssumption
<1>2. f \in RangeOf(<<f, n>>) /\ f + n - 1 \in RangeOf(<<f, n>>)
  BY DEF RangeOf
<1> QED  BY <1>1, <1>2 DEF Managed

\* The powers of two that threads ask for, and others.
LEMMA CeilOrder ==
    ASSUME NEW n \in Nat
    PROVE  LET k == ceil_order(n)
           IN /\ k \in Shifts /\ (k = MaxOrder + 2 \/ n <= Size(k))
              /\ \A j \in 0 .. k - 1 : Size(j) < n
<1> DEFINE T == {k \in Shifts : k = MaxOrder + 2 \/ Size(k) >= n}
<1>1. MaxOrder \in Nat
  BY BuddyAssumption
<1>2. T \in SUBSET Nat /\ T # {}
  BY <1>1 DEF Shifts
<1>3. PICK k \in T : \A x \in T : k <= x
  <2> HIDE DEF T
  <2> QED  BY <1>2, LeastIn
<1>4. \A j \in 0 .. k - 1 : Size(j) < n
  <2>1. SUFFICES ASSUME NEW j \in 0 .. k - 1  PROVE Size(j) < n
    OBVIOUS
  <2>2. j \in Shifts /\ ~(k <= j)
    BY <1>1, <1>3 DEF Shifts
  <2>3. j \notin T
    BY <1>3, <2>2
  <2>4. ~(Size(j) >= n) /\ Size(j) \in Nat
    BY <2>2, <2>3, Sizes2
  <2> QED  BY <2>4
<1>5. /\ k \in 0 .. MaxOrder + 2 /\ (k = MaxOrder + 2 \/ Size(k) >= n)
      /\ \A j \in 0 .. k - 1 : Size(j) < n
  BY <1>3, <1>4 DEF Shifts
<1> DEFINE c == ceil_order(n)
<1>6. /\ c \in 0 .. MaxOrder + 2 /\ (c = MaxOrder + 2 \/ Size(c) >= n)
      /\ \A j \in 0 .. c - 1 : Size(j) < n
  BY <1>5 DEF ceil_order
<1> HIDE DEF c
<1>7. c \in Shifts /\ Size(c) \in Nat
  BY <1>6, Sizes2 DEF Shifts
<1>8. /\ c \in Shifts /\ (c = MaxOrder + 2 \/ n <= Size(c))
      /\ \A j \in 0 .. c - 1 : Size(j) < n
  BY <1>6, <1>7
<1> QED  BY <1>8 DEF c

\* When blocks change hands, everything keeps its type.
LEMMA MoveTypes ==
    ASSUME BInv, NEW t \in Threads, NEW X, NEW K, NEW G, Moves(t, X, K, G), Covers(Regions)'
    PROVE  TypeOK'
<1>1. /\ dir' \in [Orders -> Seq(Managed)]
      /\ order' \in [Frames -> Orders \cup {NoOrder}] /\ free' \subseteq Managed
  BY DEF Moves, Listed, Flagged
<1>2. \A r \in Regions' : r[2] \in Nat \X (Nat \ {0}) /\ RangeOf(r[2]) \subseteq Managed
  BY DEF Covers, RangeOf
<1>3. (\A r : r \in Regions <=> InRegions(r))'
  BY RegionIs, PTL
<1>4. /\ held \in [Threads -> SUBSET (Managed \X Sizes)] /\ call \in [Threads -> CallType]
      /\ held' = [held EXCEPT ![t] = @ \cup G] /\ call' = [call EXCEPT ![t] = call'[t]]
  BY DEF BInv, TypeOK, CallType, Moves
<1>5. held'[t] = held[t] \cup G
  BY <1>4
<1>6. ASSUME NEW b \in G  PROVE b \in Managed \X Sizes
  <2>1. InRegions(<<<<"held", t>>, b>>)'
    BY <1>5, <1>6 DEF InRegions
  <2>2. <<<<"held", t>>, b>> \in Regions' /\ <<<<"held", t>>, b>>[2] = b
    BY <1>3, <2>1
  <2>3. b \in Nat \X (Nat \ {0}) /\ RangeOf(b) \subseteq Managed
    BY <1>2, <2>2
  <2>4. b = <<b[1], b[2]>> /\ b[1] \in Nat /\ b[2] \in Nat \ {0}
    BY <2>3
  <2>5. b[1] \in Managed
    BY <2>3, <2>4, WithinN
  <2>6. b[2] \in Sizes
    BY <1>6 DEF Moves, Holds
  <2> QED  BY <2>4, <2>5, <2>6
<1>7. held' \in [Threads -> SUBSET (Managed \X Sizes)]
  BY <1>4, <1>6
<1> DEFINE c == call'[t]
<1>8. c \in CallType
  <2>1. /\ c \in [at : {"idle", "mark", "rest", "free"}, fr : Nat, n : Nat]
        /\ c.at = "idle" => c = Idle
        /\ Called(call[t])'
    BY DEF Moves
  <2>2. \A b \in InHand(t)' : b \in Nat \X (Nat \ {0}) /\ RangeOf(b) \subseteq Managed
    <3>1. SUFFICES ASSUME NEW b \in InHand(t)'
                   PROVE  b \in Nat \X (Nat \ {0}) /\ RangeOf(b) \subseteq Managed
      OBVIOUS
    <3>2. InRegions(<<<<"hand", t>>, b>>)'
      BY DEF InRegions
    <3>3. <<<<"hand", t>>, b>> \in Regions' /\ <<<<"hand", t>>, b>>[2] = b
      BY <1>3, <3>2
    <3> QED  BY <1>2, <3>3
  <2>3. CASE c.at = "idle"
    <3>1. c = Idle /\ N \in Nat
      BY <2>1, <2>3, BuddyAssumption
    <3> QED  BY <3>1 DEF Idle, CallType
  <2>4. CASE c.at = "free"
    <3>1. <<c.fr, c.n>> \in InHand(t)'
      BY <2>4 DEF InHand
    <3>2. c.n \in Nat \ {0} /\ c.fr \in Nat /\ RangeOf(<<c.fr, c.n>>) \subseteq Managed
      BY <2>1, <2>2, <3>1
    <3>3. c.fr \in Managed /\ c.n \in 0 .. N
      BY <3>2, WithinN
    <3> QED  BY <2>1, <3>3 DEF CallType
  <2>5. CASE c.at \in {"mark", "rest"}
    <3> DEFINE k == ceil_order(c.n)
    <3>1. <<c.fr, Size(k)>> \in InHand(t)'
      BY <2>5 DEF InHand
    <3>2. c.n \in Sizes /\ k \in Orders /\ c.n < Size(k) /\ c.fr \in Nat /\ c.n \in Nat
      BY <2>1, <2>5 DEF Called
    <3>3. Size(k) \in Nat \ {0} /\ RangeOf(<<c.fr, Size(k)>>) \subseteq Managed
      BY <2>2, <3>1
    <3>4. c.fr \in Managed /\ Size(k) \in 0 .. N
      BY <3>2, <3>3, WithinN
    <3>5. c.n \in 0 .. N
      BY <3>2, <3>4, BuddyAssumption
    <3> QED  BY <2>1, <3>4, <3>5 DEF CallType
  <2> QED  BY <2>1, <2>3, <2>4, <2>5
<1> HIDE DEF c
<1>9. call' \in [Threads -> CallType]
  BY <1>4, <1>8 DEF c
<1> QED  BY <1>1, <1>7, <1>9 DEF TypeOK, CallType

\* A step of that shape keeps the invariant.
LEMMA Move ==
    ASSUME BInv, NEW t \in Threads, NEW X, NEW K, NEW G, Moves(t, X, K, G)
    PROVE  BInv'
<1>1. Apart(Regions)' /\ Covers(Regions)'
  BY MoveRegions
<1>2. TypeOK' /\ FlagsExact' /\ Merged'
  BY <1>1, MoveTypes, MoveFlags, MoveMerged
<1>3. (\A u \in Threads : Called(call[u]) /\ \A b \in held[u] : Holds(b))'
  BY MoveMarks
<1>4. \A o \in Orders : IsInjective(dir'[o])
  BY DEF Moves, Listed
<1> QED  BY <1>1, <1>2, <1>3, <1>4 DEF BInv

-----------------------------------------------------------------------------
(* Each action is a step of that shape.                                     *)

\* A power of two is cut into one block.
LEMMA FallingWhole ==
    ASSUME NEW fr \in Nat, NEW c \in Orders, NEW p \in Falling(fr, Size(c))
    PROVE  p = <<fr, c>>
<1> DEFINE n == Size(c)
<1>1. n \in Nat /\ n >= 1 /\ c \in Shifts /\ c + 1 \in Shifts /\ Size(c + 1) = n + n
  BY Sizes2
<1> HIDE DEF n
<1>2. PICK b \in Orders : Bit(n, b) /\ p = <<fr + (n - (n % Size(b)) - Size(b)), b>>
  BY <1>1, FallingPiece DEF n
<1>3. /\ b \in Shifts /\ b + 1 \in Shifts /\ Size(b) \in Nat /\ Size(b) >= 1
      /\ b \in Nat /\ c \in Nat
  BY Sizes2 DEF Orders
<1>4. n < Size(MaxOrder + 1)
  <2>1. c + 1 <= MaxOrder + 1 /\ MaxOrder + 1 \in Shifts
    BY BuddyAssumption DEF Orders, Shifts
  <2>2. Size(c + 1) <= Size(MaxOrder + 1) /\ Size(MaxOrder + 1) \in Nat
    BY <1>1, <2>1, SizeTimes, Sizes2
  <2> QED  BY <1>1, <2>2
<1>5. b <= c
  <2>1. (n % Size(b)) \in Nat /\ (n % Size(b)) + Size(b) <= n
    BY <1>1, <1>2, <1>4, LowBound
  <2>2. Size(b) <= Size(c)
    BY <1>1, <1>3, <2>1 DEF n
  <2> QED  BY <1>1, <1>3, <2>2, Fits
<1>6. ASSUME NEW d \in Shifts, d <= c  PROVE (n % Size(d)) = 0
  <2>1. Aligned(n, d) /\ n \in Int
    BY <1>1, <1>6, AlignedSize DEF n
  <2> QED  BY <2>1, BaseOf
<1>7. b = c
  <2>1. SUFFICES ASSUME b # c  PROVE FALSE
    OBVIOUS
  <2>2. b + 1 <= c
    BY <1>3, <1>5, <2>1
  <2>3. (n % Size(b + 1)) = 0 /\ (n % Size(b)) = 0
    BY <1>3, <1>5, <1>6, <2>2
  <2>4. (n % Size(b + 1)) = (n % Size(b)) + Size(b)
    BY <1>1, <1>2, Bits
  <2> QED  BY <1>3, <2>3, <2>4
<1>8. (n % Size(b)) = 0 /\ n = Size(b)
  BY <1>3, <1>6, <1>7 DEF n
<1>9. fr + (n - (n % Size(b)) - Size(b)) = fr
  BY <1>1, <1>8
<1> QED  BY <1>2, <1>7, <1>9

\* The frames of a free block.
LEMMA FreeBlock ==
    ASSUME BInv, NEW o \in Orders, NEW f \in ToSet(dir[o])
    PROVE  /\ f \in Managed /\ f \in Nat /\ Aligned(f, o)
           /\ Cells(f, o) \subseteq Managed
           /\ f \in free /\ order[f] = o
<1>1. Managed \subseteq Nat /\ Managed \subseteq Frames
  BY BuddyAssumption DEF Managed, Frames
<1>2. dir[o] \in Seq(Managed)
  BY DEF BInv, TypeOK
<1>3. f \in Managed
  BY <1>2, EmptyList
<1>4. FR(f, o) \in Regions
  BY RegionIs DEF InRegions, FR
<1>5. Cells(f, o) \subseteq Managed
  BY <1>4, FRIs DEF BInv, Covers
<1> QED  BY <1>1, <1>3, <1>5 DEF BInv, Merged, FlagsExact

\* The first frames of one block more.
LEMMA FirstWith ==
    \A K, f, o : \A x : x \in First(K \cup {<<f, o>>}) <=> x \in First(K) \/ x = f
<1>1. SUFFICES ASSUME NEW K, NEW f, NEW o, NEW x
               PROVE  x \in First(K \cup {<<f, o>>}) <=> x \in First(K) \/ x = f
  OBVIOUS
<1>2. <<f, o>>[1] = f /\ <<f, o>> \in K \cup {<<f, o>>}
  OBVIOUS
<1>3. x \in First(K \cup {<<f, o>>}) <=> \E p \in K \cup {<<f, o>>} : x = p[1]
  BY DEF First
<1>4. x \in First(K) <=> \E p \in K : x = p[1]
  BY DEF First
<1> QED  BY <1>2, <1>3, <1>4

\* __buddy_alloc: the block leaves its list, the halves join theirs.
LEMMA AllocKeeps ==
    ASSUME BInv, NEW t \in Threads, NEW n \in Sizes, Alloc(t, n)
    PROVE  BInv'
<1> DEFINE k == ceil_order(n)
           od == Least(Avail(k))
           fr == Head(dir[od])
           K == Halves(fr, k, od)
           X == {<<fr, od>>}
           G == IF n = Size(k) THEN {<<fr, n>>} ELSE {}
           lists == [dir EXCEPT ![od] = Tail(@)]
<1>1. /\ call[t] = Idle /\ Avail(k) # {}
      /\ order' = SetOrders(K \cup {<<fr, k>>})
      /\ free' = (free \ {fr}) \cup First(K)
      /\ dir' = AddTail(lists, K)
      /\ IF n = Size(k)
         THEN held' = [held EXCEPT ![t] = @ \cup {<<fr, n>>}] /\ UNCHANGED call
         ELSE call' = [call EXCEPT ![t] = [at |-> "mark", fr |-> fr, n |-> n]] /\ UNCHANGED held
  BY DEF Alloc
<1>2. MaxOrder \in Nat /\ n \in Nat /\ Managed \subseteq Nat /\ Managed \subseteq Frames
  BY BuddyAssumption DEF Managed, Frames
<1>3. /\ k \in Orders /\ od \in Orders /\ k <= od /\ dir[od] # <<>> /\ n <= Size(k)
      /\ k \in Shifts /\ od \in Shifts
      /\ Size(k) \in Nat /\ Size(k) >= 1 /\ Size(od) \in Nat /\ Size(k) <= Size(od)
  <2>1. k \in Shifts /\ (k = MaxOrder + 2 \/ n <= Size(k))
    BY <1>2, CeilOrder
  <2> HIDE DEF k
  <2>2. Avail(k) \in SUBSET Nat
    BY <1>2, <2>1 DEF Avail, Shifts
  <2>3. od \in Avail(k)
    BY <1>1, <2>2, LeastIn
  <2>4. od \in k .. MaxOrder /\ dir[od] # <<>>
    BY <2>3 DEF Avail
  <2>5. k \in Orders /\ od \in Orders /\ k <= od /\ k # MaxOrder + 2
    BY <1>2, <2>1, <2>4 DEF Orders, Shifts
  <2> QED  BY <2>1, <2>4, <2>5, SizeTimes, Sizes2
<1> HIDE DEF k, od
<1>4. /\ dir \in [Orders -> Seq(Managed)] /\ \A o \in Orders : IsInjective(dir[o])
      /\ order \in [Frames -> Orders \cup {NoOrder}] /\ free \subseteq Managed
      /\ call \in [Threads -> CallType] /\ FlagsExact
  BY DEF BInv, TypeOK, CallType
<1>5. /\ Tail(dir[od]) \in Seq(Managed) /\ IsInjective(Tail(dir[od])) /\ fr \in ToSet(dir[od])
      /\ ToSet(Tail(dir[od])) = ToSet(dir[od]) \ {fr}
  <2>1. dir[od] \in Seq(Managed) /\ IsInjective(dir[od]) /\ dir[od] # <<>>
    BY <1>3, <1>4
  <2> QED  BY <2>1, TailList
<1> HIDE DEF fr
<1>6. fr \in Managed /\ fr \in Nat /\ Aligned(fr, od) /\ Cells(fr, od) \subseteq Managed
  BY <1>3, <1>5, FreeBlock
<1>7. InHand(t) = {}
  BY <1>1 DEF Idle, InHand
<1>8. \A x : Taken(t, X, x) <=> x \in Cells(fr, od)
  BY <1>7 DEF Taken
<1>9. Tiles(K, fr + Size(k), fr + Size(od))
  BY <1>3, <1>6, HalvesTiles
<1>10. \A p \in K : /\ p \in Managed \X Orders /\ p = <<p[1], p[2]>> /\ p[1] \in Cells(fr, od)
                    /\ p[2] \in k .. od - 1 /\ p[1] = fr + Size(p[2]) /\ p[1] > fr
                    /\ Cells(p[1], p[2]) \subseteq Cells(fr, od)
  <2>1. SUFFICES ASSUME NEW p \in K
                 PROVE  /\ p \in Managed \X Orders /\ p = <<p[1], p[2]>>
                        /\ p[1] \in Cells(fr, od) /\ p[2] \in k .. od - 1
                        /\ p[1] = fr + Size(p[2]) /\ p[1] > fr
                        /\ Cells(p[1], p[2]) \subseteq Cells(fr, od)
    OBVIOUS
  <2>2. p[2] \in k .. od - 1 /\ p[1] = fr + Size(p[2])
    BY DEF Halves
  <2>3. p \in Int \X Orders /\ fr + Size(k) <= p[1] /\ p[1] + Size(p[2]) <= fr + Size(od)
    BY <1>9 DEF Tiles
  <2>4. Size(p[2]) \in Nat /\ Size(p[2]) >= 1
    BY <2>3, Sizes2
  <2>5. p[1] \in Cells(fr, od) /\ Cells(p[1], p[2]) \subseteq Cells(fr, od) /\ p[1] > fr
    BY <1>3, <1>6, <2>3, <2>4 DEF Cells
  <2> QED  BY <1>6, <2>2, <2>3, <2>5
<1> HIDE DEF K, X
<1>11. Listed(X, K)
  <2>1. \A p \in X : p \in Managed \X Orders /\ p[1] \in ToSet(dir[p[2]])
    BY <1>3, <1>5, <1>6 DEF X
  <2>2. lists \in [Orders -> Seq(Managed)] /\ \A o \in Orders : IsInjective(lists[o])
    BY <1>4, <1>5
  <2>3. \A o \in Orders : \A x :
           x \in ToSet(lists[o]) <=> x \in ToSet(dir[o]) /\ <<x, o>> \notin X
    <3>1. SUFFICES ASSUME NEW o \in Orders, NEW x
                   PROVE  x \in ToSet(lists[o]) <=> x \in ToSet(dir[o]) /\ <<x, o>> \notin X
      OBVIOUS
    <3>2. lists[o] = IF o = od THEN Tail(dir[od]) ELSE dir[o]
      BY <1>4
    <3>3. <<x, o>> \in X <=> x = fr /\ o = od
      BY DEF X
    <3> HIDE DEF lists
    <3> QED  BY <1>5, <3>2, <3>3
  <2> HIDE DEF lists
  <2>4. K \in SUBSET (Managed \X Orders) /\ OnePerOrder(K)
    BY <1>9, <1>10 DEF OnePerOrder, Tiles
  <2>5. ASSUME NEW p \in K  PROVE p[1] \notin ToSet(lists[p[2]])
    <3>1. p[1] \in Cells(fr, od) /\ p[2] \in Orders
      BY <1>10
    <3>2. p[1] \in ToSet(dir[p[2]]) => <<p[1], p[2]>> \in X
      <4>1. Taken(t, X, p[1])
        BY <1>8, <3>1
      <4>2. ASSUME NEW o \in Orders, p[1] \in ToSet(dir[o])  PROVE <<p[1], o>> = <<fr, od>>
        <5>1. FR(p[1], o) \in Regions /\ FR(fr, od) \in Regions
          BY <1>3, <1>5, <4>2, RegionIs DEF InRegions, FR
        <5>2. p[1] \in Nat
          BY <1>2, <1>10
        <5>3. p[1] \in RangeOf(FR(p[1], o)[2]) /\ p[1] \in RangeOf(FR(fr, od)[2])
          BY <3>1, <5>2, FRIs
        <5>4. FR(p[1], o) = FR(fr, od)
          BY <5>1, <5>3 DEF BInv, Apart
        <5> QED  BY <1>3, <5>4, FRIs
      <4> QED  BY <3>1, <4>2 DEF X
    <3> QED  BY <2>3, <3>1, <3>2
  <2>6. /\ AddTail(lists, K) \in [Orders -> Seq(Managed)]
        /\ \A o \in Orders : IsInjective(AddTail(lists, K)[o])
        /\ \A o \in Orders : \A x :
             x \in ToSet(AddTail(lists, K)[o]) <=> x \in ToSet(lists[o]) \/ <<x, o>> \in K
    BY <2>2, <2>4, <2>5, AddTailList
  <2>7. K \subseteq Nat \X Orders
    BY <1>2, <1>10
  <2> QED  BY <1>1, <2>1, <2>3, <2>6, <2>7 DEF Listed
<1>12. InHand(t)' \cup G = {<<fr, Size(k)>>} /\ InHand(t)' \cap G = {}
  <2>1. CASE n = Size(k)
    <3>1. call'[t] = Idle /\ G = {<<fr, Size(k)>>}
      BY <1>1, <2>1
    <3>2. InHand(t)' = {}
      BY <3>1 DEF Idle, InHand
    <3> QED  BY <3>1, <3>2
  <2>2. CASE n # Size(k)
    <3>1. call'[t] = [at |-> "mark", fr |-> fr, n |-> n] /\ G = {}
      BY <1>1, <1>4, <2>2
    <3>2. InHand(t)' = {<<fr, Size(ceil_order(n))>>}
      BY <3>1 DEF InHand
    <3> QED  BY <3>1, <3>2 DEF k
  <2> QED  BY <2>1, <2>2
<1>13. Balanced(t, X, K, G)
  <2>1. RangeOf(<<fr, Size(k)>>) = Cells(fr, k)
    BY DEF RangeOf, Cells
  <2>2. \A x : Placed(t, K, G, x) <=> x \in Cells(fr, k) \/ \E p \in K : x \in Cells(p[1], p[2])
    BY <1>12, <2>1 DEF Placed
  <2>3. ASSUME NEW x \in Cells(fr, od)
        PROVE  x \in Cells(fr, k) \/ \E p \in K : x \in Cells(p[1], p[2])
    <3>1. x \in Cells(fr, k) \/ x \in fr + Size(k) .. (fr + Size(od)) - 1
      BY <1>3, <1>6 DEF Cells
    <3> QED  BY <1>9, <3>1 DEF Tiles
  <2>4. Cells(fr, k) \subseteq Cells(fr, od)
    BY <1>3, <1>6 DEF Cells
  <2>5. \A x : Taken(t, X, x) <=> Placed(t, K, G, x)
    BY <1>8, <1>10, <2>2, <2>3, <2>4
  <2>6. \A p, q \in K : p # q => Cells(p[1], p[2]) \cap Cells(q[1], q[2]) = {}
    BY <1>9 DEF Tiles
  <2>7. ASSUME NEW p \in K  PROVE Cells(p[1], p[2]) \cap Cells(fr, k) = {}
    <3>1. p[1] \in Int /\ fr + Size(k) <= p[1] /\ Size(p[2]) \in Nat
      BY <1>9, Sizes2 DEF Tiles
    <3> QED  BY <1>3, <1>6, <3>1 DEF Cells
  <2>8. <<fr, Size(k)>> \in Nat \X (Nat \ {0})
    BY <1>3, <1>6
  <2> HIDE DEF G
  <2> QED  BY <1>12, <2>1, <2>5, <2>6, <2>7, <2>8 DEF Balanced
<1>14. \A p, q \in K \cup {<<fr, k>>} : p[1] = q[1] => p = q
  <2>1. \A p, q \in K : p[1] = q[1] => p = q
    <3>1. SUFFICES ASSUME NEW p \in K, NEW q \in K, p[1] = q[1], p # q  PROVE FALSE
      OBVIOUS
    <3>2. p[1] \in Nat /\ p[2] \in Orders /\ q[2] \in Orders
      BY <1>2, <1>10
    <3>3. p[1] \in Cells(p[1], p[2]) /\ p[1] \in Cells(q[1], q[2])
      BY <3>1, <3>2, FRIs
    <3>4. Cells(p[1], p[2]) \cap Cells(q[1], q[2]) = {}
      BY <1>9, <3>1 DEF Tiles
    <3> QED  BY <3>3, <3>4
  <2>2. \A p \in K : p[1] # fr
    BY <1>2, <1>6, <1>10
  <2> QED  BY <2>1, <2>2
<1>15. /\ \A x \in Frames : \A p \in K \cup {<<fr, k>>} : p[1] = x => order'[x] = p[2]
       /\ \A x \in Frames : x \notin First(K) /\ x # fr => order'[x] = order[x]
  <2>1. \A x : x \in First(K \cup {<<fr, k>>}) <=> x \in First(K) \/ x = fr
    BY FirstWith
  <2> QED  BY ZenonT(40), <1>1, <1>14, <2>1, SetOrdersAt
<1>16. Flagged(t, X, K)
  <2>1. ASSUME NEW x \in Frames
        PROVE  /\ order'[x] \in Orders \cup {NoOrder}
               /\ \/ \E p \in K : p[1] = x /\ x \in free' /\ order'[x] = p[2]
                  \/ x \notin First(K) /\ Taken(t, X, x) /\ x \notin free'
                  \/ /\ x \notin First(K) /\ order'[x] = order[x] /\ (x \in free' <=> x \in free)
                     /\ \A o \in Orders : <<x, o>> \notin X
    <3>1. CASE x \in First(K)
      <4>1. PICK p \in K : p[1] = x
        BY <3>1 DEF First
      <4>2. x \in free' /\ order'[x] = p[2] /\ p[2] \in Orders
        BY <1>1, <1>10, <1>15, <3>1, <4>1
      <4> QED  BY <4>1, <4>2
    <3>2. CASE x = fr
      <4>1. x \notin First(K)
        <5>1. SUFFICES ASSUME x \in First(K)  PROVE FALSE
          OBVIOUS
        <5>2. PICK p \in K : p[1] = x
          BY <5>1 DEF First
        <5>3. p[1] > fr
          BY <1>10
        <5> QED  BY <1>6, <3>2, <5>2, <5>3
      <4>2. x \notin free' /\ order'[x] = k /\ x \in Cells(fr, od)
        <5>1. <<fr, k>> \in K \cup {<<fr, k>>} /\ <<fr, k>>[1] = fr /\ <<fr, k>>[2] = k
          OBVIOUS
        <5>2. order'[x] = k
          BY <1>15, <3>2, <5>1
        <5>3. fr \in Cells(fr, od)
          BY <1>3, <1>6, FRIs
        <5> QED  BY <1>1, <3>2, <4>1, <5>2, <5>3
      <4> QED  BY <1>3, <1>8, <4>1, <4>2
    <3>3. CASE x \notin First(K) /\ x # fr
      <4>1. \A o \in Orders : <<x, o>> \notin X
        BY <3>3 DEF X
      <4> QED  BY <1>1, <1>4, <1>15, <3>3, <4>1
    <3> QED  BY <3>1, <3>2, <3>3
  <2>2. free' \subseteq Managed
    BY <1>1, <1>4, <1>10 DEF First
  <2>3. order' \in [Frames -> Orders \cup {NoOrder}]
    <3>1. order' = [f \in Frames |-> order'[f]]
      BY <1>1 DEF SetOrders
    <3> QED  BY <2>1, <3>1
  <2> QED  BY <2>1, <2>2, <2>3 DEF Flagged
<1>17. ASSUME NEW p \in K
       PROVE  /\ Aligned(p[1], p[2])
              /\ p[2] < MaxOrder => buddy_index(p[1], p[2]) \notin ToSet(dir'[p[2]])
  <2> DEFINE o == p[2]
  <2>1. /\ o \in Orders /\ o \in Nat /\ o \in k .. od - 1 /\ p[1] = fr + Size(o)
        /\ o + 1 \in Shifts /\ o + 1 <= od /\ p[1] \in Nat
    BY SMTT(30), <1>2, <1>3, <1>10, Sizes2 DEF Orders
  <2>2. Aligned(fr, o + 1)
    BY <1>3, <1>6, <2>1, AlignedLess
  <2>3. Pair(p[1], fr, o)
    BY <2>1, <2>2 DEF Pair
  <2>4. Aligned(p[1], o) /\ buddy_index(p[1], o) = fr
    BY <1>6, <2>1, <2>3, PairFacts
  <2>5. fr \notin ToSet(dir'[o])
    <3>1. SUFFICES ASSUME fr \in ToSet(dir'[o])  PROVE FALSE
      OBVIOUS
    <3>2. (fr \in ToSet(dir[o]) /\ <<fr, o>> \notin X) \/ <<fr, o>> \in K
      BY <1>11, <2>1, <3>1 DEF Listed
    <3>3. <<fr, o>> \notin K
      <4>1. ASSUME <<fr, o>> \in K  PROVE FALSE
        <5>1. <<fr, o>>[1] > fr
          BY <1>10, <4>1
        <5> QED  BY <1>6, <5>1
      <4> QED  BY <4>1
    <3>4. fr \in ToSet(dir[o]) => o = od
      BY SMTT(30), <1>3, <1>5, <2>1, FreeBlock
    <3>5. o # od
      BY <1>3, <2>1 DEF Orders
    <3> QED  BY <3>2, <3>3, <3>4, <3>5
  <2> QED  BY <2>4, <2>5
<1>18. /\ held' = [held EXCEPT ![t] = @ \cup G]
       /\ call' = [call EXCEPT ![t] = call'[t]]
       /\ call'[t] \in [at : {"idle", "mark", "rest", "free"}, fr : Nat, n : Nat]
       /\ call'[t].at = "idle" => call'[t] = Idle
  <2>0. held \in [Threads -> SUBSET (Managed \X Sizes)]
    BY DEF BInv, TypeOK
  <2>1. CASE n = Size(k)
    BY <1>1, <1>4, <2>0, <2>1 DEF Idle
  <2>2. CASE n # Size(k)
    BY <1>1, <1>2, <1>4, <1>6, <2>0, <2>2
  <2> QED  BY <2>1, <2>2
<1>19. Aligned(fr, k)
  BY <1>3, <1>6, AlignedLess
<1>20. Called(call[t])'
  <2>1. CASE n = Size(k)
    <3>1. call'[t].at = "idle"
      BY <1>1, <2>1 DEF Idle
    <3> QED  BY <3>1 DEF Called
  <2>2. CASE n # Size(k)
    <3>1. call'[t].at = "mark" /\ call'[t].fr = fr /\ call'[t].n = n
      BY <1>1, <1>4, <2>2
    <3>2. n < Size(k) /\ k = ceil_order(n)
      BY <1>2, <1>3, <2>2 DEF k
    <3> QED  BY <1>3, <1>19, <3>1, <3>2 DEF Called
  <2> QED  BY <2>1, <2>2
<1>21. ASSUME NEW b \in G  PROVE Holds(b)'
  <2>1. n = Size(k) /\ b[1] = fr /\ b[2] = n
    <3>1. n = Size(k) /\ b = <<fr, n>>
      BY <1>21
    <3> QED  BY <3>1
  <2>2. n < Size(MaxOrder + 1)
    <3>1. k + 1 \in Shifts /\ Size(k + 1) = Size(k) + Size(k) /\ k + 1 <= MaxOrder + 1
          /\ MaxOrder + 1 \in Shifts
      BY <1>2, <1>3, Sizes2 DEF Orders, Shifts
    <3>2. Size(k + 1) <= Size(MaxOrder + 1) /\ Size(MaxOrder + 1) \in Nat
      BY <3>1, SizeTimes, Sizes2
    <3> QED  BY <1>3, <2>1, <3>1, <3>2
  <2>3. ASSUME NEW p \in Falling(fr, n)
        PROVE  order'[p[1]] = p[2] /\ p[1] \notin free' /\ Aligned(p[1], p[2])
    <3>1. p = <<fr, k>>
      BY <1>3, <1>6, <2>1, FallingWhole
    <3>2. fr \in Frames /\ <<fr, k>> \in K \cup {<<fr, k>>} /\ p[1] = fr /\ p[2] = k
      BY <1>2, <1>6, <3>1
    <3>3. order'[fr] = k
      BY <1>15, <3>1, <3>2
    <3>4. fr \notin free'
      <4>1. SUFFICES ASSUME fr \in First(K)  PROVE FALSE
        BY <1>1
      <4>2. PICK q \in K : q[1] = fr
        BY <4>1 DEF First
      <4>3. q[1] > fr
        BY <1>10
      <4> QED  BY <1>6, <4>2, <4>3
    <3> QED  BY <1>19, <3>2, <3>3, <3>4
  <2>4. Marked(b[1], b[2])'
    BY <2>1, <2>3, MarkedNow
  <2> QED  BY <2>1, <2>2, <2>4 DEF Holds
<1>22. Moves(t, X, K, G)
  BY <1>11, <1>13, <1>16, <1>17, <1>18, <1>20, <1>21 DEF Moves
<1> QED  BY <1>22, Move

\* What the blocks of a tiling look like.
LEMMA TilesFirst ==
    ASSUME NEW P, NEW a \in Int, NEW b \in Int, Tiles(P, a, b)
    PROVE  /\ \A p, q \in P : p[1] = q[1] => p = q
           /\ \A p \in P : /\ p[1] \in Int /\ p[2] \in Orders /\ p = <<p[1], p[2]>>
                           /\ p[1] \in a .. b - 1 /\ p[1] \in Cells(p[1], p[2])
                           /\ Cells(p[1], p[2]) \subseteq a .. b - 1
           /\ OnePerOrder(P)
<1>1. ASSUME NEW p \in P
      PROVE  /\ p[1] \in Int /\ p[2] \in Orders /\ p = <<p[1], p[2]>>
             /\ p[1] \in a .. b - 1 /\ p[1] \in Cells(p[1], p[2])
             /\ Cells(p[1], p[2]) \subseteq a .. b - 1
  <2>1. p \in Int \X Orders /\ a <= p[1] /\ p[1] + Size(p[2]) <= b
    BY DEF Tiles
  <2>2. Size(p[2]) \in Nat /\ Size(p[2]) >= 1
    BY <2>1, Sizes2
  <2> QED  BY <2>1, <2>2 DEF Cells
<1>2. \A p, q \in P : p[1] = q[1] => p = q
  <2>1. SUFFICES ASSUME NEW p \in P, NEW q \in P, p[1] = q[1], p # q  PROVE FALSE
    OBVIOUS
  <2>2. p[1] \in Cells(p[1], p[2]) /\ q[1] \in Cells(q[1], q[2])
    BY <1>1
  <2>3. Cells(p[1], p[2]) \cap Cells(q[1], q[2]) = {}
    BY <2>1 DEF Tiles
  <2> QED  BY <2>1, <2>2, <2>3
<1>3. OnePerOrder(P)
  BY DEF OnePerOrder, Tiles
<1> QED  BY <1>1, <1>2, <1>3

\* The frames in the hands of a thread, and its allocations.
LEMMA HandFacts ==
    ASSUME BInv, NEW t \in Threads, NEW b, b \in InHand(t) \/ b \in held[t]
    PROVE  /\ b \in Nat \X (Nat \ {0}) /\ RangeOf(b) \subseteq Managed
           /\ b[1] \in Managed /\ b[1] \in Nat /\ b[2] \in 1 .. N /\ b = <<b[1], b[2]>>
<1>1. PICK tag : <<tag, b>> \in Regions
  BY RegionIs DEF InRegions
<1>2. <<tag, b>>[2] = b
  OBVIOUS
<1>3. b \in Nat \X (Nat \ {0}) /\ RangeOf(b) \subseteq Managed
  BY <1>1, <1>2 DEF BInv, Covers
<1>4. b[1] \in Nat /\ b[2] \in Nat \ {0} /\ b = <<b[1], b[2]>>
  BY <1>3
<1>5. b[1] \in Managed /\ b[2] \in 0 .. N
  BY <1>3, <1>4, WithinN
<1> QED  BY <1>3, <1>4, <1>5

\* What a thread that allocates has in its hands.
LEMMA AllocHand ==
    ASSUME BInv, NEW t \in Threads, call[t].at \in {"mark", "rest"}
    PROVE  LET k == ceil_order(call[t].n)
           IN /\ InHand(t) = {<<call[t].fr, Size(k)>>}
              /\ k \in Orders /\ k \in Shifts /\ call[t].n \in Sizes /\ call[t].n \in Nat \ {0}
              /\ call[t].n < Size(k) /\ Size(k) \in Nat
              /\ call[t].n < Size(MaxOrder + 1)
              /\ call[t].fr \in Nat /\ Aligned(call[t].fr, k)
              /\ Cells(call[t].fr, k) \subseteq Managed
<1> DEFINE fr == call[t].fr
           n == call[t].n
           k == ceil_order(n)
<1>1. n \in Sizes /\ k \in Orders /\ n < Size(k) /\ Aligned(fr, k)
  BY DEF BInv, Called
<1>2. InHand(t) = {<<fr, Size(k)>>}
  BY DEF InHand
<1>3. n \in Nat \ {0}
  BY <1>1, BuddyAssumption
<1>4. k \in Shifts /\ k + 1 \in Shifts /\ Size(k) \in Nat /\ Size(k + 1) = Size(k) + Size(k)
  BY <1>1, Sizes2
<1>5. n < Size(MaxOrder + 1)
  <2>1. k + 1 <= MaxOrder + 1 /\ MaxOrder + 1 \in Shifts
    BY <1>1, BuddyAssumption DEF Orders, Shifts
  <2>2. Size(k + 1) <= Size(MaxOrder + 1) /\ Size(MaxOrder + 1) \in Nat
    BY <1>4, <2>1, SizeTimes, Sizes2
  <2> QED  BY <1>1, <1>3, <1>4, <2>2
<1> HIDE DEF k
<1>6. /\ <<fr, Size(k)>> \in Nat \X (Nat \ {0})
      /\ RangeOf(<<fr, Size(k)>>) \subseteq Managed
  BY <1>2, HandFacts
<1>7. fr \in Nat /\ Cells(fr, k) \subseteq Managed
  BY <1>6 DEF RangeOf, Cells
<1> QED  BY <1>1, <1>2, <1>3, <1>4, <1>5, <1>7 DEF k

\* What a step that calls SetOrders leaves in the frames.
LEMMA OrdersSet ==
    ASSUME BInv, NEW B, \A p, q \in B : p[1] = q[1] => p = q,
           \A p \in B : p[2] \in Orders \cup {NoOrder}, order' = SetOrders(B)
    PROVE  /\ order' \in [Frames -> Orders \cup {NoOrder}]
           /\ \A p \in B : p[1] \in Frames => order'[p[1]] = p[2]
           /\ \A x \in Frames : x \notin First(B) => order'[x] = order[x]
<1>1. \A x \in Frames : /\ \A p \in B : p[1] = x => order'[x] = p[2]
                        /\ x \notin First(B) => order'[x] = order[x]
  BY SetOrdersAt
<1>2. order \in [Frames -> Orders \cup {NoOrder}]
  BY DEF BInv, TypeOK
<1>3. ASSUME NEW x \in Frames  PROVE order'[x] \in Orders \cup {NoOrder}
  <2>1. CASE x \in First(B)
    <3>1. PICK p \in B : p[1] = x
      BY <2>1 DEF First
    <3> QED  BY <1>1, <3>1
  <2>2. CASE x \notin First(B)
    BY <1>1, <1>2, <2>2
  <2> QED  BY <2>1, <2>2
<1>4. order' = [f \in Frames |-> order'[f]]
  BY DEF SetOrders
<1> QED  BY <1>1, <1>3, <1>4

\* Writing the orders of the pieces of an allocation moves no block.
LEMMA MarkKeeps ==
    ASSUME BInv, NEW t \in Threads, Mark(t)
    PROVE  BInv'
<1> SUFFICES ASSUME NEW fr, NEW n, fr = call[t].fr, n = call[t].n  PROVE BInv'
  OBVIOUS
<1> DEFINE k == ceil_order(n)
           P == Falling(fr, n)
<1>1. /\ call[t].at = "mark" /\ order' = SetOrders(P) /\ free' = free \ First(P)
      /\ call' = [call EXCEPT ![t].at = "rest"] /\ dir' = dir /\ held' = held
  BY DEF Mark
<1>2. /\ InHand(t) = {<<fr, Size(k)>>}
      /\ k \in Orders /\ k \in Shifts /\ n \in Sizes /\ n \in Nat \ {0}
      /\ n < Size(k) /\ Size(k) \in Nat /\ n < Size(MaxOrder + 1)
      /\ fr \in Nat /\ Aligned(fr, k) /\ Cells(fr, k) \subseteq Managed
  BY <1>1, AllocHand
<1>3. /\ dir \in [Orders -> Seq(Managed)] /\ \A o \in Orders : IsInjective(dir[o])
      /\ free \subseteq Managed /\ held \in [Threads -> SUBSET (Managed \X Sizes)]
      /\ call \in [Threads -> CallType] /\ Managed \subseteq Frames
  BY BuddyAssumption DEF BInv, TypeOK, CallType, Managed, Frames
<1>4. Tiles(P, fr, fr + n)
  <2>1. fr \in Int /\ n \in Nat
    BY <1>2
  <2> QED  BY <1>2, <2>1, FallingTiles
<1> HIDE DEF P
<1>5. /\ \A p, q \in P : p[1] = q[1] => p = q
      /\ \A p \in P : p[1] \in fr .. fr + n - 1 /\ p[2] \in Orders
  <2>1. fr \in Int /\ n \in Int /\ fr + n \in Int
    BY <1>2
  <2>2. /\ \A p, q \in P : p[1] = q[1] => p = q
        /\ \A p \in P : p[1] \in fr .. (fr + n) - 1 /\ p[2] \in Orders
    BY <1>4, <2>1, TilesFirst
  <2> QED  BY <2>1, <2>2
<1>6. fr .. fr + n - 1 \subseteq Cells(fr, k)
  BY <1>2 DEF Cells
<1>7. \A p \in P : p[1] \in Frames
  BY <1>2, <1>3, <1>5, <1>6
<1>8. /\ order' \in [Frames -> Orders \cup {NoOrder}]
      /\ \A p \in P : p[1] \in Frames => order'[p[1]] = p[2]
      /\ \A x \in Frames : x \notin First(P) => order'[x] = order[x]
  <2>1. \A p \in P : p[2] \in Orders \cup {NoOrder}
    BY <1>5
  <2> QED  BY <1>1, <1>5, <2>1, OrdersSet
<1>9. call'[t] = [at |-> "rest", fr |-> fr, n |-> n] /\ call' = [call EXCEPT ![t] = call'[t]]
  <2>1. call[t] \in CallType
    BY <1>3
  <2>2. call' = [call EXCEPT ![t] = [call[t] EXCEPT !.at = "rest"]]
    BY <1>1
  <2>3. call'[t] = [call[t] EXCEPT !.at = "rest"]
    BY <1>3, <2>2
  <2>4. [call[t] EXCEPT !.at = "rest"] = [at |-> "rest", fr |-> fr, n |-> n]
    BY <2>1 DEF CallType
  <2> QED  BY <2>2, <2>3, <2>4
<1>10. InHand(t)' = InHand(t)
  <2>1. InHand(t)' = {<<fr, Size(k)>>}
    BY <1>9 DEF InHand
  <2> QED  BY <1>2, <2>1
<1>11. Listed({}, {})
  BY <1>1, <1>3 DEF Listed
<1>12. Balanced(t, {}, {}, {})
  <2>1. <<fr, Size(k)>> \in Nat \X (Nat \ {0})
    BY <1>2
  <2>2. \A b \in InHand(t)' \cup {} : b = <<fr, Size(k)>>
    BY <1>2, <1>10
  <2> HIDE DEF k
  <2> QED  BY <1>10, <2>1, <2>2 DEF Balanced, Taken, Placed
<1>13. Flagged(t, {}, {})
  <2>1. ASSUME NEW x \in Frames
        PROVE  \/ Taken(t, {}, x) /\ x \notin free'
               \/ order'[x] = order[x] /\ (x \in free' <=> x \in free)
    <3>1. CASE x \in First(P)
      <4>1. x \in Cells(fr, k)
        BY <1>5, <1>6, <3>1 DEF First
      <4>2. RangeOf(<<fr, Size(k)>>) = Cells(fr, k)
        BY DEF RangeOf, Cells
      <4> QED  BY <1>1, <1>2, <3>1, <4>1, <4>2 DEF Taken
    <3>2. CASE x \notin First(P)
      BY <1>1, <1>8, <3>2
    <3> QED  BY <3>1, <3>2
  <2>2. \A x : x \notin First({})
    BY DEF First
  <2> QED  BY <1>1, <1>3, <1>8, <2>1, <2>2 DEF Flagged
<1>14. Called(call[t])'
  <2>1. ASSUME NEW p \in P
        PROVE  order'[p[1]] = p[2] /\ p[1] \notin free' /\ Aligned(p[1], p[2])
    <3>1. order'[p[1]] = p[2]
      BY <1>7, <1>8
    <3>2. p[1] \notin free'
      BY <1>1 DEF First
    <3>3. Aligned(p[1], p[2])
      BY <1>2, FallingEven DEF P
    <3> QED  BY <3>1, <3>2, <3>3
  <2>2. Marked(fr, n)'
    BY <2>1, MarkedNow DEF P
  <2>3. call'[t].at = "rest" /\ call'[t].fr = fr /\ call'[t].n = n
    BY <1>9
  <2> QED  BY <1>2, <2>2, <2>3 DEF Called
<1>15. /\ held' = [held EXCEPT ![t] = @ \cup {}]
       /\ call'[t] \in [at : {"idle", "mark", "rest", "free"}, fr : Nat, n : Nat]
       /\ call'[t].at # "idle"
  BY <1>1, <1>2, <1>3, <1>9
<1>16. Moves(t, {}, {}, {})
  BY <1>9, <1>11, <1>12, <1>13, <1>14, <1>15 DEF Moves
<1> QED  BY <1>16, Move

\* No frame in the hands of a thread, or allocated, starts a free block.
LEMMA HandOff ==
    ASSUME BInv, NEW t \in Threads, NEW b, b \in InHand(t) \/ b \in held[t],
           NEW x \in RangeOf(b), NEW o \in Orders
    PROVE  x \notin ToSet(dir[o])
<1>1. SUFFICES ASSUME x \in ToSet(dir[o])  PROVE FALSE
  OBVIOUS
<1>2. PICK tag : <<tag, b>> \in Regions /\ tag \in {<<"hand", t>>, <<"held", t>>}
  BY RegionIs DEF InRegions
<1>3. FR(x, o) \in Regions
  BY <1>1, RegionIs DEF InRegions, FR
<1>4. <<tag, b>>[2] = b /\ FR(x, o)[1] = <<"free">> /\ <<tag, b>>[1] = tag
  BY DEF FR
<1>5. x \in RangeOf(FR(x, o)[2])
  <2>1. x \in Nat
    BY <1>1, FreeBlock
  <2> QED  BY <2>1, FRIs
<1>6. <<tag, b>> = FR(x, o)
  BY <1>2, <1>3, <1>4, <1>5 DEF BInv, Apart
<1>7. tag = <<"free">>
  BY <1>4, <1>6
<1> QED  BY <1>2, <1>7, Tags

\* The pieces that were not asked for join their lists.
LEMMA RestKeeps ==
    ASSUME BInv, NEW t \in Threads, Rest(t)
    PROVE  BInv'
<1> SUFFICES ASSUME NEW fr, NEW n, fr = call[t].fr, n = call[t].n  PROVE BInv'
  OBVIOUS
<1> DEFINE k == ceil_order(n)
           m == Size(k) - n
           K == Rising(fr + n, m)
           G == {<<fr, n>>}
<1>1. /\ call[t].at = "rest" /\ order' = SetOrders(K) /\ free' = free \cup First(K)
      /\ dir' = AddTail(dir, K) /\ held' = [held EXCEPT ![t] = @ \cup G]
      /\ call' = [call EXCEPT ![t] = Idle]
  BY DEF Rest, Left
<1>2. /\ InHand(t) = {<<fr, Size(k)>>}
      /\ k \in Orders /\ k \in Shifts /\ n \in Sizes /\ n \in Nat \ {0}
      /\ n < Size(k) /\ Size(k) \in Nat /\ n < Size(MaxOrder + 1)
      /\ fr \in Nat /\ Aligned(fr, k) /\ Cells(fr, k) \subseteq Managed
  BY <1>1, AllocHand
<1>3. /\ dir \in [Orders -> Seq(Managed)] /\ \A o \in Orders : IsInjective(dir[o])
      /\ free \subseteq Managed /\ held \in [Threads -> SUBSET (Managed \X Sizes)]
      /\ call \in [Threads -> CallType] /\ Managed \subseteq Frames /\ Managed \subseteq Nat
      /\ order \in [Frames -> Orders \cup {NoOrder}] /\ Marked(fr, n)
  BY SMTT(30), <1>1, BuddyAssumption DEF BInv, TypeOK, CallType, Managed, Frames, Called
<1> HIDE DEF k, K
<1>4. /\ m \in Nat /\ m >= 1 /\ m < Size(k) /\ m < Size(MaxOrder + 1)
      /\ fr + n \in Nat /\ (fr + n) + m = fr + Size(k)
  <2>1. m \in Nat /\ m >= 1 /\ m < Size(k) /\ fr + n \in Nat /\ (fr + n) + m = fr + Size(k)
    BY <1>2
  <2>2. k <= MaxOrder + 1 /\ MaxOrder + 1 \in Shifts
    BY <1>2, BuddyAssumption DEF Orders, Shifts
  <2>3. Size(k) <= Size(MaxOrder + 1) /\ Size(MaxOrder + 1) \in Nat
    BY <1>2, <2>2, SizeTimes, Sizes2
  <2> QED  BY <1>2, <2>1, <2>3
<1> HIDE DEF m
<1>5. Tiles(K, fr + n, fr + Size(k))
  <2>1. fr + n \in Int
    BY <1>4
  <2>2. Tiles(K, fr + n, (fr + n) + m)
    BY <1>4, <2>1, RisingTiles DEF K
  <2> QED  BY <1>4, <2>2
<1>6. /\ \A p, q \in K : p[1] = q[1] => p = q
      /\ \A p \in K : /\ p[1] \in Int /\ p[2] \in Orders /\ p = <<p[1], p[2]>>
                      /\ p[1] \in fr + n .. (fr + Size(k)) - 1 /\ p[1] \in Cells(p[1], p[2])
                      /\ Cells(p[1], p[2]) \subseteq fr + n .. (fr + Size(k)) - 1
      /\ OnePerOrder(K)
  <2>1. fr + n \in Int /\ fr + Size(k) \in Int
    BY <1>2
  <2> QED  BY <1>5, <2>1, TilesFirst
<1>7. /\ fr + n .. (fr + Size(k)) - 1 \subseteq Cells(fr, k)
      /\ Cells(fr, k) = RangeOf(<<fr, Size(k)>>)
  BY <1>2 DEF Cells, RangeOf
<1>8. ASSUME NEW x \in Cells(fr, k), NEW o \in Orders  PROVE x \notin ToSet(dir[o])
  BY <1>2, <1>7, HandOff
<1>9. \A p \in K : p[1] \in Managed /\ p[1] \in Frames /\ p[1] \in Nat
  BY <1>2, <1>3, <1>6, <1>7
<1>10. Listed({}, K)
  <2>1. K \in SUBSET (Managed \X Orders) /\ K \subseteq Nat \X Orders
    BY <1>6, <1>9
  <2>2. \A p \in K : p[1] \notin ToSet(dir[p[2]])
    BY <1>6, <1>7, <1>8
  <2>3. /\ AddTail(dir, K) \in [Orders -> Seq(Managed)]
        /\ \A o \in Orders : IsInjective(AddTail(dir, K)[o])
        /\ \A o \in Orders : \A x :
             x \in ToSet(AddTail(dir, K)[o]) <=> x \in ToSet(dir[o]) \/ <<x, o>> \in K
    BY <1>3, <1>6, <2>1, <2>2, AddTailList
  <2> QED  BY <1>1, <2>1, <2>3 DEF Listed
<1>11. call'[t] = Idle /\ call' = [call EXCEPT ![t] = call'[t]] /\ InHand(t)' = {}
  <2>1. call'[t] = Idle /\ call' = [call EXCEPT ![t] = call'[t]]
    BY <1>1, <1>3
  <2> QED  BY <2>1 DEF InHand, Idle
<1>12. Balanced(t, {}, K, G)
  <2>1. \A x : Taken(t, {}, x) <=> x \in Cells(fr, k)
    BY <1>2, <1>7 DEF Taken
  <2>2. RangeOf(<<fr, n>>) = fr .. (fr + n) - 1
    BY SMTT(30), <1>2 DEF RangeOf
  <2>3. \A x : Placed(t, K, G, x) <=> x \in fr .. (fr + n) - 1
                                      \/ \E p \in K : x \in Cells(p[1], p[2])
    BY <1>11, <2>2 DEF Placed
  <2>4. ASSUME NEW x \in Cells(fr, k)
        PROVE  x \in fr .. (fr + n) - 1 \/ \E p \in K : x \in Cells(p[1], p[2])
    <3>1. x \in fr .. (fr + n) - 1 \/ x \in fr + n .. (fr + Size(k)) - 1
      BY <1>2 DEF Cells
    <3> QED  BY <1>5, <3>1 DEF Tiles
  <2>5. fr .. (fr + n) - 1 \subseteq Cells(fr, k)
    BY <1>2 DEF Cells
  <2>6. \A x : Taken(t, {}, x) <=> Placed(t, K, G, x)
    BY <1>6, <1>7, <2>1, <2>3, <2>4, <2>5
  <2>7. \A p, q \in K : p # q => Cells(p[1], p[2]) \cap Cells(q[1], q[2]) = {}
    BY <1>5 DEF Tiles
  <2>8. \A p \in K : Cells(p[1], p[2]) \cap fr .. (fr + n) - 1 = {}
    BY <1>2, <1>6
  <2>9. <<fr, n>> \in Nat \X (Nat \ {0})
    BY <1>2
  <2> QED  BY <1>11, <2>2, <2>6, <2>7, <2>8, <2>9 DEF Balanced
<1>13. /\ order' \in [Frames -> Orders \cup {NoOrder}]
       /\ \A p \in K : p[1] \in Frames => order'[p[1]] = p[2]
       /\ \A x \in Frames : x \notin First(K) => order'[x] = order[x]
  <2>1. \A p \in K : p[2] \in Orders \cup {NoOrder}
    BY <1>6
  <2> QED  BY <1>1, <1>6, <2>1, OrdersSet
<1>14. Flagged(t, {}, K)
  <2>1. ASSUME NEW x \in Frames
        PROVE  \/ \E p \in K : p[1] = x /\ x \in free' /\ order'[x] = p[2]
               \/ x \notin First(K) /\ order'[x] = order[x] /\ (x \in free' <=> x \in free)
    <3>1. CASE x \in First(K)
      <4>1. PICK p \in K : p[1] = x
        BY <3>1 DEF First
      <4> QED  BY <1>1, <1>13, <3>1, <4>1
    <3>2. CASE x \notin First(K)
      BY <1>1, <1>13, <3>2
    <3> QED  BY <3>1, <3>2
  <2>2. free' \subseteq Managed
    BY <1>1, <1>3, <1>9 DEF First
  <2> QED  BY <1>13, <2>1, <2>2 DEF Flagged
<1>15. ASSUME NEW p \in K
       PROVE  /\ Aligned(p[1], p[2])
              /\ p[2] < MaxOrder => buddy_index(p[1], p[2]) \notin ToSet(dir'[p[2]])
  <2>1. /\ p[2] \in Orders /\ p[2] < k /\ Aligned(p[1], p[2])
        /\ Aligned(p[1] - Size(p[2]), p[2] + 1)
    <3>1. Aligned((fr + n) + m, k)
      <4>1. Aligned(fr + Size(k), k)
        <5>1. k <= k
          BY <1>2 DEF Orders
        <5>2. Aligned(Size(k), k)
          BY <1>2, <5>1, AlignedSize
        <5> QED  BY <1>2, <5>2, AlignedSum
      <4> QED  BY <1>4, <4>1
    <3>2. m <= Size(k)
      BY <1>2, <1>4
    <3>3. p \in Rising(fr + n, m)
      BY DEF K
    <3> QED  BY <1>2, <1>4, <3>1, <3>2, <3>3, RisingOdd
  <2> DEFINE o == p[2]
             g == p[1] - Size(o)
  <2>2. o \in Shifts /\ o + 1 \in Shifts /\ Size(o) \in Nat /\ Size(o) >= 1
    BY <2>1, Sizes2
  <2>3. p[1] \in Nat /\ fr < p[1] /\ p[1] < fr + Size(k)
    BY <1>2, <1>6, <1>9
  <2>4. fr + Size(o) <= p[1]
    <3>1. Aligned(fr, o)
      <4>1. o <= k
        BY <1>2, <2>1 DEF Orders
      <4> QED  BY <1>2, <2>2, <4>1, AlignedLess
    <3> QED  BY <2>1, <2>2, <2>3, <3>1, AlignedGap
  <2>5. g \in Nat /\ g \in Cells(fr, k) /\ p[1] = g + Size(o) /\ g # p[1]
    BY <1>2, <2>2, <2>3, <2>4 DEF Cells
  <2> HIDE DEF g
  <2>6. Pair(p[1], g, o)
    BY <2>1, <2>5 DEF Pair, g
  <2>7. buddy_index(p[1], o) = g
    BY <2>1, <2>3, <2>5, <2>6, PairFacts
  <2>8. <<g, o>> \notin K
    BY <1>6, <2>5 DEF OnePerOrder
  <2>9. g \notin ToSet(dir'[o])
    BY <1>8, <1>10, <2>1, <2>5, <2>8 DEF Listed
  <2> QED  BY <2>1, <2>7, <2>9
<1>16. ASSUME NEW b \in G  PROVE Holds(b)'
  <2>1. b[1] = fr /\ b[2] = n
    BY <1>16
  <2>2. ASSUME NEW x \in RangeOf(<<fr, n>>)
        PROVE  order'[x] = order[x] /\ (x \in free' <=> x \in free)
    <3>0. x \in fr .. (fr + n) - 1
      BY <1>2 DEF RangeOf
    <3>1. x \in Frames /\ x < fr + n
      <4>1. x \in Cells(fr, k) /\ x < fr + n
        BY <1>2, <3>0 DEF Cells
      <4> QED  BY <1>2, <1>3, <4>1
    <3>2. x \notin First(K)
      BY <1>2, <1>6, <3>1 DEF First
    <3> QED  BY <1>1, <1>13, <3>1, <3>2
  <2>3. Marked(fr, n)'
    BY <1>2, <1>3, <2>2, MarkedStays
  <2>4. Marked(b[1], b[2])'
    BY <2>1, <2>3
  <2> QED  BY <1>2, <2>1, <2>4 DEF Holds
<1>17. Called(call[t])'
  BY <1>11 DEF Called, Idle
<1>18. call'[t] \in [at : {"idle", "mark", "rest", "free"}, fr : Nat, n : Nat]
  BY <1>11 DEF Idle
<1>19. Moves(t, {}, K, G)
  BY <1>1, <1>10, <1>11, <1>12, <1>14, <1>15, <1>16, <1>17, <1>18 DEF Moves
<1> QED  BY <1>19, Move

\* Giving frames back moves them into the hands of the thread.
LEMMA FreeKeeps ==
    ASSUME BInv, NEW t \in Threads, Free(t)
    PROVE  BInv'
<1>1. PICK b \in held[t] :
        /\ held' = [held EXCEPT ![t] = @ \ {b}]
        /\ call' = [call EXCEPT ![t] = [at |-> "free", fr |-> b[1], n |-> b[2]]]
  BY DEF Free
<1>2. call[t] = Idle /\ dir' = dir /\ order' = order /\ free' = free
  BY DEF Free
<1>3. /\ held \in [Threads -> SUBSET (Managed \X Sizes)] /\ call \in [Threads -> CallType]
      /\ dir \in [Orders -> Seq(Managed)] /\ order \in [Frames -> Orders \cup {NoOrder}]
      /\ free \subseteq Managed /\ FlagsExact /\ Merged
      /\ \A o \in Orders : IsInjective(dir[o])
      /\ Apart(Regions) /\ Covers(Regions)
      /\ \A u \in Threads : Called(call[u]) /\ \A c \in held[u] : Holds(c)
  BY DEF BInv, TypeOK, CallType
<1>4. /\ b \in Nat \X (Nat \ {0}) /\ b[1] \in Managed /\ b[1] \in Nat
      /\ b[2] \in 1 .. N /\ b = <<b[1], b[2]>>
  BY HandFacts
<1>5. /\ call'[t] = [at |-> "free", fr |-> b[1], n |-> b[2]] /\ held'[t] = held[t] \ {b}
      /\ \A u \in Threads : u # t => held'[u] = held[u] /\ call'[u] = call[u]
  BY <1>1, <1>3
<1>6. /\ InHand(t) = {} /\ InHand(t)' = {b}
      /\ \A u \in Threads : u # t => InHand(u)' = InHand(u)
  <2>1. InHand(t) = {}
    BY <1>2 DEF Idle, InHand
  <2>2. InHand(t)' = {<<b[1], b[2]>>}
    BY <1>5 DEF InHand
  <2>3. \A u \in Threads : u # t => InHand(u)' = InHand(u)
    BY <1>5 DEF InHand
  <2> QED  BY <1>4, <2>1, <2>2, <2>3
<1>7. TypeOK'
  <2>1. N \in Nat
    BY BuddyAssumption
  <2>2. held' \in [Threads -> SUBSET (Managed \X Sizes)]
    BY <1>1, <1>3
  <2>3. b[2] \in 0 .. N
    BY <1>4, <2>1
  <2>4. call' \in [Threads -> CallType]
    BY <1>1, <1>3, <1>4, <2>3 DEF CallType
  <2> QED  BY <1>2, <1>3, <2>2, <2>4 DEF TypeOK, CallType
<1>8. FlagsExact' /\ Merged' /\ \A o \in Orders : IsInjective(dir'[o])
  BY <1>2, <1>3 DEF FlagsExact, Merged
<1>9. Apart(Regions)' /\ Covers(Regions)'
  <2> DEFINE r0 == <<<<"held", t>>, b>>
             r1 == <<<<"hand", t>>, b>>
             A == {r0}
             B == {r1}
             R == Regions
             Q == Regions'
  <2>1. /\ \A r : r \in R <=> InRegions(r)
        /\ (\A r : r \in Regions <=> InRegions(r))'
    BY RegionIs, PTL
  <2>2. \A r : r \in Q <=> InRegions(r)'
    BY <2>1
  <2>3. r0 \in R
    BY <2>1 DEF InRegions
  <2>4. r0[2] = b /\ r1[2] = b /\ r0[1] = <<"held", t>> /\ r1[1] = <<"hand", t>>
    OBVIOUS
  <2>5. ASSUME NEW r  PROVE r \in Q <=> (r \in R /\ r \notin A) \/ r \in B
    <3> DEFINE fr0 == \E o \in Orders : \E f \in ToSet(dir[o]) : r = FR(f, o)
               he1 == \E u \in Threads : \E c \in held'[u] : r = <<<<"held", u>>, c>>
               he0 == \E u \in Threads : \E c \in held[u] : r = <<<<"held", u>>, c>>
               ha1 == \E u \in Threads : \E c \in InHand(u)' : r = <<<<"hand", u>>, c>>
               ha0 == \E u \in Threads : \E c \in InHand(u) : r = <<<<"hand", u>>, c>>
    <3>1. r \in Q <=> fr0 \/ he1 \/ ha1
      BY <1>2, <2>2 DEF InRegions, FR
    <3>2. r \in R <=> fr0 \/ he0 \/ ha0
      BY <2>1 DEF InRegions, FR
    <3>3. \A u, c : <<<<"held", u>>, c>> = r0 <=> u = t /\ c = b
      <4>1. \A u, c : <<<<"held", u>>, c>>[1][2] = u /\ <<<<"held", u>>, c>>[2] = c
        OBVIOUS
      <4>2. r0[1][2] = t
        OBVIOUS
      <4> QED  BY <2>4, <4>1, <4>2
    <3>4. he1 <=> he0 /\ r # r0
      BY <1>5, <3>3
    <3>5. ha1 <=> ha0 \/ r = r1
      BY <1>6
    <3>6. fr0 \/ ha0 => r # r0
      <4>1. \A f, o : FR(f, o)[1] = <<"free">>
        BY DEF FR
      <4>2. \A u, c : <<<<"hand", u>>, c>>[1] = <<"hand", u>>
        OBVIOUS
      <4> HIDE DEF r0
      <4> QED  BY <2>4, <4>1, <4>2, Tags
    <3> HIDE DEF fr0, he1, he0, ha1, ha0, r0, r1, Q, R
    <3> QED  BY <3>1, <3>2, <3>4, <3>5, <3>6
  <2>6. A \subseteq R
    BY <2>3
  <2>7. Apart(B) /\ \A r \in B : r[2] \in Nat \X (Nat \ {0})
    BY <1>4, <2>4 DEF Apart
  <2>8. \A x : (\E r \in A : x \in RangeOf(r[2])) <=> (\E r \in B : x \in RangeOf(r[2]))
    BY <2>4
  <2>9. Apart(Regions) /\ Covers(Regions)
    BY <1>3
  <2> HIDE DEF A, B, Q, R
  <2>10. Apart(R) /\ Covers(R)
    BY <2>9 DEF R
  <2>11. Apart(Q) /\ Covers(Q)
    BY <2>5, <2>6, <2>7, <2>8, <2>10, Exchange
  <2> QED  BY <2>11 DEF Q, Apart, Covers, RangeOf, Managed
<1>10. ASSUME NEW c \in Managed \X Sizes, Holds(c), c = <<c[1], c[2]>>  PROVE Holds(c)'
  <2>1. c[1] \in Nat /\ c[2] \in Nat /\ c[2] < Size(MaxOrder + 1) /\ Marked(c[1], c[2])
    <3>1. Managed \subseteq Nat /\ Sizes \subseteq Nat
      BY BuddyAssumption DEF Managed
    <3>2. c[1] \in Managed /\ c[2] \in Sizes
      BY <1>10
    <3> QED  BY <1>10, <3>1, <3>2 DEF Holds
  <2>2. Marked(c[1], c[2])'
    BY <1>2, <2>1, MarkedStays
  <2> QED  BY <1>10, <2>2 DEF Holds
<1>11. ASSUME NEW u \in Threads, NEW c \in held'[u]  PROVE Holds(c)'
  <2>1. c \in held[u]
    BY <1>5, <1>11
  <2>2. c \in Managed \X Sizes /\ c = <<c[1], c[2]>> /\ Holds(c)
    BY <1>3, <2>1
  <2> QED  BY <1>10, <2>2
<1>12. Called(call[t])'
  <2>1. b \in Managed \X Sizes /\ Holds(b)
    BY <1>3
  <2>2. Holds(b)'
    BY <1>4, <1>10, <2>1
  <2>3. b[2] >= 1
    BY <1>4, BuddyAssumption
  <2>4. call'[t].at = "free" /\ call'[t].fr = b[1] /\ call'[t].n = b[2]
    BY <1>5
  <2> QED  BY <2>2, <2>3, <2>4 DEF Called, Holds
<1>13. ASSUME NEW u \in Threads, u # t  PROVE Called(call[u])'
  <2>1. Called(call[u]) /\ call'[u] = call[u]
    BY <1>3, <1>5, <1>13
  <2> QED  BY <1>2, <2>1, CalledStays
<1>14. (\A u \in Threads : Called(call[u]) /\ \A c \in held[u] : Holds(c))'
  BY <1>11, <1>12, <1>13
<1> QED  BY <1>7, <1>8, <1>9, <1>14 DEF BInv

-----------------------------------------------------------------------------
(* Merging.                                                                 *)

\* The buddy of the block of order o around f.
Bud(f, o) == buddy_index(Base(f, o), o)

\* The block of the next order consists of the block and its buddy.
LEMMA Grow ==
    ASSUME NEW f \in Nat, NEW o \in Orders
    PROVE  /\ Base(f, o) \in Nat /\ Base(f, o + 1) \in Nat /\ Bud(f, o) \in Nat
           /\ Aligned(Base(f, o), o) /\ f \in Cells(Base(f, o), o)
           /\ Cells(Base(f, o + 1), o + 1) = Cells(Base(f, o), o) \cup Cells(Bud(f, o), o)
           /\ Bud(f, o) # Base(f, o)
           /\ \/ Base(f, o + 1) = Base(f, o) /\ Bud(f, o) = Base(f, o + 1) + Size(o)
              \/ Base(f, o + 1) = Bud(f, o) /\ Base(f, o) = Base(f, o + 1) + Size(o)
<1> DEFINE g == Base(f, o)
           h == Bud(f, o)
           w == Base(g, o + 1)
<1>1. /\ o \in Shifts /\ o + 1 \in Shifts /\ Size(o) \in Nat /\ Size(o) >= 1
      /\ Size(o + 1) \in Nat /\ Size(o + 1) >= 1
  BY Sizes2
<1>2. g \in Nat /\ Aligned(g, o) /\ g <= f /\ f < g + Size(o) /\ Base(f, o + 1) \in Nat
  <2>1. /\ g \in Int /\ g >= 0 /\ Aligned(g, o) /\ g <= f /\ f < g + Size(o)
        /\ Base(f, o + 1) \in Int /\ Base(f, o + 1) >= 0
    <3>1. f \in Int /\ f >= 0
      OBVIOUS
    <3>2. ASSUME NEW p \in {o, o + 1}
          PROVE  /\ Base(f, p) \in Int /\ Base(f, p) >= 0 /\ Aligned(Base(f, p), p)
                 /\ Base(f, p) <= f /\ f < Base(f, p) + Size(p)
      <4>1. p \in Shifts
        BY <1>1
      <4> QED  BY <3>1, <4>1, BaseOf
    <3> QED  BY <3>2
  <2> QED  BY <2>1
<1> HIDE DEF g
<1>3. h = buddy_index(g, o) /\ h \in Nat /\ Pair(g, h, o)
  BY <1>2, BuddyOf DEF Bud, g
<1> HIDE DEF h
<1>4. /\ g # h /\ w \in {g, h}
      /\ Cells(w, o + 1) = Cells(g, o) \cup Cells(h, o)
      /\ g < h => w = g
      /\ h < g => w = h
  <2>1. /\ g # h /\ (g < h => w = g) /\ (h < g => w = h)
        /\ Cells(w, o + 1) = Cells(g, o) \cup Cells(h, o)
    BY <1>2, <1>3, PairFacts
  <2> QED  BY <1>2, <1>3, <2>1
<1>5. f \in Cells(g, o)
  BY <1>1, <1>2 DEF Cells
<1> HIDE DEF w
<1>6. w = Base(f, o + 1)
  <2>1. w \in Nat /\ Aligned(w, o + 1)
    <3>1. g \in Int
      BY <1>2
    <3> QED  BY <1>1, <1>2, <1>3, <1>4, <3>1, BaseOf DEF w
  <2>2. f \in Cells(w, o + 1)
    BY <1>4, <1>5
  <2>3. w <= f /\ f < w + Size(o + 1)
    BY <1>1, <2>1, <2>2 DEF Cells
  <2>4. f \in Int
    OBVIOUS
  <2> QED  BY <1>1, <2>1, <2>3, <2>4, BaseOf
<1>7. \/ w = g /\ h = w + Size(o)
      \/ w = h /\ g = w + Size(o)
  <2>1. h = g + Size(o) \/ g = h + Size(o)
    BY <1>3 DEF Pair
  <2> QED  BY <1>1, <1>2, <1>3, <1>4, <2>1
<1> QED  BY <1>2, <1>3, <1>4, <1>5, <1>6, <1>7 DEF g, h

\* What merging from order k to order m puts together.
LEMMA Merging ==
    ASSUME NEW f \in Nat, NEW k \in Orders, NEW m \in Orders, k <= m, Aligned(f, k)
    PROVE  /\ Base(f, m) \in Nat /\ Aligned(Base(f, m), m) /\ Base(f, k) = f
           /\ \A x : x \in Cells(Base(f, m), m) <=>
                \/ x \in Cells(f, k)
                \/ \E o \in k .. m - 1 : x \in Cells(Bud(f, o), o)
           /\ \A o \in k .. m - 1 : /\ Base(f, o + 1) + Size(o) \in Cells(Base(f, m), m)
                                    /\ Base(f, o + 1) + Size(o) > Base(f, m)
           /\ \A o \in k .. m - 1 :
                \/ Bud(f, o) = Base(f, m)
                \/ \E p \in k .. m - 1 : Bud(f, o) = Base(f, p + 1) + Size(p)
<1>1. k \in Nat /\ m \in Nat /\ \A o \in k .. m : o \in Orders /\ o \in Nat
  BY BuddyAssumption DEF Orders
<1>2. Base(f, k) = f
  <2>1. k \in Shifts /\ f \in Int
    BY Sizes2
  <2> QED  BY <2>1, BaseOf
<1>3. \A p \in k .. m : \A x : x \in Cells(Base(f, p), p) <=>
         \/ x \in Cells(f, k)
         \/ \E o \in k .. p - 1 : x \in Cells(Bud(f, o), o)
  <2> DEFINE Sum(p) == \A x : x \in Cells(Base(f, p), p) <=>
                         \/ x \in Cells(f, k)
                         \/ \E o \in k .. p - 1 : x \in Cells(Bud(f, o), o)
             T == {p \in k .. m : ~Sum(p)}
  <2>1. SUFFICES ASSUME T # {}  PROVE FALSE
    OBVIOUS
  <2>2. T \in SUBSET Nat
    BY <1>1
  <2>3. PICK p \in T : \A q \in T : p <= q
    <3> HIDE DEF T
    <3> QED  BY <2>1, <2>2, LeastIn
  <2>4. p \in k .. m /\ p \in Nat /\ ~Sum(p)
    BY <1>1, <2>3
  <2>5. Sum(k)
    BY <1>1, <1>2
  <2>6. p # k
    <3> HIDE DEF Sum
    <3> QED  BY <2>4, <2>5
  <2> DEFINE r == p - 1
  <2>7. r \in k .. m /\ r \in Nat /\ r + 1 = p /\ ~(p <= r)
    BY <1>1, <2>4, <2>6
  <2>8. Sum(r)
    <3> HIDE DEF Sum
    <3> QED  BY <2>3, <2>7
  <2>9. r \in Orders
    BY <1>1, <2>7
  <2> HIDE DEF r
  <2>10. Cells(Base(f, p), p) = Cells(Base(f, r), r) \cup Cells(Bud(f, r), r)
    BY <2>7, <2>9, Grow
  <2>11. \A o : o \in k .. p - 1 <=> o \in k .. r - 1 \/ o = r
    BY <1>1, <2>4, <2>7
  <2>12. Sum(p)
    BY <2>8, <2>10, <2>11
  <2> QED  BY <2>4, <2>12
<1>4. \A o \in k .. m - 1 : Cells(Base(f, o + 1), o + 1) \subseteq Cells(Base(f, m), m)
  <2>1. SUFFICES ASSUME NEW o \in k .. m - 1, NEW x \in Cells(Base(f, o + 1), o + 1)
                 PROVE  x \in Cells(Base(f, m), m)
    OBVIOUS
  <2>2. o + 1 \in k .. m /\ m \in k .. m /\ \A q \in k .. (o + 1) - 1 : q \in k .. m - 1
    BY <1>1
  <2> QED  BY <1>3, <2>1, <2>2
<1>5. \A o \in k .. m - 1 :
         /\ o \in Orders /\ o + 1 \in Shifts /\ Size(o) \in Nat /\ Size(o) >= 1
         /\ Size(o + 1) = Size(o) + Size(o)
  BY <1>1, Sizes2
<1>6. m \in Shifts /\ Size(m) \in Nat /\ Base(f, m) \in Nat /\ Aligned(Base(f, m), m)
  BY Sizes2, Grow
<1>7. ASSUME NEW o \in k .. m - 1
      PROVE  /\ Base(f, o + 1) + Size(o) \in Cells(Base(f, m), m)
             /\ Base(f, o + 1) + Size(o) > Base(f, m)
  <2>1. Base(f, o + 1) \in Nat
    BY <1>5, Grow
  <2>2. /\ Base(f, o + 1) + Size(o) \in Cells(Base(f, o + 1), o + 1)
        /\ Base(f, o + 1) \in Cells(Base(f, o + 1), o + 1)
    BY <1>5, <2>1 DEF Cells
  <2>3. Base(f, o + 1) + Size(o) \in Cells(Base(f, m), m) /\ Base(f, o + 1) \in Cells(Base(f, m), m)
    BY <1>4, <2>2
  <2> QED  BY <1>5, <1>6, <2>1, <2>3 DEF Cells
<1> DEFINE IsUpper(x) == \E p \in k .. m - 1 : x = Base(f, p + 1) + Size(p)
<1>8. \A q \in k .. m : Base(f, q) = Base(f, m) \/ IsUpper(Base(f, q))
  <2> DEFINE Good(q) == Base(f, q) = Base(f, m) \/ IsUpper(Base(f, q))
             T == {j \in 0 .. m - k : ~Good(m - j)}
  <2>1. T \in SUBSET Nat
    BY <1>1
  <2>2. T = {}
    <3>1. SUFFICES ASSUME T # {}  PROVE FALSE
      OBVIOUS
    <3>2. PICK j \in T : \A i \in T : j <= i
      <4> HIDE DEF T
      <4> QED  BY <2>1, <3>1, LeastIn
    <3>3. j \in Nat /\ j <= m - k /\ ~Good(m - j)
      BY <1>1, <3>2
    <3>4. j # 0
      <4>1. m - 0 = m
        BY <1>1
      <4> QED  BY <3>3, <4>1
    <3> DEFINE q == m - j
    <3>5. /\ q \in k .. m - 1 /\ q + 1 = m - (j - 1) /\ j - 1 \in 0 .. m - k
          /\ ~(j <= j - 1)
      BY <1>1, <3>3, <3>4
    <3>6. Good(m - (j - 1))
      <4> HIDE DEF Good
      <4> QED  BY <3>2, <3>5
    <3> HIDE DEF q
    <3>7. Good(q + 1)
      BY <3>5, <3>6
    <3>8. Base(f, q) = Base(f, q + 1) \/ Base(f, q) = Base(f, q + 1) + Size(q)
      BY <1>5, <3>5, Grow
    <3>9. Good(q)
      BY <3>5, <3>7, <3>8
    <3> QED  BY <3>3, <3>9 DEF q
  <2>3. ASSUME NEW q \in k .. m  PROVE Good(q)
    <3>1. m - q \in 0 .. m - k /\ m - (m - q) = q
      BY <1>1
    <3>2. Good(m - (m - q))
      <4> HIDE DEF Good
      <4> QED  BY <2>2, <3>1
    <3> QED  BY <3>1, <3>2
  <2> QED  BY <2>3
<1>9. ASSUME NEW o \in k .. m - 1
      PROVE  Bud(f, o) = Base(f, m) \/ IsUpper(Bud(f, o))
  <2>1. Bud(f, o) = Base(f, o + 1) + Size(o) \/ Bud(f, o) = Base(f, o + 1)
    BY <1>5, Grow
  <2>2. o + 1 \in k .. m
    BY <1>1
  <2> QED  BY <1>8, <2>1, <2>2
<1>10. m \in k .. m
  BY <1>1
<1> QED  BY <1>2, <1>3, <1>6, <1>7, <1>9, <1>10

\* A free block shares no frame with what a thread has.
LEMMA HandFree ==
    ASSUME BInv, NEW t \in Threads, NEW b, b \in InHand(t) \/ b \in held[t],
           NEW o \in Orders, NEW g \in ToSet(dir[o])
    PROVE  Cells(g, o) \cap RangeOf(b) = {}
<1>1. PICK tag : <<tag, b>> \in Regions /\ tag \in {<<"hand", t>>, <<"held", t>>}
  BY RegionIs DEF InRegions
<1>2. FR(g, o) \in Regions
  BY RegionIs DEF InRegions, FR
<1>3. <<tag, b>>[2] = b /\ FR(g, o)[1] = <<"free">> /\ <<tag, b>>[1] = tag
  BY DEF FR
<1>4. <<tag, b>> # FR(g, o)
  BY <1>1, <1>3, Tags
<1>5. RangeOf(FR(g, o)[2]) = Cells(g, o)
  BY FRIs
<1> QED  BY <1>1, <1>2, <1>3, <1>4, <1>5 DEF BInv, Apart

\* Two free blocks share no frame.
LEMMA FreeFree ==
    ASSUME BInv, NEW o \in Orders, NEW p \in Orders, NEW g \in ToSet(dir[o]), NEW h \in ToSet(dir[p]),
           Cells(g, o) \cap Cells(h, p) # {}
    PROVE  g = h /\ o = p
<1>1. FR(g, o) \in Regions /\ FR(h, p) \in Regions
  BY RegionIs DEF InRegions, FR
<1>2. RangeOf(FR(g, o)[2]) = Cells(g, o) /\ RangeOf(FR(h, p)[2]) = Cells(h, p)
  BY FRIs
<1>3. FR(g, o) = FR(h, p)
  BY <1>1, <1>2 DEF BInv, Apart
<1> QED  BY <1>3, FRIs

\* How far __buddy_free merges: each buddy on the way is on the list of its
\* order, and the one where it stops is not.
LEMMA MergesTo ==
    ASSUME BInv, NEW f \in Nat, NEW k \in Orders
    PROVE  LET m == MergedOrder(f, k)
           IN /\ m \in Orders /\ k <= m
              /\ \A o \in k .. m - 1 : o \in Orders /\ Bud(f, o) \in ToSet(dir[o])
              /\ m < MaxOrder => Bud(f, m) \notin ToSet(dir[m])
<1> DEFINE S == {o \in k .. MaxOrder : ~Mergeable(buddy_index(Base(f, o), o), o)}
           m == Least(S)
<1>1. k \in Nat /\ MaxOrder \in Nat /\ k <= MaxOrder
  BY BuddyAssumption DEF Orders
<1>2. S \in SUBSET Nat
  BY <1>1
<1>3. MaxOrder \in S
  BY <1>1 DEF Mergeable
<1>4. m \in S /\ \A x \in S : m <= x
  <2> HIDE DEF S
  <2> QED  BY <1>2, <1>3, LeastIn
<1> HIDE DEF m
<1>5. m = MergedOrder(f, k)
  BY DEF MergedOrder, m
<1>6. m \in Orders /\ k <= m /\ m \in Nat /\ m <= MaxOrder
  BY <1>1, <1>4 DEF Orders
<1>7. ASSUME NEW o \in k .. m - 1  PROVE o \in Orders /\ Bud(f, o) \in ToSet(dir[o])
  <2>1. o \in Orders /\ o \in k .. MaxOrder /\ ~(m <= o)
    BY <1>1, <1>6 DEF Orders
  <2>2. Mergeable(Bud(f, o), o)
    BY <1>4, <2>1 DEF Bud
  <2>3. Bud(f, o) \in Frames
    BY <2>2, BuddyAssumption DEF Mergeable, Managed, Frames
  <2> QED  BY <2>1, <2>2, <2>3 DEF Mergeable, BInv, FlagsExact
<1>8. ASSUME m < MaxOrder, Bud(f, m) \in ToSet(dir[m])  PROVE FALSE
  <2>1. ~Mergeable(Bud(f, m), m)
    BY <1>4 DEF Bud
  <2>2. Bud(f, m) \in Managed /\ Bud(f, m) \in free /\ order[Bud(f, m)] = m
    BY <1>6, <1>8, FreeBlock
  <2> QED  BY <1>8, <2>1, <2>2 DEF Mergeable
<1> QED  BY <1>5, <1>6, <1>7, <1>8

\* The size of the piece that buddy_free_frames frees next.
PieceSize(n) == Least({Size(b) : b \in {c \in Orders : Size(c + 1) > n}})

\* What a thread that frees has in its hands, and the piece it frees next.
LEMMA FreeHand ==
    ASSUME BInv, NEW t \in Threads, call[t].at = "free",
           NEW f, NEW n, f = call[t].fr, n = call[t].n
    PROVE  LET k == order[f]
               sz == PieceSize(n)
           IN /\ InHand(t) = {<<f, n>>} /\ RangeOf(<<f, n>>) \subseteq Managed
              /\ f \in Nat /\ n \in Nat \ {0} /\ n < Size(MaxOrder + 1) /\ Marked(f, n)
              /\ sz \in 1 .. n /\ sz \in Nat /\ k \in Orders /\ k \in Shifts /\ sz = Size(k)
              /\ Aligned(f, k) /\ f \notin free
              /\ Falling(f + sz, n - sz) = Falling(f, n) \ {<<f, k>>}
<1> DEFINE k == order[f]
           sz == PieceSize(n)
<1>1. InHand(t) = {<<f, n>>}
  BY DEF InHand
<1>2. f \in Nat /\ n \in Nat \ {0} /\ RangeOf(<<f, n>>) \subseteq Managed
  BY <1>1, HandFacts
<1>3. n < Size(MaxOrder + 1) /\ Marked(f, n)
  BY DEF BInv, Called
<1> HIDE DEF sz
<1>4. /\ sz \in 1 .. n
      /\ \E b \in Orders : /\ sz = Size(b) /\ <<f, b>> \in Falling(f, n)
                           /\ Falling(f + sz, n - sz) = Falling(f, n) \ {<<f, b>>}
  <2>1. n \in Nat /\ n >= 1
    BY <1>2
  <2> QED  BY <1>2, <1>3, <2>1, FallingFirst DEF sz, PieceSize
<1>5. PICK b \in Orders : /\ sz = Size(b) /\ <<f, b>> \in Falling(f, n)
                          /\ Falling(f + sz, n - sz) = Falling(f, n) \ {<<f, b>>}
  BY <1>4
<1>6. order[f] = b /\ f \notin free /\ Aligned(f, b)
  <2>1. <<f, b>>[1] = f /\ <<f, b>>[2] = b
    OBVIOUS
  <2> QED  BY <1>3, <1>5, <2>1 DEF Marked
<1>7. b \in Shifts /\ sz \in Nat
  BY <1>5, Sizes2
<1> QED  BY <1>1, <1>2, <1>3, <1>4, <1>5, <1>6, <1>7 DEF sz

\* __buddy_free: the buddies of the piece leave their lists, the merged block
\* joins one.
LEMMA FreePieceKeeps ==
    ASSUME BInv, NEW t \in Threads, FreePiece(t)
    PROVE  BInv'
<1> SUFFICES ASSUME NEW f, NEW n, f = call[t].fr, n = call[t].n  PROVE BInv'
  OBVIOUS
<1> DEFINE k == order[f]
           m == MergedOrder(f, k)
           upper == Upper(f, k, m)
           w == Base(f, m)
           whole == <<w, m>>
           sz == PieceSize(n)
           B == {<<u, NoOrder>> : u \in upper} \cup {whole}
           lists == [o \in Orders |-> IF o \in k .. m - 1 THEN Drop(dir[o], Bud(f, o)) ELSE dir[o]]
           X == {<<Bud(f, o), o>> : o \in k .. m - 1}
           K == {whole}
<1>1. /\ call[t].at = "free" /\ order' = SetOrders(B)
      /\ free' = (free \ upper) \cup {whole[1]} /\ dir' = AddTail(lists, K)
      /\ call' = [call EXCEPT ![t] = IF @.n = sz THEN Idle
                                     ELSE [at |-> "free", fr |-> f + sz, n |-> @.n - sz]]
      /\ held' = held
  BY DEF FreePiece, Bud, PieceSize
<1>2. /\ InHand(t) = {<<f, n>>} /\ RangeOf(<<f, n>>) \subseteq Managed
      /\ f \in Nat /\ n \in Nat \ {0} /\ n < Size(MaxOrder + 1) /\ Marked(f, n)
      /\ sz \in 1 .. n /\ sz \in Nat /\ k \in Orders /\ k \in Shifts /\ sz = Size(k)
      /\ Aligned(f, k) /\ f \notin free
      /\ Falling(f + sz, n - sz) = Falling(f, n) \ {<<f, k>>}
  <2>1. call[t].at = "free"
    BY <1>1
  <2> HIDE DEF upper, w, m
  <2> QED  BY <2>1, FreeHand
<1>3. /\ dir \in [Orders -> Seq(Managed)] /\ \A o \in Orders : IsInjective(dir[o])
      /\ order \in [Frames -> Orders \cup {NoOrder}]
      /\ free \subseteq Managed /\ held \in [Threads -> SUBSET (Managed \X Sizes)]
      /\ call \in [Threads -> CallType] /\ Managed \subseteq Frames /\ Managed \subseteq Nat
  BY BuddyAssumption DEF BInv, TypeOK, CallType, Managed, Frames
<1> HIDE DEF sz, k
<1>4. /\ m \in Orders /\ k <= m /\ m \in Nat /\ k \in Nat
      /\ \A o \in k .. m - 1 : o \in Orders /\ Bud(f, o) \in ToSet(dir[o])
      /\ m < MaxOrder => Bud(f, m) \notin ToSet(dir[m])
  <2>1. f \in Nat /\ k \in Orders /\ MaxOrder \in Nat
    BY <1>2, BuddyAssumption
  <2>2. \A o \in k .. m - 1 : o \in Orders /\ Bud(f, o) \in ToSet(dir[o])
    BY <1>2, MergesTo
  <2>3. m \in Orders /\ k <= m /\ (m < MaxOrder => Bud(f, m) \notin ToSet(dir[m]))
    BY <1>2, MergesTo
  <2> HIDE DEF m
  <2>4. m \in Nat /\ k \in Nat
    BY <2>1, <2>3 DEF Orders
  <2> QED  BY <2>2, <2>3, <2>4
<1> HIDE DEF m
<1>5. /\ w \in Nat /\ Aligned(w, m) /\ Base(f, k) = f
      /\ \A x : x \in Cells(w, m) <=>
           \/ x \in Cells(f, k)
           \/ \E o \in k .. m - 1 : x \in Cells(Bud(f, o), o)
      /\ \A o \in k .. m - 1 : /\ Base(f, o + 1) + Size(o) \in Cells(w, m)
                               /\ Base(f, o + 1) + Size(o) > w
      /\ \A o \in k .. m - 1 : Bud(f, o) = w
                               \/ \E p \in k .. m - 1 : Bud(f, o) = Base(f, p + 1) + Size(p)
  BY <1>2, <1>4, Merging
<1> HIDE DEF w
<1>6. /\ \A u \in upper : u \in Cells(w, m) /\ u > w
      /\ w \notin upper
      /\ \A o \in k .. m - 1 : Bud(f, o) = w \/ Bud(f, o) \in upper
  <2>1. \A u : u \in upper <=> \E o \in k .. m - 1 : u = Base(f, o + 1) + Size(o)
    BY DEF Upper
  <2> HIDE DEF upper
  <2>2. \A u \in upper : u \in Cells(w, m) /\ u > w
    BY <1>5, <2>1
  <2>3. \A o \in k .. m - 1 : Bud(f, o) = w \/ Bud(f, o) \in upper
    BY <1>5, <2>1
  <2> QED  BY <1>5, <2>2, <2>3
<1> HIDE DEF upper
<1>7. \A x : Taken(t, X, x) <=> x \in RangeOf(<<f, n>>) \/ \E o \in k .. m - 1 : x \in Cells(Bud(f, o), o)
  <2>0. /\ \A o \in k .. m - 1 : <<Bud(f, o), o>> \in X
        /\ \A o : <<Bud(f, o), o>>[1] = Bud(f, o) /\ <<Bud(f, o), o>>[2] = o
        /\ \A p \in X : \E o \in k .. m - 1 : p[1] = Bud(f, o) /\ p[2] = o
    OBVIOUS
  <2> HIDE DEF X
  <2>1. ASSUME NEW x
        PROVE  (\E p \in X : x \in Cells(p[1], p[2])) <=> \E o \in k .. m - 1 : x \in Cells(Bud(f, o), o)
    <3>1. ASSUME NEW o \in k .. m - 1, x \in Cells(Bud(f, o), o)
          PROVE  \E p \in X : x \in Cells(p[1], p[2])
      <4>1. PICK p : p = <<Bud(f, o), o>>
        OBVIOUS
      <4>2. p \in X /\ p[1] = Bud(f, o) /\ p[2] = o
        BY <2>0, <3>1, <4>1
      <4> QED  BY <3>1, <4>2
    <3> QED  BY <2>0, <3>1
  <2> QED  BY <1>2, <2>1 DEF Taken
<1> HIDE DEF X
<1>8. /\ RangeOf(<<f, n>>) = f .. (f + n) - 1 /\ Cells(f, k) = f .. (f + sz) - 1
      /\ Cells(f, k) \subseteq RangeOf(<<f, n>>)
      /\ RangeOf(<<f + sz, n - sz>>) = f + sz .. (f + n) - 1
  <2>1. RangeOf(<<f, n>>) = f .. (f + n) - 1 /\ Cells(f, k) = f .. (f + sz) - 1
    BY <1>2 DEF RangeOf, Cells
  <2>2. (f + sz) + (n - sz) - 1 = (f + n) - 1
    BY <1>2
  <2>3. RangeOf(<<f + sz, n - sz>>) = f + sz .. (f + n) - 1
    BY <1>2, <2>2 DEF RangeOf
  <2>4. f .. (f + sz) - 1 \subseteq f .. (f + n) - 1
    <3>1. f \in Nat /\ n \in Nat /\ sz \in Nat /\ sz <= n
      BY <1>2
    <3> QED  BY <3>1
  <2> QED  BY <2>1, <2>3, <2>4
<1>9. \A x : Taken(t, X, x) <=> x \in Cells(w, m) \/ x \in f + sz .. (f + n) - 1
  <2>1. \A x : x \in RangeOf(<<f, n>>) <=> x \in Cells(f, k) \/ x \in f + sz .. (f + n) - 1
    <3>1. f \in Nat /\ n \in Nat /\ sz \in Nat /\ sz <= n
      BY <1>2
    <3> HIDE DEF K, B, lists, whole
    <3>2. ASSUME NEW x
          PROVE  x \in f .. (f + n) - 1 <=> x \in f .. (f + sz) - 1 \/ x \in f + sz .. (f + n) - 1
      BY <3>1
    <3> QED  BY <1>8, <3>2
  <2> QED  BY <1>5, <1>7, <2>1
<1>10. Cells(w, m) \cap f + sz .. (f + n) - 1 = {}
  <2>1. SUFFICES ASSUME NEW x \in Cells(w, m), x \in f + sz .. (f + n) - 1  PROVE FALSE
    OBVIOUS
  <2>2. x \notin Cells(f, k) /\ x \in RangeOf(<<f, n>>)
    BY SMTT(30), <1>2, <1>8, <2>1
  <2>3. PICK o \in k .. m - 1 : x \in Cells(Bud(f, o), o)
    BY <1>5, <2>2
  <2> QED  BY <1>2, <1>4, <2>2, <2>3, HandFree
<1>11. Cells(w, m) \subseteq Managed /\ w \in Cells(w, m) /\ w \in Managed /\ w \in Frames
  <2>1. ASSUME NEW o \in k .. m - 1  PROVE Cells(Bud(f, o), o) \subseteq Managed
    BY <1>4, FreeBlock
  <2>2. Cells(w, m) \subseteq Managed
    BY <1>2, <1>5, <1>8, <2>1
  <2>3. w \in Cells(w, m)
    BY <1>4, <1>5, FRIs
  <2> QED  BY <1>3, <2>2, <2>3
    \* The block that results is not on a list yet.
<1>12. w \notin ToSet(dir[m])
  <2>1. SUFFICES ASSUME w \in ToSet(dir[m])  PROVE FALSE
    OBVIOUS
  <2>2. CASE w \in Cells(f, k)
    BY <1>2, <1>4, <1>8, <2>1, <2>2, HandOff
  <2>3. CASE \E o \in k .. m - 1 : w \in Cells(Bud(f, o), o)
    <3>1. PICK o \in k .. m - 1 : w \in Cells(Bud(f, o), o)
      BY <2>3
    <3>2. o = m
      BY <1>4, <1>11, <2>1, <3>1, FreeFree
    <3> QED  BY <1>4, <3>2
  <2> QED  BY <1>5, <1>11, <2>2, <2>3
<1>13. Listed(X, K)
  <2>1. \A p \in X : p \in Managed \X Orders /\ p[1] \in ToSet(dir[p[2]])
    BY <1>4, FreeBlock DEF X
  <2>2. ASSUME NEW o \in Orders
        PROVE  /\ lists[o] \in Seq(Managed) /\ IsInjective(lists[o])
               /\ \A x : x \in ToSet(lists[o]) <=> x \in ToSet(dir[o]) /\ <<x, o>> \notin X
    <3>1. dir[o] \in Seq(Managed) /\ IsInjective(dir[o])
      BY <1>3
    <3>2. \A x : <<x, o>> \in X <=> o \in k .. m - 1 /\ x = Bud(f, o)
      BY DEF X
    <3>3. CASE o \in k .. m - 1
      <4>1. lists[o] = Drop(dir[o], Bud(f, o))
        BY <3>3
      <4>2. /\ Drop(dir[o], Bud(f, o)) \in Seq(Managed)
            /\ IsInjective(Drop(dir[o], Bud(f, o)))
            /\ ToSet(Drop(dir[o], Bud(f, o))) = ToSet(dir[o]) \ {Bud(f, o)}
        BY <3>1, DropList
      <4> HIDE DEF lists
      <4> QED  BY <3>2, <3>3, <4>1, <4>2
    <3>4. CASE o \notin k .. m - 1
      <4>1. lists[o] = dir[o]
        BY <3>4
      <4> HIDE DEF lists
      <4> QED  BY <3>1, <3>2, <3>4, <4>1
    <3> QED  BY <3>3, <3>4
  <2>3. lists \in [Orders -> Seq(Managed)]
    <3>1. \A o \in Orders : lists[o] \in Seq(Managed)
      BY <2>2
    <3>2. lists = [o \in Orders |-> lists[o]]
      OBVIOUS
    <3> HIDE DEF lists
    <3> QED  BY <3>1, <3>2
  <2> HIDE DEF lists
  <2>4. K \in SUBSET (Managed \X Orders) /\ K \subseteq Nat \X Orders /\ OnePerOrder(K)
    BY <1>3, <1>4, <1>11 DEF OnePerOrder
  <2>5. \A p \in K : p[1] \notin ToSet(lists[p[2]])
    BY <1>4, <1>12, <2>2
  <2> HIDE DEF K
  <2>6. /\ AddTail(lists, K) \in [Orders -> Seq(Managed)]
        /\ \A o \in Orders : IsInjective(AddTail(lists, K)[o])
        /\ \A o \in Orders : \A x :
             x \in ToSet(AddTail(lists, K)[o]) <=> x \in ToSet(lists[o]) \/ <<x, o>> \in K
    BY <2>2, <2>3, <2>4, <2>5, AddTailList
  <2>7. dir' = AddTail(lists, K)
    BY <1>1 DEF lists, K
  <2> QED  BY <2>1, <2>2, <2>4, <2>6, <2>7 DEF Listed
<1>14. /\ call' = [call EXCEPT ![t] = call'[t]]
       /\ n = sz => call'[t] = Idle
       /\ n # sz => call'[t] = [at |-> "free", fr |-> f + sz, n |-> n - sz]
  <2>1. call[t] \in CallType /\ call[t].n = n /\ call[t].fr = f /\ call[t].at = "free"
    BY <1>1, <1>3
  <2>2. call'[t] = IF n = sz THEN Idle ELSE [at |-> "free", fr |-> f + sz, n |-> n - sz]
    BY <1>1, <1>3, <2>1
  <2>3. call' = [call EXCEPT ![t] = call'[t]]
    BY <1>1, <1>3
  <2> QED  BY <2>2, <2>3
<1>15. InHand(t)' = IF n = sz THEN {} ELSE {<<f + sz, n - sz>>}
  <2>1. CASE n = sz
    BY <1>14, <2>1 DEF InHand, Idle
  <2>2. CASE n # sz
    BY <1>14, <2>2 DEF InHand
  <2> QED  BY <2>1, <2>2
<1>16. /\ \A b \in InHand(t)' : b = <<f + sz, n - sz>>
       /\ \A b \in InHand(t)' : b \in Nat \X (Nat \ {0})
       /\ \A x : (\E b \in InHand(t)' : x \in RangeOf(b)) <=> x \in f + sz .. (f + n) - 1
  <2>1. CASE n = sz
    <3>1. f + sz .. (f + n) - 1 = {}
      BY <1>2, <2>1
    <3> QED  BY <1>15, <2>1, <3>1
  <2>2. CASE n # sz
    <3>1. <<f + sz, n - sz>> \in Nat \X (Nat \ {0})
      BY <1>2, <2>2
    <3> QED  BY <1>8, <1>15, <2>2, <3>1
  <2> QED  BY <2>1, <2>2
<1>17. Balanced(t, X, K, {})
  <2>1. /\ \A p \in K : p = whole /\ p[1] = w /\ p[2] = m
        /\ whole \in K /\ whole[1] = w /\ whole[2] = m
    OBVIOUS
  <2>2. \A x : Placed(t, K, {}, x) <=> x \in Cells(w, m) \/ x \in f + sz .. (f + n) - 1
    <3>1. \A x : (\E p \in K : x \in Cells(p[1], p[2])) <=> x \in Cells(w, m)
      BY <2>1
    <3> HIDE DEF K
    <3>2. InHand(t)' \cup {} = InHand(t)'
      OBVIOUS
    <3> QED  BY <1>16, <3>1, <3>2 DEF Placed
  <2>3. \A p \in K : \A b \in InHand(t)' : Cells(p[1], p[2]) \cap RangeOf(b) = {}
    <3>1. \A b \in InHand(t)' : Cells(w, m) \cap RangeOf(b) = {}
      BY <1>8, <1>10, <1>16
    <3> QED  BY <2>1, <3>1
  <2>4. \A p, q \in K : p # q => Cells(p[1], p[2]) \cap Cells(q[1], q[2]) = {}
    BY <2>1
  <2>5. InHand(t)' \cup {} = InHand(t)'
    OBVIOUS
  <2>6. \A x : Taken(t, X, x) <=> Placed(t, K, {}, x)
    BY <1>9, <2>2
  <2>7. \A b, c \in InHand(t)' : b = c
    BY <1>16
  <2> HIDE DEF K
  <2> QED  BY <1>16, <2>3, <2>4, <2>5, <2>6, <2>7 DEF Balanced
<1>18. /\ order' \in [Frames -> Orders \cup {NoOrder}]
       /\ order'[w] = m
       /\ \A x \in Frames : x # w /\ x \notin upper => order'[x] = order[x]
  <2>1. \A p : p \in B <=> (\E u \in upper : p = <<u, NoOrder>>) \/ p = <<w, m>>
    OBVIOUS
  <2>2. <<w, m>>[1] = w /\ <<w, m>>[2] = m /\ \A u : <<u, NoOrder>>[1] = u /\ <<u, NoOrder>>[2] = NoOrder
    OBVIOUS
  <2>3. B = B
    OBVIOUS
  <2> HIDE DEF B
  <2>4. \A p \in B : p[2] \in Orders \cup {NoOrder}
    BY <1>4, <2>1, <2>2
  <2>5. \A p, q \in B : p[1] = q[1] => p = q
    BY <1>6, <2>1, <2>2
  <2>6. ASSUME NEW x  PROVE x \in First(B) <=> x \in upper \/ x = w
    <3>1. x \in First(B) <=> \E p \in B : x = p[1]
      BY DEF First
    <3>2. ASSUME x \in upper  PROVE \E p \in B : x = p[1]
      <4>1. PICK p : p = <<x, NoOrder>>
        OBVIOUS
      <4>2. p \in B /\ p[1] = x
        BY <2>1, <3>2, <4>1
      <4> QED  BY <4>2
    <3>3. ASSUME x = w  PROVE \E p \in B : x = p[1]
      <4>1. PICK p : p = <<w, m>>
        OBVIOUS
      <4>2. p \in B /\ p[1] = w
        BY <2>1, <4>1
      <4> QED  BY <3>3, <4>2
    <3>4. ASSUME NEW p \in B, x = p[1]  PROVE x \in upper \/ x = w
      BY <2>1, <2>2, <3>4
    <3> QED  BY <3>1, <3>2, <3>3, <3>4
  <2>7. order' = SetOrders(B)
    BY <1>1 DEF B
  <2>8. /\ order' \in [Frames -> Orders \cup {NoOrder}]
        /\ \A p \in B : p[1] \in Frames => order'[p[1]] = p[2]
        /\ \A x \in Frames : x \notin First(B) => order'[x] = order[x]
    BY <2>4, <2>5, <2>7, OrdersSet
  <2>9. order'[w] = m
    <3>1. <<w, m>> \in B
      BY <2>1
    <3> QED  BY <1>11, <2>2, <2>8, <3>1
  <2> QED  BY <2>6, <2>8, <2>9
<1>19. Flagged(t, X, K)
  <2>1. \A x : x \in First(K) <=> x = w
    <3>1. \A x : x \in First(K) <=> \E p \in K : x = p[1]
      BY DEF First
    <3>2. whole[1] = w
      OBVIOUS
    <3> QED  BY <3>1, <3>2
  <2>2. free' = (free \ upper) \cup {w}
    <3>1. whole[1] = w
      OBVIOUS
    <3> QED  BY <1>1, <3>1
  <2>3. whole \in K /\ whole[1] = w /\ whole[2] = m
    OBVIOUS
  <2> HIDE DEF K, whole
  <2>4. ASSUME NEW x \in Frames
        PROVE  \/ \E p \in K : p[1] = x /\ x \in free' /\ order'[x] = p[2]
               \/ x \notin First(K) /\ Taken(t, X, x) /\ x \notin free'
               \/ /\ x \notin First(K) /\ order'[x] = order[x] /\ (x \in free' <=> x \in free)
                  /\ \A o \in Orders : <<x, o>> \notin X
    <3>1. CASE x = w
      BY <1>18, <2>2, <2>3, <3>1
    <3>2. CASE x # w /\ x \in upper
      <4>1. Taken(t, X, x)
        BY <1>6, <1>9, <3>2
      <4> QED  BY <2>1, <2>2, <3>2, <4>1
    <3>3. CASE x # w /\ x \notin upper
      <4>1. \A o \in Orders : <<x, o>> \notin X
        <5>1. \A o : <<x, o>> \in X => o \in k .. m - 1 /\ x = Bud(f, o)
          BY DEF X
        <5> QED  BY <1>6, <3>3, <5>1
      <4> QED  BY <1>18, <2>1, <2>2, <3>3, <4>1
    <3> QED  BY <3>1, <3>2, <3>3
  <2>5. free' \subseteq Managed
    BY <1>3, <1>11, <2>2
  <2> QED  BY <1>18, <2>4, <2>5 DEF Flagged
<1>20. ASSUME NEW p \in K
       PROVE  /\ Aligned(p[1], p[2])
              /\ p[2] < MaxOrder => buddy_index(p[1], p[2]) \notin ToSet(dir'[p[2]])
  <2>1. p[1] = w /\ p[2] = m
    BY <1>20
  <2>2. buddy_index(w, m) = Bud(f, m) /\ Bud(f, m) # w
    BY <1>2, <1>4, Grow DEF Bud, w
  <2>3. <<Bud(f, m), m>> \notin K
    BY <2>2
  <2> HIDE DEF K
  <2>4. m < MaxOrder => Bud(f, m) \notin ToSet(dir'[m])
    BY <1>4, <1>13, <2>3 DEF Listed
  <2> QED  BY <1>5, <2>1, <2>2, <2>4
<1>21. Called(call[t])'
  <2>1. CASE n = sz
    BY <1>14, <2>1 DEF Called, Idle
  <2>2. CASE n # sz
    <3>1. n - sz \in Nat /\ n - sz >= 1 /\ n - sz < Size(MaxOrder + 1) /\ Size(MaxOrder + 1) \in Nat
      <4>1. MaxOrder + 1 \in Shifts
        BY BuddyAssumption DEF Shifts
      <4> QED  BY <1>2, <2>2, <4>1, Sizes2
    <3>2. ASSUME NEW p \in Falling(f + sz, n - sz)
          PROVE  order'[p[1]] = p[2] /\ p[1] \notin free' /\ Aligned(p[1], p[2])
      <4>1. order[p[1]] = p[2] /\ p[1] \notin free /\ Aligned(p[1], p[2])
        BY <1>2, <3>2 DEF Marked
      <4>2. p[1] \in f + sz .. (f + n) - 1
        <5>1. f + sz \in Int /\ n - sz \in Int /\ (f + sz) + (n - sz) = f + n /\ f + n \in Int
          BY <1>2
        <5>2. Tiles(Falling(f + sz, n - sz), f + sz, (f + sz) + (n - sz))
          BY <3>1, <5>1, FallingTiles
        <5>3. Tiles(Falling(f + sz, n - sz), f + sz, f + n)
          BY <5>1, <5>2
        <5> QED  BY <5>1, <5>3, TilesFirst
      <4>3. p[1] \notin Cells(w, m)
        BY <1>10, <4>2
      <4>4. p[1] # w /\ p[1] \notin upper
        BY <1>6, <1>11, <4>3
      <4>5. p[1] \in Frames
        BY <1>2, <1>3, <1>8, <4>2
      <4>6. free' = (free \ upper) \cup {w}
        <5>1. whole[1] = w
          OBVIOUS
        <5> QED  BY <1>1, <5>1
      <4> QED  BY <1>18, <4>1, <4>4, <4>5, <4>6
    <3>3. call'[t].at = "free" /\ call'[t].fr = f + sz /\ call'[t].n = n - sz
      BY <1>14, <2>2
    <3>4. Marked(f + sz, n - sz)'
      <4>1. PICK g : g = f + sz
        OBVIOUS
      <4>2. PICK j : j = n - sz
        OBVIOUS
      <4>3. Marked(g, j)'
        BY <3>2, <4>1, <4>2, MarkedNow
      <4>4. call'[t].fr = g /\ call'[t].n = j
        BY <3>3, <4>1, <4>2
      <4> QED  BY <4>1, <4>2, <4>3
    <3> QED  BY <3>1, <3>3, <3>4 DEF Called
  <2> QED  BY <2>1, <2>2
<1>22. /\ held' = [held EXCEPT ![t] = @ \cup {}]
       /\ call'[t] \in [at : {"idle", "mark", "rest", "free"}, fr : Nat, n : Nat]
       /\ call'[t].at = "idle" => call'[t] = Idle
  <2>1. held' = [held EXCEPT ![t] = @ \cup {}]
    BY <1>1, <1>3
  <2>2. CASE n = sz
    BY <1>14, <2>1, <2>2 DEF Idle
  <2>3. CASE n # sz
    <3>1. f + sz \in Nat /\ n - sz \in Nat
      BY <1>2
    <3> QED  BY <1>14, <2>1, <2>3, <3>1
  <2> QED  BY <2>2, <2>3
<1>23. Moves(t, X, K, {})
  BY <1>13, <1>14, <1>17, <1>19, <1>20, <1>21, <1>22 DEF Moves
<1> QED  BY <1>23, Move

-----------------------------------------------------------------------------
(* What buddy_init sets up.                                                 *)

\* The blocks in P, of any orders, make up the frames from a to b - 1.
Tiled(P, a, b) ==
    /\ \A p \in P : /\ p[1] \in Nat /\ p[2] \in Orders /\ p = <<p[1], p[2]>>
                    /\ a <= p[1] /\ p[1] + Size(p[2]) <= b
    /\ \A p, q \in P : p # q => Cells(p[1], p[2]) \cap Cells(q[1], q[2]) = {}
    /\ \A x \in a .. b - 1 : \E p \in P : x \in Cells(p[1], p[2])

\* What Rising, Falling and Halves fill, their blocks cover without overlap.
LEMMA TiledUp ==
    ASSUME NEW P, NEW a \in Nat, NEW b \in Nat, Tiles(P, a, b)
    PROVE  Tiled(P, a, b)
<1>1. \A p \in P : p \in Int \X Orders /\ a <= p[1] /\ p[1] + Size(p[2]) <= b
  BY DEF Tiles
<1>2. \A p \in P : p[1] \in Nat /\ p[2] \in Orders /\ p = <<p[1], p[2]>>
  BY <1>1
<1> QED  BY <1>1, <1>2 DEF Tiles, Tiled

\* Two ranges, one after the other, each filled by its blocks.
LEMMA TiledJoin ==
    ASSUME NEW P, NEW Q, NEW a \in Nat, NEW b \in Nat, NEW c \in Nat, a <= b, b <= c,
           Tiled(P, a, b), Tiled(Q, b, c)
    PROVE  Tiled(P \cup Q, a, c)
<1>1. /\ \A p \in P : /\ p[1] \in Nat /\ p[2] \in Orders /\ p = <<p[1], p[2]>>
                      /\ a <= p[1] /\ p[1] + Size(p[2]) <= b /\ Size(p[2]) \in Nat
      /\ \A p \in Q : /\ p[1] \in Nat /\ p[2] \in Orders /\ p = <<p[1], p[2]>>
                      /\ b <= p[1] /\ p[1] + Size(p[2]) <= c /\ Size(p[2]) \in Nat
  BY Sizes2 DEF Tiled
<1>2. \A p \in P, q \in Q : Cells(p[1], p[2]) \cap Cells(q[1], q[2]) = {}
  BY <1>1 DEF Cells
<1>3. \A p \in P \cup Q : /\ p[1] \in Nat /\ p[2] \in Orders /\ p = <<p[1], p[2]>>
                          /\ a <= p[1] /\ p[1] + Size(p[2]) <= c
  BY <1>1
<1>4. \A p, q \in P \cup Q : p # q => Cells(p[1], p[2]) \cap Cells(q[1], q[2]) = {}
  BY <1>2 DEF Tiled
<1>5. ASSUME NEW x \in a .. c - 1  PROVE \E p \in P \cup Q : x \in Cells(p[1], p[2])
  <2>1. x \in a .. b - 1 \/ x \in b .. c - 1
    OBVIOUS
  <2> QED  BY <2>1 DEF Tiled
<1> QED  BY <1>3, <1>4, <1>5 DEF Tiled

\* The i-th of the largest blocks from a on.
Large(a, i) == a + (i - 1) * Top

\* The largest blocks behind each other.
LEMMA LargeTiled ==
    ASSUME NEW a \in Nat, NEW q \in Nat
    PROVE  /\ Top \in Nat /\ Top >= 1 /\ MaxOrder \in Orders /\ a + q * Top \in Nat
           /\ a <= a + q * Top
           /\ \A i \in 1 .. q : Large(a, i) \in Nat
           /\ \A i, j \in 1 .. q : Large(a, i) = Large(a, j) => i = j
           /\ Tiled({<<Large(a, i), MaxOrder>> : i \in 1 .. q}, a, a + q * Top)
<1> DEFINE P == {<<Large(a, i), MaxOrder>> : i \in 1 .. q}
           s == Top
<1>1. MaxOrder \in Nat /\ MaxOrder \in Orders /\ s \in Nat /\ s >= 1
  BY Sizes2, BuddyAssumption DEF Orders, Top
<1> HIDE DEF s
<1>2. \A c, d \in Int : c < d => c * s + s <= d * s
  <2>1. SUFFICES ASSUME NEW c \in Int, NEW d \in Int, c < d  PROVE c * s + s <= d * s
    OBVIOUS
  <2>2. c + 1 <= d
    BY <2>1
  <2>3. (c + 1) * s <= d * s
    BY <1>1, <2>2
  <2> QED  BY <1>1, <2>3
<1>3. q * s \in Nat /\ \A i \in 1 .. q : (i - 1) * s \in Nat
  BY <1>1
<1>4. \A i \in 1 .. q : /\ Large(a, i) \in Nat /\ a <= Large(a, i)
                        /\ Large(a, i) + s <= a + q * s
  <2>1. SUFFICES ASSUME NEW i \in 1 .. q
                 PROVE  /\ Large(a, i) \in Nat /\ a <= Large(a, i)
                        /\ Large(a, i) + s <= a + q * s
    OBVIOUS
  <2>2. (i - 1) * s \in Nat /\ (i - 1) * s + s <= q * s
    BY <1>2, <1>3
  <2>3. Large(a, i) = a + (i - 1) * s
    BY DEF Large, s
  <2> DEFINE y == (i - 1) * s
             z == q * s
  <2>4. y \in Nat /\ z \in Nat /\ y + s <= z /\ Large(a, i) = a + y
    BY <1>3, <2>2, <2>3
  <2> HIDE DEF y, z
  <2>5. Large(a, i) \in Nat /\ a <= Large(a, i) /\ Large(a, i) + s <= a + z
    BY <1>1, <2>4
  <2> QED  BY <2>5 DEF z
<1>5. \A i, j \in 1 .. q : i < j => Large(a, i) + s <= Large(a, j)
  <2>1. SUFFICES ASSUME NEW i \in 1 .. q, NEW j \in 1 .. q, i < j
                 PROVE  Large(a, i) + s <= Large(a, j)
    OBVIOUS
  <2>2. (i - 1) * s + s <= (j - 1) * s
    BY <1>2, <2>1
  <2> DEFINE y == (i - 1) * s
             z == (j - 1) * s
  <2>3. y \in Nat /\ z \in Nat /\ y + s <= z
    BY <1>3, <2>2
  <2>4. Large(a, i) = a + y /\ Large(a, j) = a + z
    BY DEF Large, s
  <2> HIDE DEF y, z
  <2> QED  BY <1>1, <2>3, <2>4
<1>6. \A i, j \in 1 .. q : Large(a, i) = Large(a, j) => i = j
  BY <1>1, <1>4, <1>5
<1>7. /\ \A i \in 1 .. q : <<Large(a, i), MaxOrder>> \in P
      /\ \A p \in P : \E i \in 1 .. q : p = <<Large(a, i), MaxOrder>>
  OBVIOUS
<1>8. \A i : <<Large(a, i), MaxOrder>>[1] = Large(a, i) /\ <<Large(a, i), MaxOrder>>[2] = MaxOrder
  OBVIOUS
<1>9. Size(MaxOrder) = s
  BY DEF s, Top
<1> HIDE DEF P
<1>10. \A p \in P : /\ p[1] \in Nat /\ p[2] \in Orders /\ p = <<p[1], p[2]>>
                    /\ a <= p[1] /\ p[1] + Size(p[2]) <= a + q * s
  BY <1>1, <1>4, <1>7, <1>8, <1>9
<1>11. \A i, j \in 1 .. q : i # j =>
          Cells(Large(a, i), MaxOrder) \cap Cells(Large(a, j), MaxOrder) = {}
  <2>1. SUFFICES ASSUME NEW i \in 1 .. q, NEW j \in 1 .. q, i # j
                 PROVE  Cells(Large(a, i), MaxOrder) \cap Cells(Large(a, j), MaxOrder) = {}
    OBVIOUS
  <2>2. /\ Large(a, i) \in Nat /\ Large(a, j) \in Nat
        /\ Large(a, i) + s <= Large(a, j) \/ Large(a, j) + s <= Large(a, i)
    BY <1>4, <1>5, <2>1
  <2> QED  BY <1>1, <1>9, <2>2 DEF Cells
<1>12. \A p, r \in P : p # r => Cells(p[1], p[2]) \cap Cells(r[1], r[2]) = {}
  <2>1. SUFFICES ASSUME NEW p \in P, NEW r \in P, p # r
                 PROVE  Cells(p[1], p[2]) \cap Cells(r[1], r[2]) = {}
    OBVIOUS
  <2>2. PICK i \in 1 .. q : p = <<Large(a, i), MaxOrder>>
    BY <1>7
  <2>3. PICK j \in 1 .. q : r = <<Large(a, j), MaxOrder>>
    BY <1>7
  <2>4. i # j
    BY <2>1, <2>2, <2>3
  <2> QED  BY <1>8, <1>11, <2>2, <2>3, <2>4
<1>13. ASSUME NEW x \in a .. (a + q * s) - 1  PROVE \E p \in P : x \in Cells(p[1], p[2])
  <2> DEFINE y == x - a
             d == y \div s
             z == q * s
  <2>0. z \in Nat /\ x \in Int /\ x >= a /\ x < a + z
    <3>1. z \in Nat /\ x \in a .. (a + z) - 1
      BY <1>3
    <3> HIDE DEF z
    <3> QED  BY <3>1
  <2>1. y \in Int /\ y >= 0 /\ y < z /\ x = a + y
    <3> HIDE DEF z
    <3> QED  BY <2>0
  <2> HIDE DEF y
  <2>2. d \in Int /\ (y % s) \in 0 .. s - 1 /\ y = d * s + (y % s)
    BY <1>1, <2>1, Division
  <2> HIDE DEF d
  <2>3. d >= 0
    <3>1. SUFFICES ASSUME d < 0  PROVE FALSE
      BY <2>2
    <3>2. d * s + s <= 0 * s
      BY <1>2, <2>2, <3>1
    <3> DEFINE e == d * s
    <3>3. e \in Int /\ e + s <= 0 /\ y = e + (y % s)
      BY <1>1, <2>2, <3>2
    <3> HIDE DEF e
    <3> QED  BY <1>1, <2>1, <2>2, <3>3
  <2>4. d < q
    <3>1. SUFFICES ASSUME q <= d  PROVE FALSE
      BY <2>2
    <3>2. q * s <= d * s
      <4>1. CASE q = d
        BY <1>1, <2>2, <4>1
      <4>2. CASE q < d
        <5>1. q * s + s <= d * s
          BY <1>2, <2>2, <4>2
        <5> QED  BY <1>1, <1>3, <2>2, <5>1
      <4> QED  BY <2>2, <3>1, <4>1, <4>2
    <3> DEFINE e == d * s
    <3>3. e \in Int /\ z <= e /\ y = e + (y % s)
      BY <1>1, <2>2, <3>2
    <3> HIDE DEF e, z
    <3> QED  BY <1>1, <2>0, <2>1, <2>2, <3>3
  <2> DEFINE i == d + 1
  <2>5. i \in 1 .. q /\ Large(a, i) = a + d * s
    <3>1. i \in 1 .. q /\ i - 1 = d
      BY <2>2, <2>3, <2>4
    <3> HIDE DEF i
    <3> QED  BY <3>1 DEF Large, s
  <2>6. x \in Cells(Large(a, i), MaxOrder)
    <3> DEFINE e == d * s
    <3>1. e \in Int /\ x = a + (e + (y % s)) /\ Large(a, i) = a + e
      BY <1>1, <2>1, <2>2, <2>5
    <3> HIDE DEF e, i
    <3> QED  BY <1>1, <1>9, <2>2, <3>1 DEF Cells
  <2> HIDE DEF i
  <2>7. <<Large(a, i), MaxOrder>> \in P
    BY <1>7, <2>5
  <2> QED  BY <1>8, <2>6, <2>7
<1>14. Tiled(P, a, a + q * s)
  BY <1>10, <1>12, <1>13 DEF Tiled
<1>15. a + q * s \in Nat /\ a <= a + q * s
  <2> DEFINE z == q * s
  <2>1. z \in Nat
    BY <1>3
  <2> HIDE DEF z
  <2>2. a + z \in Nat /\ a <= a + z
    BY <2>1
  <2> QED  BY <2>2 DEF z
<1> QED  BY <1>1, <1>4, <1>6, <1>14, <1>15 DEF P, s

\* Adding one list at the end of another.
LEMMA ConcatList ==
    ASSUME NEW S, NEW q \in Seq(S), NEW r \in Seq(S), IsInjective(q), IsInjective(r),
           ToSet(q) \cap ToSet(r) = {}
    PROVE  /\ q \o r \in Seq(S) /\ IsInjective(q \o r)
           /\ \A x : x \in ToSet(q \o r) <=> x \in ToSet(q) \/ x \in ToSet(r)
<1> DEFINE u == q \o r
<1>1. /\ u \in Seq(S) /\ Len(u) = Len(q) + Len(r) /\ Len(q) \in Nat /\ Len(r) \in Nat
      /\ \A i \in 1 .. Len(u) : u[i] = IF i <= Len(q) THEN q[i] ELSE r[i - Len(q)]
  OBVIOUS
<1> HIDE DEF u
<1>2. /\ \A i \in 1 .. Len(q) : i \in 1 .. Len(u) /\ u[i] = q[i] /\ q[i] \in ToSet(q)
      /\ \A i \in 1 .. Len(r) : /\ i + Len(q) \in 1 .. Len(u) /\ u[i + Len(q)] = r[i]
                                /\ r[i] \in ToSet(r)
  <2>1. \A i \in 1 .. Len(q) : i \in 1 .. Len(u) /\ u[i] = q[i] /\ q[i] \in ToSet(q)
    BY <1>1 DEF ToSet
  <2>2. ASSUME NEW i \in 1 .. Len(r)
        PROVE  i + Len(q) \in 1 .. Len(u) /\ u[i + Len(q)] = r[i] /\ r[i] \in ToSet(r)
    <3>1. i + Len(q) \in 1 .. Len(u) /\ ~(i + Len(q) <= Len(q)) /\ (i + Len(q)) - Len(q) = i
      BY <1>1
    <3>2. u[i + Len(q)] = r[(i + Len(q)) - Len(q)]
      BY <1>1, <3>1
    <3> QED  BY <3>1, <3>2 DEF ToSet
  <2> QED  BY <2>1, <2>2
<1>3. \A i \in 1 .. Len(u) : \/ i \in 1 .. Len(q)
                             \/ i - Len(q) \in 1 .. Len(r) /\ i = (i - Len(q)) + Len(q)
  BY <1>1
<1>4. \A x : x \in ToSet(u) <=> x \in ToSet(q) \/ x \in ToSet(r)
  <2>1. ASSUME NEW y \in Seq(S), NEW x  PROVE x \in ToSet(y) <=> \E i \in 1 .. Len(y) : x = y[i]
    <3>1. DOMAIN y = 1 .. Len(y)
      OBVIOUS
    <3> QED  BY <3>1 DEF ToSet
  <2>2. SUFFICES ASSUME NEW x
                 PROVE  x \in ToSet(u) <=> x \in ToSet(q) \/ x \in ToSet(r)
    OBVIOUS
  <2>3. /\ x \in ToSet(u) <=> \E i \in 1 .. Len(u) : x = u[i]
        /\ x \in ToSet(q) <=> \E i \in 1 .. Len(q) : x = q[i]
        /\ x \in ToSet(r) <=> \E i \in 1 .. Len(r) : x = r[i]
    BY ZenonT(40), <1>1, <2>1
  <2>4. ASSUME x \in ToSet(u)  PROVE x \in ToSet(q) \/ x \in ToSet(r)
    <3>1. PICK i \in 1 .. Len(u) : x = u[i]
      BY <2>3, <2>4
    <3>2. CASE i \in 1 .. Len(q)
      BY <1>2, <3>1, <3>2
    <3>3. CASE i - Len(q) \in 1 .. Len(r) /\ i = (i - Len(q)) + Len(q)
      BY <1>2, <3>1, <3>3
    <3> QED  BY <1>3, <3>2, <3>3
  <2>5. ASSUME x \in ToSet(q)  PROVE x \in ToSet(u)
    BY <1>2, <2>3, <2>5
  <2>6. ASSUME x \in ToSet(r)  PROVE x \in ToSet(u)
    BY <1>2, <2>3, <2>6
  <2> QED  BY <2>4, <2>5, <2>6
<1>5. /\ \A i, j \in 1 .. Len(q) : q[i] = q[j] => i = j
      /\ \A i, j \in 1 .. Len(r) : r[i] = r[j] => i = j
  BY DEF IsInjective
<1>6. \A i, j \in 1 .. Len(u) : u[i] = u[j] => i = j
  <2>1. SUFFICES ASSUME NEW i \in 1 .. Len(u), NEW j \in 1 .. Len(u), u[i] = u[j]  PROVE i = j
    OBVIOUS
  <2>2. CASE i \in 1 .. Len(q) /\ j \in 1 .. Len(q)
    BY <1>2, <1>5, <2>1, <2>2
  <2>3. CASE i \notin 1 .. Len(q) /\ j \notin 1 .. Len(q)
    <3>1. /\ i - Len(q) \in 1 .. Len(r) /\ j - Len(q) \in 1 .. Len(r)
          /\ i = (i - Len(q)) + Len(q) /\ j = (j - Len(q)) + Len(q)
      BY <1>3, <2>3
    <3>2. r[i - Len(q)] = r[j - Len(q)]
      BY <1>2, <2>1, <3>1
    <3> QED  BY <1>5, <3>1, <3>2
  <2>4. CASE i \in 1 .. Len(q) /\ j \notin 1 .. Len(q)
    <3>1. u[i] \in ToSet(q) /\ u[j] \in ToSet(r)
      BY <1>2, <1>3, <2>4
    <3> QED  BY <2>1, <3>1
  <2>5. CASE i \notin 1 .. Len(q) /\ j \in 1 .. Len(q)
    <3>1. u[j] \in ToSet(q) /\ u[i] \in ToSet(r)
      BY <1>2, <1>3, <2>5
    <3> QED  BY <2>1, <3>1
  <2> QED  BY <2>2, <2>3, <2>4, <2>5
<1>7. IsInjective(u)
  BY <1>1, <1>6 DEF IsInjective
<1> QED  BY <1>1, <1>4, <1>7 DEF u

\* The first frames of the blocks that buddy_init makes.
HeadBlocks == Rising(Start, NHead)
LargeCount == (N - NHead) \div Top
LargeStart == Start + NHead
LargeBlocks == {<<Large(LargeStart, i), MaxOrder>> : i \in 1 .. LargeCount}
TailCount == (N - NHead) % Top
TailStart == LargeStart + LargeCount * Top
TailBlocks == Falling(TailStart, TailCount)
InitBlocks == HeadBlocks \cup (LargeBlocks \cup TailBlocks)

\* They are laid out as buddies that cannot be merged.
LEMMA InitLayout ==
    /\ NHead \in 1 .. Top /\ Top \in Nat /\ LargeCount \in Nat /\ TailCount \in 0 .. Top - 1
    /\ LargeStart \in Nat /\ TailStart \in Nat /\ TailStart + TailCount = Start + N
    /\ Start < LargeStart /\ LargeStart <= TailStart
    /\ Tiled(HeadBlocks, Start, LargeStart) /\ OnePerOrder(HeadBlocks)
    /\ Tiled(LargeBlocks, LargeStart, TailStart)
    /\ Tiled(TailBlocks, TailStart, Start + N) /\ OnePerOrder(TailBlocks)
    /\ Tiled(InitBlocks, Start, Start + N)
    /\ \A p \in InitBlocks :
         /\ Aligned(p[1], p[2])
         /\ p[2] < MaxOrder => <<buddy_index(p[1], p[2]), p[2]>> \notin InitBlocks
<1>1. MaxOrder \in Nat /\ MaxOrder \in Orders /\ Start \in Nat /\ N \in Nat /\ Top = Size(MaxOrder)
  BY BuddyAssumption DEF Orders, Top
<1>2. /\ MaxOrder \in Shifts /\ MaxOrder + 1 \in Shifts /\ Top \in Nat /\ Top >= 1
      /\ Size(MaxOrder + 1) = Top + Top
  BY <1>1, Sizes2
<1>3. NHead \in 1 .. Top /\ NHead <= N /\ NHead \in Nat
  <2>1. (Start % Top) \in 0 .. Top - 1
    <3>1. Start \in Int /\ Top \in Nat /\ Top >= 1
      BY <1>1, <1>2
    <3> QED  BY <3>1, Division
  <2>2. NHead = Top - (Start % Top)
    BY <1>1 DEF NHead
  <2>3. N >= Top - (Start % Top)
    BY <1>1, BuddyAssumption
  <2> QED  BY <1>1, <1>2, <2>1, <2>2, <2>3
<1>4. Aligned(LargeStart, MaxOrder) /\ LargeStart \in Nat /\ Start < LargeStart
  <2>1. /\ (Start \div Top) \in Int /\ (Start % Top) \in 0 .. Top - 1
        /\ Start = (Start \div Top) * Top + (Start % Top)
    <3>1. Start \in Int /\ Top \in Nat /\ Top >= 1
      BY <1>1, <1>2
    <3> QED  BY <3>1, Division
  <2> DEFINE d == Start \div Top
             e == d * Top
  <2>2. d \in Int /\ e \in Int /\ Start = e + (Start % Top)
    BY <1>2, <2>1
  <2>3. e = d * Size(MaxOrder)
    BY <1>1
  <2>4. Aligned(e, MaxOrder)
    BY <2>2, <2>3 DEF Aligned
  <2> HIDE DEF e, d
  <2>5. LargeStart = e + Top
    BY <1>1, <1>2, <2>1, <2>2 DEF LargeStart, NHead
  <2>6. MaxOrder <= MaxOrder
    BY <1>1
  <2>7. Aligned(Top, MaxOrder)
    BY <1>1, <1>2, <2>6, AlignedSize
  <2>8. Aligned(e + Top, MaxOrder)
    BY <1>2, <2>4, <2>7, AlignedSum
  <2>9. LargeStart \in Nat /\ Start < LargeStart
    BY <1>1, <1>3 DEF LargeStart
  <2> QED  BY <2>5, <2>8, <2>9
<1>5. /\ LargeCount \in Nat /\ TailCount \in 0 .. Top - 1
      /\ N - NHead = LargeCount * Top + TailCount
  <2>1. N - NHead \in Int /\ N - NHead >= 0
    BY <1>1, <1>3
  <2>2. /\ LargeCount \in Int /\ TailCount \in 0 .. Top - 1
        /\ N - NHead = LargeCount * Top + TailCount
    BY <1>2, <2>1, Division DEF LargeCount, TailCount
  <2>3. LargeCount >= 0
    <3>1. SUFFICES ASSUME LargeCount + 1 <= 0  PROVE FALSE
      BY <2>2
    <3>2. (LargeCount + 1) * Top <= 0
      BY <1>2, <2>2, <3>1
    <3>3. (LargeCount + 1) * Top = LargeCount * Top + Top
      BY <1>2, <2>2
    <3> DEFINE e == LargeCount * Top
    <3>4. e \in Int /\ e + Top <= 0 /\ N - NHead = e + TailCount
      BY <1>2, <2>2, <3>2, <3>3
    <3> HIDE DEF e
    <3> QED  BY <1>2, <2>1, <2>2, <3>4
  <2> QED  BY <2>2, <2>3
<1>6. /\ LargeStart + LargeCount * Top \in Nat
      /\ LargeStart <= LargeStart + LargeCount * Top
      /\ Tiled({<<Large(LargeStart, i), MaxOrder>> : i \in 1 .. LargeCount},
               LargeStart, LargeStart + LargeCount * Top)
  BY <1>4, <1>5, LargeTiled
<1>7. TailStart \in Nat /\ LargeStart <= TailStart /\ Tiled(LargeBlocks, LargeStart, TailStart)
  BY <1>6 DEF TailStart, LargeBlocks
<1>8. TailStart + TailCount = Start + N
  <2> DEFINE e == LargeCount * Top
  <2>1. e \in Int /\ N - NHead = e + TailCount /\ TailStart = (Start + NHead) + e
    BY <1>2, <1>5 DEF TailStart, LargeStart
  <2> HIDE DEF e
  <2> QED  BY <1>1, <1>2, <1>3, <1>5, <2>1
<1>9. Aligned(TailStart, MaxOrder)
  <2>1. LargeCount * Top = LargeCount * Size(MaxOrder) /\ LargeCount \in Int
    BY <1>1, <1>5
  <2>2. Aligned(LargeCount * Top, MaxOrder)
    BY <2>1 DEF Aligned
  <2> QED  BY <1>2, <1>4, <2>2, AlignedSum DEF TailStart
<1>10. Tiled(HeadBlocks, Start, LargeStart) /\ OnePerOrder(HeadBlocks)
  <2>1. Start \in Int /\ NHead < Size(MaxOrder + 1)
    BY <1>1, <1>2, <1>3
  <2>2. Tiles(HeadBlocks, Start, LargeStart)
    BY <1>3, <2>1, RisingTiles DEF HeadBlocks, LargeStart
  <2>3. LargeStart \in Int
    BY <1>4
  <2> QED  BY <1>1, <1>4, <2>1, <2>2, <2>3, TiledUp, TilesFirst
<1>11. Tiled(TailBlocks, TailStart, Start + N) /\ OnePerOrder(TailBlocks)
  <2>1. TailStart \in Int /\ TailCount < Size(MaxOrder + 1) /\ TailCount \in Nat
        /\ Start + N \in Nat /\ Start + N \in Int
    BY <1>1, <1>2, <1>5, <1>7
  <2>2. Tiles(TailBlocks, TailStart, TailStart + TailCount)
    BY <2>1, FallingTiles DEF TailBlocks
  <2>3. Tiles(TailBlocks, TailStart, Start + N)
    BY <1>8, <2>2
  <2> QED  BY <1>7, <2>1, <2>3, TiledUp, TilesFirst
<1>12. Tiled(InitBlocks, Start, Start + N)
  <2>1. Start + N \in Nat /\ TailStart <= Start + N /\ Start <= LargeStart /\ LargeStart <= Start + N
    BY <1>1, <1>4, <1>5, <1>7, <1>8
  <2>2. Tiled(LargeBlocks \cup TailBlocks, LargeStart, Start + N)
    BY <1>4, <1>7, <1>11, <2>1, TiledJoin
  <2> QED  BY <1>1, <1>4, <1>10, <2>1, <2>2, TiledJoin DEF InitBlocks
<1>13. /\ \A p \in HeadBlocks : p[1] < LargeStart /\ p[1] >= Start /\ p[1] \in Nat /\ p[2] \in Orders
       /\ \A p \in LargeBlocks : p[1] >= LargeStart /\ p[1] < TailStart /\ p[1] \in Nat
                                 /\ p[2] = MaxOrder
       /\ \A p \in TailBlocks : p[1] >= TailStart /\ p[1] \in Nat /\ p[2] \in Orders
  <2>1. ASSUME NEW P, NEW a \in Nat, NEW b \in Nat, Tiled(P, a, b), NEW p \in P
        PROVE  p[1] >= a /\ p[1] < b /\ p[1] \in Nat /\ p[2] \in Orders
    <3>1. p[1] \in Nat /\ p[2] \in Orders /\ a <= p[1] /\ p[1] + Size(p[2]) <= b
      BY <2>1 DEF Tiled
    <3>2. Size(p[2]) \in Nat /\ Size(p[2]) >= 1
      BY <3>1, Sizes2
    <3> QED  BY <3>1, <3>2
  <2>2. Start + N \in Nat
    BY <1>1
  <2>3. \A p \in LargeBlocks : p[2] = MaxOrder
    BY DEF LargeBlocks
  <2> QED  BY <1>1, <1>4, <1>7, <1>10, <1>11, <2>1, <2>2, <2>3
<1>14. ASSUME NEW p \in HeadBlocks
       PROVE  /\ Aligned(p[1], p[2])
              /\ p[2] < MaxOrder => <<buddy_index(p[1], p[2]), p[2]>> \notin InitBlocks
  <2>1. /\ p[2] \in Orders /\ p[1] \in Nat /\ Aligned(p[1], p[2])
        /\ p[2] < MaxOrder => Aligned(p[1] - Size(p[2]), p[2] + 1)
    <3>1. Aligned(Start + NHead, MaxOrder) /\ NHead <= Size(MaxOrder) /\ p \in Rising(Start, NHead)
      BY <1>1, <1>3, <1>4 DEF LargeStart, HeadBlocks
    <3> QED  BY <1>1, <1>3, <3>1, RisingOdd
  <2>2. SUFFICES ASSUME p[2] < MaxOrder, <<buddy_index(p[1], p[2]), p[2]>> \in InitBlocks
                 PROVE  FALSE
    BY <2>1
  <2> DEFINE o == p[2]
             g == p[1] - Size(o)
             b == <<g, o>>
  <2>3. /\ o \in Shifts /\ o + 1 \in Shifts /\ Size(o) \in Nat /\ Size(o) >= 1
        /\ Size(o + 1) = Size(o) + Size(o)
    BY <2>1, Sizes2
  <2>4. g \in Nat /\ Aligned(g, o + 1) /\ p[1] = g + Size(o) /\ g < p[1]
    <3>1. Aligned(g, o + 1) /\ g \in Int
      BY <2>1, <2>2, <2>3
    <3>2. g >= 0
      <4>1. SUFFICES ASSUME g < 0  PROVE FALSE
        BY <3>1
      <4>2. Aligned(0, o + 1)
        <5>1. o + 1 <= o + 1
          BY <2>1 DEF Orders
        <5> QED  BY <2>3, <5>1, AlignedSize
      <4> HIDE DEF g
      <4>3. g + Size(o + 1) <= 0
        BY <2>3, <3>1, <4>1, <4>2, AlignedGap
      <4>4. g + Size(o) = p[1]
        BY <2>1, <2>3 DEF g
      <4> QED  BY <2>1, <2>3, <3>1, <4>3, <4>4
    <3> QED  BY <2>1, <2>3, <3>1, <3>2
  <2> HIDE DEF g
  <2>5. Pair(p[1], g, o)
    BY <2>4 DEF Pair
  <2>6. buddy_index(p[1], o) = g
    BY <2>1, <2>4, <2>5, PairFacts
  <2>7. b \in InitBlocks /\ b[1] = g /\ b[2] = o
    BY <2>2, <2>6
  <2> HIDE DEF b
  <2>8. b \in HeadBlocks
    <3>1. p[1] < LargeStart /\ LargeStart <= TailStart
      BY <1>7, <1>13
    <3> QED  BY <1>4, <1>7, <1>13, <2>1, <2>4, <2>7, <3>1 DEF InitBlocks
  <2>9. b = p
    BY <1>10, <2>7, <2>8 DEF OnePerOrder
  <2> QED  BY <2>4, <2>7, <2>9
<1>15. ASSUME NEW p \in LargeBlocks
       PROVE  Aligned(p[1], p[2]) /\ ~(p[2] < MaxOrder)
  <2>1. PICK i \in 1 .. LargeCount : p = <<Large(LargeStart, i), MaxOrder>>
    BY DEF LargeBlocks
  <2>2. p[2] = MaxOrder /\ p[1] = LargeStart + (i - 1) * Top
    BY <2>1 DEF Large
  <2>3. Aligned((i - 1) * Top, MaxOrder)
    <3>1. (i - 1) * Top = (i - 1) * Size(MaxOrder) /\ i - 1 \in Int
      BY <1>1
    <3> QED  BY <3>1 DEF Aligned
  <2>4. Aligned(LargeStart + (i - 1) * Top, MaxOrder)
    BY <1>2, <1>4, <2>3, AlignedSum
  <2> QED  BY <1>1, <2>2, <2>4
<1>16. ASSUME NEW p \in TailBlocks
       PROVE  /\ Aligned(p[1], p[2])
              /\ p[2] < MaxOrder => <<buddy_index(p[1], p[2]), p[2]>> \notin InitBlocks
  <2>1. /\ p[2] \in Orders /\ p[1] \in Nat /\ Aligned(p[1], p[2]) /\ p[2] < MaxOrder
        /\ Aligned(p[1], p[2] + 1)
    <3>1. /\ TailCount \in Nat /\ TailCount <= Size(MaxOrder) /\ TailCount < Size(MaxOrder)
          /\ p \in Falling(TailStart, TailCount)
      BY <1>1, <1>2, <1>5 DEF TailBlocks
    <3>2. /\ p[2] \in Orders /\ p[1] \in Nat /\ Aligned(p[1], p[2]) /\ p[2] < MaxOrder
          /\ p[2] < MaxOrder => Aligned(p[1], p[2] + 1)
      BY <1>1, <1>7, <1>9, <3>1, FallingEven
    <3> QED  BY <3>2
  <2>2. SUFFICES ASSUME <<buddy_index(p[1], p[2]), p[2]>> \in InitBlocks  PROVE FALSE
    BY <2>1
  <2> DEFINE o == p[2]
             g == p[1] + Size(o)
             b == <<g, o>>
  <2>3. Size(o) \in Nat /\ Size(o) >= 1
    BY <2>1, Sizes2
  <2>4. g \in Nat /\ g = p[1] + Size(o) /\ p[1] < g
    BY <2>1, <2>3
  <2> HIDE DEF g
  <2>5. Pair(p[1], g, o)
    BY <2>1, <2>4 DEF Pair
  <2>6. buddy_index(p[1], o) = g
    BY <2>1, <2>4, <2>5, PairFacts
  <2>7. b \in InitBlocks /\ b[1] = g /\ b[2] = o
    BY <2>2, <2>6
  <2> HIDE DEF b
  <2>8. b \in TailBlocks
    <3>1. TailStart <= p[1]
      BY <1>13
    <3> QED  BY <1>4, <1>7, <1>13, <2>1, <2>4, <2>7, <3>1 DEF InitBlocks
  <2>9. b = p
    BY <1>11, <2>7, <2>8 DEF OnePerOrder
  <2> QED  BY <2>4, <2>7, <2>9
<1>17. \A p \in InitBlocks :
         /\ Aligned(p[1], p[2])
         /\ p[2] < MaxOrder => <<buddy_index(p[1], p[2]), p[2]>> \notin InitBlocks
  BY <1>14, <1>15, <1>16 DEF InitBlocks
<1> QED  BY <1>2, <1>3, <1>4, <1>5, <1>7, <1>8, <1>10, <1>11, <1>12, <1>17

LargeList == [i \in 1 .. LargeCount |-> Large(LargeStart, i)]

InitLists ==
    LET lists == AddTail([o \in Orders |-> <<>>], HeadBlocks)
    IN AddTail([lists EXCEPT ![MaxOrder] = @ \o LargeList], TailBlocks)

\* Each block is on the list of its order.
LEMMA InitListed ==
    /\ InitLists \in [Orders -> Seq(Managed)]
    /\ \A o \in Orders : IsInjective(InitLists[o])
    /\ \A o \in Orders : \A x : x \in ToSet(InitLists[o]) <=> <<x, o>> \in InitBlocks
<1> DEFINE L0 == [o \in Orders |-> <<>>]
           L1 == AddTail(L0, HeadBlocks)
           L2 == [L1 EXCEPT ![MaxOrder] = @ \o LargeList]
           L3 == AddTail(L2, TailBlocks)
<1>1. /\ LargeCount \in Nat /\ LargeStart \in Nat /\ TailStart \in Nat
      /\ Start < LargeStart /\ LargeStart <= TailStart /\ TailStart + TailCount = Start + N
      /\ TailCount \in Nat /\ Top \in Nat
      /\ OnePerOrder(HeadBlocks) /\ OnePerOrder(TailBlocks)
      /\ Start \in Nat /\ N \in Nat /\ MaxOrder \in Orders
  BY InitLayout, BuddyAssumption DEF Orders
<1>2. /\ \A p \in HeadBlocks : /\ p[1] \in Nat /\ p[1] >= Start /\ p[1] < LargeStart
                               /\ p[2] \in Orders /\ p = <<p[1], p[2]>>
      /\ \A p \in LargeBlocks : /\ p[1] \in Nat /\ p[1] >= LargeStart /\ p[1] < TailStart
                                /\ p[2] \in Orders /\ p = <<p[1], p[2]>>
      /\ \A p \in TailBlocks : /\ p[1] \in Nat /\ p[1] >= TailStart /\ p[1] < Start + N
                               /\ p[2] \in Orders /\ p = <<p[1], p[2]>>
  <2>1. ASSUME NEW P, NEW a \in Nat, NEW b \in Nat, Tiled(P, a, b), NEW p \in P
        PROVE  p[1] \in Nat /\ p[1] >= a /\ p[1] < b /\ p[2] \in Orders /\ p = <<p[1], p[2]>>
    <3>1. /\ p[1] \in Nat /\ p[2] \in Orders /\ a <= p[1] /\ p[1] + Size(p[2]) <= b
          /\ p = <<p[1], p[2]>>
      BY <2>1 DEF Tiled
    <3>2. Size(p[2]) \in Nat /\ Size(p[2]) >= 1
      BY <3>1, Sizes2
    <3> QED  BY <3>1, <3>2
  <2>2. Start + N \in Nat
    BY <1>1
  <2>3. /\ Tiled(HeadBlocks, Start, LargeStart)
        /\ Tiled(LargeBlocks, LargeStart, TailStart)
        /\ Tiled(TailBlocks, TailStart, Start + N)
    BY InitLayout
  <2> QED  BY <1>1, <2>1, <2>2, <2>3
<1>3. \A x \in Nat : Start <= x /\ x < Start + N => x \in Managed
  BY <1>1 DEF Managed
<1>4. /\ HeadBlocks \in SUBSET (Managed \X Orders)
      /\ TailBlocks \in SUBSET (Managed \X Orders)
      /\ \A p \in LargeBlocks : p[1] \in Managed
  <2>1. LargeStart <= Start + N /\ TailStart <= Start + N
    BY <1>1
  <2> QED  BY <1>1, <1>2, <1>3, <2>1
    \* The head.
<1>5. L0 \in [Orders -> Seq(Managed)] /\ \A o \in Orders : L0[o] = <<>>
  OBVIOUS
<1> HIDE DEF L0
<1>6. /\ L1 \in [Orders -> Seq(Managed)]
      /\ \A o \in Orders : IsInjective(L1[o])
      /\ \A o \in Orders : \A x : x \in ToSet(L1[o]) <=> <<x, o>> \in HeadBlocks
  <2>1. ToSet(<<>>) = {} /\ IsInjective(<<>>)
    BY DEF ToSet, IsInjective
  <2>2. \A o \in Orders : IsInjective(L0[o]) /\ ToSet(L0[o]) = {}
    BY <1>5, <2>1
  <2>3. \A p \in HeadBlocks : p[1] \notin ToSet(L0[p[2]])
    BY <1>2, <2>2
  <2>4. /\ AddTail(L0, HeadBlocks) \in [Orders -> Seq(Managed)]
        /\ \A o \in Orders : IsInjective(AddTail(L0, HeadBlocks)[o])
        /\ \A o \in Orders : \A x :
             x \in ToSet(AddTail(L0, HeadBlocks)[o]) <=> x \in ToSet(L0[o]) \/ <<x, o>> \in HeadBlocks
    BY <1>1, <1>4, <1>5, <2>2, <2>3, AddTailList
  <2> QED  BY <2>2, <2>4
<1> HIDE DEF L1
    \* The largest blocks.
<1>7. /\ LargeList \in Seq(Managed) /\ IsInjective(LargeList)
      /\ \A x : x \in ToSet(LargeList) <=> <<x, MaxOrder>> \in LargeBlocks
  <2>1. \A i \in 1 .. LargeCount : <<Large(LargeStart, i), MaxOrder>> \in LargeBlocks
    BY DEF LargeBlocks
  <2>2. ASSUME NEW i \in 1 .. LargeCount  PROVE LargeList[i] \in Managed
    <3>1. PICK p : p = <<Large(LargeStart, i), MaxOrder>>
      OBVIOUS
    <3>2. p \in LargeBlocks /\ p[1] = Large(LargeStart, i)
      BY <2>1, <3>1
    <3> QED  BY <1>4, <3>2 DEF LargeList
  <2>3. DOMAIN LargeList = 1 .. LargeCount
    BY DEF LargeList
  <2>4. LargeList \in [1 .. LargeCount -> Managed]
    BY <2>2 DEF LargeList
  <2>5. LargeList \in Seq(Managed)
    BY <1>1, <2>4
  <2>6. \A i, j \in 1 .. LargeCount : Large(LargeStart, i) = Large(LargeStart, j) => i = j
    BY <1>1, LargeTiled
  <2>7. IsInjective(LargeList)
    <3>1. \A i, j \in DOMAIN LargeList : LargeList[i] = LargeList[j] => i = j
      BY <2>6 DEF LargeList
    <3> QED  BY <3>1 DEF IsInjective
  <2>8. \A x : x \in ToSet(LargeList) <=> \E i \in 1 .. LargeCount : x = Large(LargeStart, i)
    <3>1. \A x : x \in ToSet(LargeList) <=> \E i \in 1 .. LargeCount : x = LargeList[i]
      BY <2>3 DEF ToSet
    <3> QED  BY <3>1 DEF LargeList
  <2>9. \A x : <<x, MaxOrder>> \in LargeBlocks <=> \E i \in 1 .. LargeCount : x = Large(LargeStart, i)
    BY DEF LargeBlocks
  <2> QED  BY <2>5, <2>7, <2>8, <2>9
<1>8. /\ L2 \in [Orders -> Seq(Managed)]
      /\ \A o \in Orders : IsInjective(L2[o])
      /\ \A o \in Orders : \A x : x \in ToSet(L2[o]) <=>
           <<x, o>> \in HeadBlocks \/ <<x, o>> \in LargeBlocks
  <2>1. \A x, o : <<x, o>> \in LargeBlocks => o = MaxOrder
    BY DEF LargeBlocks
  <2>2. ToSet(L1[MaxOrder]) \cap ToSet(LargeList) = {}
    <3>1. SUFFICES ASSUME NEW x, x \in ToSet(L1[MaxOrder]), x \in ToSet(LargeList)  PROVE FALSE
      OBVIOUS
    <3>2. PICK p : p = <<x, MaxOrder>>
      OBVIOUS
    <3>3. p \in HeadBlocks /\ p \in LargeBlocks
      BY <1>1, <1>6, <1>7, <3>1, <3>2
    <3> QED  BY <1>1, <1>2, <3>3
  <2>3. L1[MaxOrder] \in Seq(Managed) /\ IsInjective(L1[MaxOrder])
    BY <1>1, <1>6
  <2>4. /\ L1[MaxOrder] \o LargeList \in Seq(Managed) /\ IsInjective(L1[MaxOrder] \o LargeList)
        /\ \A x : x \in ToSet(L1[MaxOrder] \o LargeList) <=>
             x \in ToSet(L1[MaxOrder]) \/ x \in ToSet(LargeList)
    BY <1>7, <2>2, <2>3, ConcatList
  <2>5. \A o \in Orders : L2[o] = IF o = MaxOrder THEN L1[MaxOrder] \o LargeList ELSE L1[o]
    BY <1>6
  <2>6. L2 = [o \in Orders |-> L2[o]]
    BY <1>6
  <2> HIDE DEF L2
  <2>7. ASSUME NEW o \in Orders
        PROVE  /\ L2[o] \in Seq(Managed) /\ IsInjective(L2[o])
               /\ \A x : x \in ToSet(L2[o]) <=> <<x, o>> \in HeadBlocks \/ <<x, o>> \in LargeBlocks
    <3>1. CASE o = MaxOrder
      BY <1>1, <1>6, <1>7, <2>4, <2>5, <3>1
    <3>2. CASE o # MaxOrder
      BY <1>6, <2>1, <2>5, <3>2
    <3> QED  BY <3>1, <3>2
  <2> QED  BY <2>6, <2>7
<1> HIDE DEF L2
    \* The tail.
<1>9. \A p \in TailBlocks : p[1] \notin ToSet(L2[p[2]])
  <2>1. SUFFICES ASSUME NEW p \in TailBlocks, p[1] \in ToSet(L2[p[2]])  PROVE FALSE
    OBVIOUS
  <2>2. p \in HeadBlocks \/ p \in LargeBlocks
    BY <1>2, <1>8, <2>1
  <2> QED  BY <1>1, <1>2, <2>2
<1>10. /\ AddTail(L2, TailBlocks) \in [Orders -> Seq(Managed)]
       /\ \A o \in Orders : IsInjective(AddTail(L2, TailBlocks)[o])
       /\ \A o \in Orders : \A x :
            x \in ToSet(AddTail(L2, TailBlocks)[o]) <=> x \in ToSet(L2[o]) \/ <<x, o>> \in TailBlocks
  BY <1>1, <1>4, <1>8, <1>9, AddTailList
<1>11. InitLists = AddTail(L2, TailBlocks)
  BY DEF InitLists, L2, L1, L0
<1>12. \A o \in Orders : \A x : x \in ToSet(InitLists[o]) <=> <<x, o>> \in InitBlocks
  BY <1>8, <1>10, <1>11 DEF InitBlocks
<1> QED  BY <1>10, <1>11, <1>12

\* What the definition of Init comes to.
LEMMA InitIs ==
    ASSUME Init
    PROVE  /\ dir = InitLists
           /\ order = [f \in Frames |-> IF f \in First(InitBlocks)
                                        THEN (CHOOSE b \in InitBlocks : b[1] = f)[2] ELSE NoOrder]
           /\ free = Managed
           /\ held = [t \in Threads |-> {}]
           /\ call = [t \in Threads |-> Idle]
<1> DEFINE large == [i \in 1 .. (N - NHead) \div Top |-> Start + NHead + (i - 1) * Top]
           rest == (N - NHead) % Top
           tail == Falling(Start + N - rest, rest)
           big == {<<large[i], MaxOrder>> : i \in DOMAIN large}
           blocks == HeadBlocks \cup tail \cup big
           lists == AddTail([o \in Orders |-> <<>>], HeadBlocks)
<1>1. /\ dir = AddTail([lists EXCEPT ![MaxOrder] = @ \o large], tail)
      /\ order = [f \in Frames |-> IF f \in First(blocks)
                                   THEN (CHOOSE b \in blocks : b[1] = f)[2] ELSE NoOrder]
      /\ free = Managed
      /\ held = [t \in Threads |-> {}]
      /\ call = [t \in Threads |-> Idle]
  BY DEF Init, HeadBlocks
<1>2. large = LargeList
  BY DEF LargeList, Large, LargeStart, LargeCount
<1>3. rest = TailCount
  BY DEF TailCount
<1>4. tail = TailBlocks
  <2>1. TailStart \in Nat /\ TailCount \in Nat /\ TailStart + TailCount = Start + N
        /\ Start \in Nat /\ N \in Nat
    <3>1. Top \in Nat /\ TailCount \in 0 .. Top - 1
      BY InitLayout
    <3>2. TailCount \in Nat
      BY <3>1
    <3> QED  BY <3>2, InitLayout, BuddyAssumption
  <2>2. Start + N - TailCount = TailStart
    BY <2>1
  <2> HIDE DEF rest
  <2> QED  BY <1>3, <2>2 DEF TailBlocks
<1>5. big = LargeBlocks
  <2>1. DOMAIN LargeList = 1 .. LargeCount /\ \A i \in 1 .. LargeCount : LargeList[i] = Large(LargeStart, i)
    BY DEF LargeList
  <2> HIDE DEF large
  <2> QED  BY <1>2, <2>1 DEF LargeBlocks
<1> HIDE DEF tail, big, large, rest
<1>6. blocks = InitBlocks
  BY <1>4, <1>5 DEF InitBlocks
<1>7. AddTail([lists EXCEPT ![MaxOrder] = @ \o large], tail) = InitLists
  BY <1>2, <1>4 DEF InitLists
<1> HIDE DEF blocks, lists
<1> QED  BY <1>1, <1>6, <1>7

\* buddy_init establishes the invariant.
LEMMA InitKeeps ==
    ASSUME Init
    PROVE  BInv
<1>1. /\ dir = InitLists
      /\ order = [f \in Frames |-> IF f \in First(InitBlocks)
                                   THEN (CHOOSE b \in InitBlocks : b[1] = f)[2] ELSE NoOrder]
      /\ free = Managed /\ held = [t \in Threads |-> {}] /\ call = [t \in Threads |-> Idle]
  BY InitIs
<1>2. /\ \A p \in InitBlocks : /\ p[1] \in Nat /\ p[2] \in Orders /\ p = <<p[1], p[2]>>
                               /\ Start <= p[1] /\ p[1] + Size(p[2]) <= Start + N
      /\ \A p, q \in InitBlocks : p # q => Cells(p[1], p[2]) \cap Cells(q[1], q[2]) = {}
      /\ \A x \in Start .. Start + N - 1 : \E p \in InitBlocks : x \in Cells(p[1], p[2])
      /\ \A p \in InitBlocks :
           /\ Aligned(p[1], p[2])
           /\ p[2] < MaxOrder => <<buddy_index(p[1], p[2]), p[2]>> \notin InitBlocks
  <2>1. Tiled(InitBlocks, Start, Start + N)
    BY InitLayout
  <2>2. Start \in Nat /\ N \in Nat /\ Start + N - 1 = (Start + N) - 1
    BY BuddyAssumption
  <2>3. \A x \in Start .. Start + N - 1 : \E p \in InitBlocks : x \in Cells(p[1], p[2])
    BY <2>1, <2>2 DEF Tiled
  <2>4. \A p \in InitBlocks :
          /\ Aligned(p[1], p[2])
          /\ p[2] < MaxOrder => <<buddy_index(p[1], p[2]), p[2]>> \notin InitBlocks
    BY InitLayout
  <2> QED  BY <2>1, <2>3, <2>4 DEF Tiled
<1>3. /\ dir \in [Orders -> Seq(Managed)]
      /\ \A o \in Orders : IsInjective(dir[o])
      /\ \A o \in Orders : \A x : x \in ToSet(dir[o]) <=> <<x, o>> \in InitBlocks
  BY <1>1, InitListed
<1>4. Managed \subseteq Frames /\ Managed \subseteq Nat /\ NoOrder \notin Orders /\ N \in Nat
  BY BuddyAssumption DEF Managed, Frames, NoOrder, Orders
<1>5. \A p \in InitBlocks : p[1] \in Managed /\ p[1] \in Cells(p[1], p[2])
                            /\ Cells(p[1], p[2]) \subseteq Managed
  <2>1. SUFFICES ASSUME NEW p \in InitBlocks
                 PROVE  p[1] \in Cells(p[1], p[2]) /\ Cells(p[1], p[2]) \subseteq Managed
    OBVIOUS
  <2>2. p[1] \in Nat /\ p[2] \in Orders /\ Start <= p[1] /\ p[1] + Size(p[2]) <= Start + N
    BY <1>2
  <2>3. Size(p[2]) \in Nat /\ Size(p[2]) >= 1 /\ Start \in Nat /\ N \in Nat
    BY <2>2, Sizes2, BuddyAssumption
  <2> QED  BY <2>2, <2>3 DEF Cells, Managed
<1>6. \A p, q \in InitBlocks : p[1] = q[1] => p = q
  <2>1. SUFFICES ASSUME NEW p \in InitBlocks, NEW q \in InitBlocks, p[1] = q[1], p # q  PROVE FALSE
    OBVIOUS
  <2>2. p[1] \in Cells(p[1], p[2]) /\ q[1] \in Cells(q[1], q[2])
    BY <1>5
  <2>3. Cells(p[1], p[2]) \cap Cells(q[1], q[2]) = {}
    BY <1>2, <2>1
  <2> QED  BY <2>1, <2>2, <2>3
<1>7. \A x \in Frames : /\ \A p \in InitBlocks : p[1] = x => order[x] = p[2]
                        /\ x \notin First(InitBlocks) => order[x] = NoOrder
  <2>1. SUFFICES ASSUME NEW x \in Frames
                 PROVE  /\ \A p \in InitBlocks : p[1] = x => order[x] = p[2]
                        /\ x \notin First(InitBlocks) => order[x] = NoOrder
    OBVIOUS
  <2>2. order[x] = IF x \in First(InitBlocks)
                   THEN (CHOOSE b \in InitBlocks : b[1] = x)[2] ELSE NoOrder
    BY <1>1
  <2>3. ASSUME NEW p \in InitBlocks, p[1] = x  PROVE order[x] = p[2]
    <3>1. x \in First(InitBlocks)
      BY <2>3 DEF First
    <3>2. (CHOOSE b \in InitBlocks : b[1] = x) = p
      BY <1>6, <2>3
    <3> QED  BY <2>2, <3>1, <3>2
  <2> QED  BY <2>2, <2>3
<1>8. order \in [Frames -> Orders \cup {NoOrder}]
  <2>1. ASSUME NEW x \in Frames  PROVE order[x] \in Orders \cup {NoOrder}
    <3>1. CASE x \in First(InitBlocks)
      <4>1. PICK p \in InitBlocks : p[1] = x
        BY <3>1 DEF First
      <4> QED  BY <1>2, <1>7, <4>1
    <3>2. CASE x \notin First(InitBlocks)
      BY <1>7, <3>2
    <3> QED  BY <3>1, <3>2
  <2>2. order = [x \in Frames |-> order[x]]
    BY <1>1
  <2> QED  BY <2>1, <2>2
<1>9. TypeOK
  <2>1. call \in [Threads -> CallType]
    BY <1>1, <1>4 DEF Idle, CallType
  <2> QED  BY <1>1, <1>3, <1>8, <2>1 DEF TypeOK, CallType
<1>10. FlagsExact
  <2>1. SUFFICES ASSUME NEW f \in Frames, NEW o \in Orders
                 PROVE  f \in ToSet(dir[o]) <=> f \in free /\ order[f] = o
    BY DEF FlagsExact
  <2>2. ASSUME f \in ToSet(dir[o])  PROVE f \in free /\ order[f] = o
    <3>1. PICK p : p = <<f, o>>
      OBVIOUS
    <3>2. p \in InitBlocks /\ p[1] = f /\ p[2] = o
      BY <1>3, <2>2, <3>1
    <3> QED  BY <1>1, <1>5, <1>7, <3>2
  <2>3. ASSUME f \in free, order[f] = o  PROVE f \in ToSet(dir[o])
    <3>1. f \in First(InitBlocks)
      BY <1>4, <1>7, <2>3
    <3>2. PICK p \in InitBlocks : p[1] = f
      BY <3>1 DEF First
    <3>3. p[2] = o /\ p = <<p[1], p[2]>>
      BY <1>2, <1>7, <2>3, <3>2
    <3> QED  BY <1>3, <3>2, <3>3
  <2> QED  BY <2>2, <2>3
<1>11. Merged
  <2>1. SUFFICES ASSUME NEW o \in Orders, NEW f \in ToSet(dir[o])
                 PROVE  /\ Aligned(f, o)
                        /\ o < MaxOrder => buddy_index(f, o) \notin ToSet(dir[o])
    BY DEF Merged
  <2>2. PICK p : p = <<f, o>>
    OBVIOUS
  <2>3. p \in InitBlocks /\ p[1] = f /\ p[2] = o
    BY <1>3, <2>2
  <2>4. Aligned(f, o) /\ (o < MaxOrder => <<buddy_index(f, o), o>> \notin InitBlocks)
    BY <1>2, <2>3
  <2> QED  BY <1>3, <2>4
<1>12. \A t \in Threads : InHand(t) = {} /\ held[t] = {} /\ call[t] = Idle
  BY <1>1 DEF InHand, Idle
<1>13. \A r : r \in Regions <=> \E p \in InitBlocks : r = FR(p[1], p[2])
  <2>1. \A r : r \in Regions <=> \E o \in Orders : \E f \in ToSet(dir[o]) : r = FR(f, o)
    BY <1>12, RegionIs DEF InRegions, FR
  <2>2. ASSUME NEW r, r \in Regions  PROVE \E p \in InitBlocks : r = FR(p[1], p[2])
    <3>1. PICK o \in Orders : \E f \in ToSet(dir[o]) : r = FR(f, o)
      BY <2>1, <2>2
    <3>2. PICK f \in ToSet(dir[o]) : r = FR(f, o)
      BY <3>1
    <3>3. PICK p : p = <<f, o>>
      OBVIOUS
    <3>4. p \in InitBlocks /\ p[1] = f /\ p[2] = o
      BY <1>3, <3>1, <3>2, <3>3
    <3> QED  BY <3>2, <3>4
  <2>3. ASSUME NEW p \in InitBlocks  PROVE FR(p[1], p[2]) \in Regions
    <3>1. p[2] \in Orders /\ p[1] \in ToSet(dir[p[2]])
      BY <1>2, <1>3
    <3> QED  BY <2>1, <3>1
  <2> QED  BY <2>2, <2>3
<1>14. \A p \in InitBlocks : /\ RangeOf(FR(p[1], p[2])[2]) = Cells(p[1], p[2])
                             /\ FR(p[1], p[2])[2] \in Nat \X (Nat \ {0})
  BY <1>2, FRIs
<1>15. Apart(Regions)
  <2>1. SUFFICES ASSUME NEW r \in Regions, NEW s \in Regions, r # s
                 PROVE  RangeOf(r[2]) \cap RangeOf(s[2]) = {}
    BY DEF Apart
  <2>2. PICK p \in InitBlocks : r = FR(p[1], p[2])
    BY <1>13
  <2>3. PICK q \in InitBlocks : s = FR(q[1], q[2])
    BY <1>13
  <2>4. p # q
    BY <2>1, <2>2, <2>3
  <2>5. Cells(p[1], p[2]) \cap Cells(q[1], q[2]) = {}
    BY <1>2, <2>4
  <2>6. RangeOf(r[2]) = Cells(p[1], p[2]) /\ RangeOf(s[2]) = Cells(q[1], q[2])
    BY <1>14, <2>2, <2>3
  <2> QED  BY <2>5, <2>6
<1>16. Covers(Regions)
  <2>1. ASSUME NEW r \in Regions
        PROVE  r[2] \in Nat \X (Nat \ {0}) /\ RangeOf(r[2]) \subseteq Managed
    <3>1. PICK p \in InitBlocks : r = FR(p[1], p[2])
      BY <1>13
    <3> QED  BY <1>5, <1>14, <3>1
  <2>2. ASSUME NEW x \in Managed  PROVE \E r \in Regions : x \in RangeOf(r[2])
    <3>1. x \in Start .. Start + N - 1
      BY DEF Managed
    <3>2. PICK p \in InitBlocks : x \in Cells(p[1], p[2])
      BY <1>2, <3>1
    <3>3. FR(p[1], p[2]) \in Regions
      BY <1>13
    <3> QED  BY <1>14, <3>2, <3>3
  <2> QED  BY <2>1, <2>2 DEF Covers
<1>17. \A t \in Threads : Called(call[t]) /\ \A b \in held[t] : Holds(b)
  <2>1. Called(Idle)
    BY DEF Called, Idle
  <2> QED  BY <1>12, <2>1
<1> QED  BY <1>3, <1>9, <1>10, <1>11, <1>15, <1>16, <1>17 DEF BInv

-----------------------------------------------------------------------------
(* The theorems.                                                            *)

\* A step that changes nothing.
LEMMA Stutter ==
    ASSUME BInv, UNCHANGED vars
    PROVE  BInv'
<1>1. dir' = dir /\ order' = order /\ free' = free /\ held' = held /\ call' = call
  BY DEF vars
<1>2. Regions' = Regions
  BY <1>1 DEF Regions, FreeBlocks, InHand
<1>3. Apart(Regions)' /\ Covers(Regions)'
  BY <1>2 DEF BInv, Apart, Covers
<1>4. TypeOK' /\ FlagsExact' /\ Merged' /\ \A o \in Orders : IsInjective(dir'[o])
  BY <1>1 DEF BInv, TypeOK, FlagsExact, Merged
<1>5. (\A t \in Threads : Called(call[t]) /\ \A b \in held[t] : Holds(b))'
  BY <1>1 DEF BInv, Called, Holds, Marked
<1> QED  BY <1>3, <1>4, <1>5 DEF BInv

\* Every step keeps the invariant.
LEMMA StepKeeps ==
    ASSUME BInv, [Next]_vars
    PROVE  BInv'
<1>1. CASE UNCHANGED vars
  BY <1>1, Stutter
<1>2. CASE Next
  <2>1. PICK t \in Threads :
          \/ \E n \in Sizes : Alloc(t, n) \/ AllocFails(t, n)
          \/ Mark(t) \/ Rest(t) \/ Free(t) \/ FreePiece(t)
    BY <1>2 DEF Next
  <2>2. CASE \E n \in Sizes : Alloc(t, n)
    BY <2>2, AllocKeeps
  <2>3. CASE \E n \in Sizes : AllocFails(t, n)
    BY <2>3, Stutter DEF AllocFails
  <2>4. CASE Mark(t)
    BY <2>4, MarkKeeps
  <2>5. CASE Rest(t)
    BY <2>5, RestKeeps
  <2>6. CASE Free(t)
    BY <2>6, FreeKeeps
  <2>7. CASE FreePiece(t)
    BY <2>7, FreePieceKeeps
  <2> QED  BY <2>1, <2>2, <2>3, <2>4, <2>5, <2>6, <2>7
<1> QED  BY <1>1, <1>2

\* The inductive invariant: the lists, the flags, the blocks and the frames
\* that threads have always agree, and no two free buddies are left unmerged.
THEOREM BuddyInvariant == Spec => []BInv
<1>1. Init => BInv
  BY InitKeeps
<1>2. BInv /\ [Next]_vars => BInv'
  BY StepKeeps
<1> QED  BY <1>1, <1>2, PTL DEF Spec

\* The lists, the flags and the allocations stay within the managed frames.
THEOREM TypesCorrect == Spec => []TypeOK
<1>1. BInv => TypeOK
  BY DEF BInv
<1> QED  BY <1>1, BuddyInvariant, PTL

\* FREE and an order in a frame mean that the frame starts a block of that
\* order on the list of that order, whoever wrote them and whenever: what
\* __buddy_free relies on when it merges.
THEOREM FlagsCorrect == Spec => []FlagsExact
<1>1. BInv => FlagsExact
  BY DEF BInv
<1> QED  BY <1>1, BuddyInvariant, PTL

\* Every frame is in exactly one free block, allocation, or pair of hands.
LEMMA TilingHolds ==
    ASSUME BInv
    PROVE  Tiling
<1>1. ASSUME NEW f \in Managed  PROVE Cardinality({r \in Regions : f \in RangeOf(r[2])}) = 1
  <2>1. PICK r \in Regions : f \in RangeOf(r[2])
    BY DEF BInv, Covers
  <2>2. \A q \in Regions : f \in RangeOf(q[2]) => q = r
    BY <2>1 DEF BInv, Apart
  <2>3. {q \in Regions : f \in RangeOf(q[2])} = {r}
    BY <2>1, <2>2
  <2>4. Cardinality({r}) = 1
    BY FS_Singleton
  <2> QED  BY <2>3, <2>4
<1>2. ASSUME NEW o \in Orders, NEW f \in ToSet(dir[o])  PROVE (f % Size(o)) = 0
  <2>1. Aligned(f, o) /\ f \in Nat
    BY FreeBlock
  <2>2. f \in Int /\ o \in Shifts
    BY <2>1, Sizes2
  <2> QED  BY <2>1, <2>2, BaseOf
<1>3. \A o \in Orders : IsInjective(dir[o])
  BY DEF BInv
<1> QED  BY <1>1, <1>2, <1>3 DEF Tiling

\* Nothing is handed out twice and nothing is lost, for any sizes, any number
\* of threads, and any order in which they allocate and free.
THEOREM TilingCorrect == Spec => []Tiling
<1>1. BInv => Tiling
  BY TilingHolds
<1> QED  BY <1>1, BuddyInvariant, PTL

\* A free block inside a run of free frames that is longer has a buddy that
\* is in pieces: the smallest free block of the run cannot have one.
LEMMA NoFreeRun ==
    ASSUME BInv
    PROVE  FailsOnlyWhenFull
<1> DEFINE freeFrames == UNION {RangeOf(b) : b \in FreeBlocks}
<1>1. \A x \in freeFrames : \E o \in Orders : \E g \in ToSet(dir[o]) : x \in Cells(g, o)
  <2>1. SUFFICES ASSUME NEW x \in freeFrames
                 PROVE  \E o \in Orders : \E g \in ToSet(dir[o]) : x \in Cells(g, o)
    OBVIOUS
  <2>2. PICK b \in FreeBlocks : x \in RangeOf(b)
    OBVIOUS
  <2>3. PICK o \in Orders : b \in {<<g, Size(o)>> : g \in ToSet(dir[o])}
    BY DEF FreeBlocks
  <2>4. PICK g \in ToSet(dir[o]) : b = <<g, Size(o)>>
    BY <2>3
  <2>5. x \in Cells(g, o)
    BY <2>2, <2>4 DEF RangeOf, Cells
  <2> QED  BY <2>5
<1> HIDE DEF freeFrames
<1>2. ASSUME NEW k \in Orders, Avail(k) = {}, NEW f \in Managed, (f % Size(k)) = 0,
             f .. f + Size(k) - 1 \subseteq freeFrames
      PROVE  FALSE
  <2>1. /\ f \in Nat /\ f \in Int /\ k \in Shifts /\ k \in Nat /\ MaxOrder \in Nat /\ k <= MaxOrder
        /\ Size(k) \in Nat /\ Size(k) >= 1
    BY Sizes2, BuddyAssumption DEF Managed, Orders
  <2>2. Aligned(f, k)
    BY <1>2, <2>1, BaseOf
  <2>3. \A o \in Orders : dir[o] # <<>> => o < k
    BY <1>2, <2>1 DEF Avail, Orders
  <2>4. \A x \in Cells(f, k) : \E o \in Orders : \E g \in ToSet(dir[o]) : x \in Cells(g, o)
    BY <1>1, <1>2 DEF Cells
  <2> DEFINE Meets(o) == \E g \in ToSet(dir[o]) : Cells(g, o) \cap Cells(f, k) # {}
             T == {o \in Orders : Meets(o)}
  <2>5. T \in SUBSET Nat
    BY BuddyAssumption DEF Orders
  <2>6. T # {}
    <3>1. f \in Cells(f, k)
      BY <2>1 DEF Cells
    <3>2. PICK o \in Orders : \E g \in ToSet(dir[o]) : f \in Cells(g, o)
      BY <2>4, <3>1
    <3>3. Meets(o)
      BY <3>1, <3>2
    <3> QED  BY <3>3
  <2>7. PICK o \in T : \A p \in T : o <= p
    <3> HIDE DEF T
    <3> QED  BY <2>5, <2>6, LeastIn
  <2>8. PICK g \in ToSet(dir[o]) : Cells(g, o) \cap Cells(f, k) # {}
    BY <2>7
  <2>9. /\ o \in Orders /\ o \in Nat /\ o < k /\ o + 1 <= k /\ o < MaxOrder
        /\ o \in Shifts /\ o + 1 \in Shifts /\ g \in Nat /\ Aligned(g, o)
    <3>1. o \in Orders /\ dir[o] \in Seq(Managed)
      BY <2>7 DEF BInv, TypeOK
    <3>2. dir[o] # <<>>
      BY <2>8, <3>1, EmptyList
    <3>3. o < k /\ o \in Nat
      BY <2>3, <3>1, <3>2 DEF Orders
    <3> QED  BY <2>1, <2>8, <3>1, <3>3, FreeBlock, Sizes2
  <2> DEFINE h == buddy_index(g, o)
             w == Base(g, o + 1)
  <2>10. /\ h \in Nat /\ Pair(g, h, o) /\ g # h /\ Aligned(h, o)
         /\ Cells(w, o + 1) = Cells(g, o) \cup Cells(h, o)
    <3>1. h \in Nat /\ Pair(g, h, o)
      BY <2>9, BuddyOf
    <3> QED  BY <2>9, <3>1, PairFacts
  <2>11. Aligned(w, o + 1)
    <3>1. g \in Int
      BY <2>9
    <3> QED  BY <2>9, <3>1, BaseOf
  <2> HIDE DEF h, w
  <2>12. g \in Cells(g, o) /\ h \in Cells(h, o)
    BY <2>9, <2>10, FRIs
  <2>13. Cells(w, o + 1) \subseteq Cells(f, k)
    BY <2>1, <2>2, <2>8, <2>9, <2>10, <2>11, Nested
  <2>14. PICK p \in Orders : \E e \in ToSet(dir[p]) : h \in Cells(e, p)
    BY <2>4, <2>10, <2>12, <2>13
  <2>15. PICK e \in ToSet(dir[p]) : h \in Cells(e, p)
    BY <2>14
  <2>16. o <= p /\ p \in Nat /\ p \in Shifts /\ Aligned(e, p)
    <3>1. Meets(p)
      BY <2>10, <2>12, <2>13, <2>15
    <3>2. p \in T
      BY <3>1
    <3> QED  BY <2>7, <3>2, FreeBlock, Sizes2 DEF Orders
  <2>17. CASE p = o
    <3>1. e = h
      <4>1. Aligned(e, o) /\ e <= h /\ h < e + Size(o)
        <5>1. e \in Nat /\ Size(o) \in Nat
          BY <2>9, <2>17, FreeBlock, Sizes2
        <5> QED  BY <2>10, <2>15, <2>16, <2>17, <5>1 DEF Cells
      <4>2. h \in Int
        BY <2>10
      <4>3. e = Base(h, o)
        BY <2>9, <4>1, <4>2, BaseOf
      <4>4. h = Base(h, o)
        BY <2>9, <2>10, <4>2, BaseOf
      <4> QED  BY <4>3, <4>4
    <3>2. h \notin ToSet(dir[o])
      BY <2>8, <2>9 DEF BInv, Merged, h
    <3> QED  BY <2>15, <2>17, <3>1, <3>2
  <2>18. CASE p # o
    <3>1. o + 1 <= p
      BY <2>9, <2>16, <2>18
    <3>2. Cells(w, o + 1) \cap Cells(e, p) # {}
      BY <2>10, <2>12, <2>15
    <3>3. Cells(w, o + 1) \subseteq Cells(e, p)
      BY <2>9, <2>11, <2>16, <3>1, <3>2, Nested
    <3>4. g \in Cells(e, p)
      BY <2>10, <2>12, <3>3
    <3> QED  BY <2>8, <2>9, <2>12, <2>15, <2>18, <3>4, FreeFree
  <2> QED  BY <2>17, <2>18
<1> QED  BY <1>2 DEF FailsOnlyWhenFull, freeFrames

\* An allocation fails only if no aligned run of frames of the size that it
\* needs is free: no interleaving leaves two free buddies unmerged.
THEOREM FailureJustified == Spec => []FailsOnlyWhenFull
<1>1. BInv => FailsOnlyWhenFull
  BY NoFreeRun
<1> QED  BY <1>1, BuddyInvariant, PTL

\* Frames that nobody has been granted.
LEMMA GrantStep ==
    ASSUME BInv, NEW t \in Threads, NEW f \in Managed, NEW n \in Sizes,
           RangeOf(<<f, n>>) \subseteq Managed,
           \A u \in Threads : \A c \in held[u] : RangeOf(<<f, n>>) \cap RangeOf(c) = {},
           held' = [held EXCEPT ![t] = @ \cup {<<f, n>>}]
    PROVE  Abstract!Next
<1>1. Abstract!Grant(t, <<f, n>>)
  BY DEF Abstract!Grant, Abstract!RangeOf, RangeOf
<1> QED  BY <1>1 DEF Abstract!Next

\* Each step grants frames, gives them back, or changes no allocation.
LEMMA StepRefines ==
    ASSUME BInv, [Next]_vars
    PROVE  [Abstract!Next]_held
<1> SUFFICES ASSUME ~ UNCHANGED held  PROVE Abstract!Next
  OBVIOUS
<1>1. PICK t \in Threads :
        \/ \E n \in Sizes : Alloc(t, n) \/ AllocFails(t, n)
        \/ Mark(t) \/ Rest(t) \/ Free(t) \/ FreePiece(t)
  BY DEF Next, vars
<1>2. (\E n \in Sizes : Alloc(t, n)) \/ Rest(t) \/ Free(t)
  BY <1>1 DEF AllocFails, Mark, FreePiece, vars
<1>3. ASSUME NEW n \in Sizes, Alloc(t, n)  PROVE Abstract!Next
  <2> DEFINE k == ceil_order(n)
             od == Least(Avail(k))
             fr == Head(dir[od])
  <2>1. n = Size(k) /\ held' = [held EXCEPT ![t] = @ \cup {<<fr, n>>}] /\ Avail(k) # {}
    BY <1>3 DEF Alloc
  <2>2. n \in Nat
    BY BuddyAssumption
  <2>3. k \in Shifts /\ (k = MaxOrder + 2 \/ n <= Size(k))
    BY <2>2, CeilOrder
  <2> HIDE DEF k
  <2>4. Avail(k) \in SUBSET Nat
    BY <2>3, BuddyAssumption DEF Avail, Shifts
  <2>5. od \in k .. MaxOrder /\ dir[od] # <<>>
    <3>1. od \in Avail(k)
      BY <2>1, <2>4, LeastIn
    <3> QED  BY <3>1 DEF Avail
  <2> HIDE DEF od
  <2>6. k \in Orders /\ od \in Orders /\ k <= od /\ od \in Shifts
    BY <2>3, <2>5, BuddyAssumption, Sizes2 DEF Orders, Shifts
  <2>7. fr \in ToSet(dir[od])
    <3>1. dir[od] \in Seq(Managed) /\ IsInjective(dir[od])
      BY <2>6 DEF BInv, TypeOK
    <3> QED  BY <2>5, <3>1, TailList
  <2> HIDE DEF fr
  <2>8. RangeOf(<<fr, n>>) \subseteq Cells(fr, od) /\ fr \in Managed /\ Cells(fr, od) \subseteq Managed
    <3>1. fr \in Managed /\ fr \in Nat /\ Cells(fr, od) \subseteq Managed
      BY <2>6, <2>7, FreeBlock
    <3>2. Size(k) <= Size(od) /\ Size(k) \in Nat /\ Size(od) \in Nat
      BY <2>3, <2>6, SizeTimes, Sizes2
    <3> QED  BY <2>1, <3>1, <3>2 DEF RangeOf, Cells
  <2>9. \A u \in Threads : \A c \in held[u] : RangeOf(<<fr, n>>) \cap RangeOf(c) = {}
    <3>1. \A u \in Threads : \A c \in held[u] : Cells(fr, od) \cap RangeOf(c) = {}
      BY <2>6, <2>7, HandFree
    <3> QED  BY <2>8, <3>1
  <2> QED  BY <2>1, <2>8, <2>9, GrantStep
<1>4. CASE Rest(t)
  <2> DEFINE fr == call[t].fr
             n == call[t].n
             k == ceil_order(n)
  <2>1. call[t].at = "rest" /\ held' = [held EXCEPT ![t] = @ \cup {<<fr, n>>}]
    BY <1>4 DEF Rest
  <2>2. /\ InHand(t) = {<<fr, Size(k)>>} /\ k \in Orders
        /\ n \in Sizes /\ n \in Nat \ {0} /\ n < Size(k) /\ Size(k) \in Nat
        /\ fr \in Nat /\ Cells(fr, k) \subseteq Managed
    BY <2>1, AllocHand
  <2> HIDE DEF k, n, fr
  <2>3. RangeOf(<<fr, n>>) \subseteq RangeOf(<<fr, Size(k)>>) /\ RangeOf(<<fr, Size(k)>>) \subseteq Managed
    BY <2>2 DEF RangeOf, Cells
  <2>4. \A u \in Threads : \A c \in held[u] : RangeOf(<<fr, Size(k)>>) \cap RangeOf(c) = {}
    <3>1. SUFFICES ASSUME NEW u \in Threads, NEW c \in held[u]
                   PROVE  RangeOf(<<fr, Size(k)>>) \cap RangeOf(c) = {}
      OBVIOUS
    <3> DEFINE b == <<fr, Size(k)>>
               r == <<<<"hand", t>>, b>>
               q == <<<<"held", u>>, c>>
    <3>2. r \in Regions
      BY <2>2, RegionIs DEF InRegions
    <3>3. q \in Regions
      BY RegionIs DEF InRegions
    <3>4. r[1] = <<"hand", t>> /\ q[1] = <<"held", u>> /\ r[2] = b /\ q[2] = c
      OBVIOUS
    <3> HIDE DEF r, q, b
    <3>5. r # q
      BY <3>4, Tags
    <3>6. RangeOf(r[2]) \cap RangeOf(q[2]) = {}
      BY <3>2, <3>3, <3>5 DEF BInv, Apart
    <3> QED  BY <3>4, <3>6 DEF b
  <2>5. fr \in Managed
    <3>1. <<fr, Size(k)>>[1] = fr
      OBVIOUS
    <3> QED  BY <2>2, <3>1, HandFacts
  <2>6. /\ RangeOf(<<fr, n>>) \subseteq Managed
        /\ \A u \in Threads : \A c \in held[u] : RangeOf(<<fr, n>>) \cap RangeOf(c) = {}
    BY <2>3, <2>4
  <2> DEFINE b == <<fr, n>>
  <2>7. n \in Sizes /\ held' = [held EXCEPT ![t] = @ \cup {b}]
    BY <2>1, <2>2
  <2> QED  BY Zenon, <2>5, <2>6, <2>7, GrantStep
<1>5. CASE Free(t)
  <2>1. PICK b \in held[t] : held' = [held EXCEPT ![t] = @ \ {b}]
    BY <1>5 DEF Free
  <2>2. b \in Managed \X Sizes
    BY DEF BInv, TypeOK
  <2>3. PICK f \in Managed, n \in Sizes : b = <<f, n>>
    BY <2>2
  <2>4. Abstract!GiveBack(t, <<f, n>>)
    BY <2>1, <2>3 DEF Abstract!GiveBack
  <2> QED  BY <2>4 DEF Abstract!Next
<1> QED  BY <1>2, <1>3, <1>4, <1>5

\* The buddy allocator implements Pages: what it hands out consists of managed
\* frames and overlaps nothing that another call handed out and that has not
\* been freed, for all numbers of threads, frames and sizes.
THEOREM BuddyKeepsPromise == Spec => KeepsPromise
<1>1. Init => Abstract!Init
  BY DEF Init, Abstract!Init
<1>2. BInv /\ [Next]_vars => [Abstract!Next]_held
  BY StepRefines
<1> QED  BY <1>1, <1>2, BuddyInvariant, PTL DEF Spec, KeepsPromise, Abstract!Spec
=============================================================================
