--------------------------- MODULE ExampleProofs ----------------------------
(***************************************************************************)
(* Theorems about the parts that stand alone: the Modbus server's answers  *)
(* for every number of coils and registers, the thermistor's lookup for    *)
(* every table of its kind and every reading, the button loop for any      *)
(* number of presses, and the breakpoint driver, common/src/fpb.c, for     *)
(* every unit and every argument.                                          *)
(***************************************************************************)
EXTENDS ModbusServer, ThermistorLut, SequenceTheorems, WellFoundedInduction, TLAPS

-----------------------------------------------------------------------------
(* The bits of a number, for the coils of the Modbus server.  What 2^a     *)
(* divides is an induction over a, carried out with the least              *)
(* counterexample.                                                         *)

\* f gives 1 shifted left by each of 0 to n places.
IsShift(f, n) == f = [k \in 0 .. n |-> IF k = 0 THEN 1 ELSE 2 * f[k - 1]]

\* A set of numbers that is not empty has a least member.
LEMMA LeastNumber ==
    ASSUME NEW S \in SUBSET Nat, S # {}
    PROVE  \E x \in S : \A y \in S : x <= y
<1>1. PICK x \in S : \A y \in S : ~(<<y, x>> \in OpToRel(<, Nat))
  BY NatLessThanWellFounded, WFMin
<1>2. \A y \in S : ~(y < x)
  BY <1>1 DEF OpToRel
<1> QED
  BY <1>2

\* 1 can be shifted by any number of places ...
LEMMA ShiftExists ==
    ASSUME NEW n \in Nat
    PROVE  \E f : IsShift(f, n)
<1> DEFINE Bad == {m \in Nat : ~ \E f : IsShift(f, m)}
<1> SUFFICES ASSUME Bad # {}
             PROVE  FALSE
  OBVIOUS
<1>1. PICK m \in Bad : \A y \in Bad : m <= y
  BY LeastNumber
<1>2. CASE m = 0
  <2>1. IsShift([k \in 0 .. 0 |-> 1], 0)
    BY DEF IsShift
  <2> QED
    BY <1>2, <2>1
<1>3. CASE m # 0
  <2>1. m - 1 \in Nat /\ m - 1 \notin Bad
    BY <1>1, <1>3
  <2>2. PICK g : IsShift(g, m - 1)
    BY <2>1
  <2> DEFINE f == [k \in 0 .. m |-> IF k = m THEN 2 * g[m - 1] ELSE g[k]]
             h == [k \in 0 .. m |-> IF k = 0 THEN 1 ELSE 2 * f[k - 1]]
  <2>3. \A k \in 0 .. m - 1 : g[k] = IF k = 0 THEN 1 ELSE 2 * g[k - 1]
    BY <2>2 DEF IsShift
  <2>4. \A k \in 0 .. m : f[k] = h[k]
    <3> TAKE k \in 0 .. m
    <3>1. CASE k = m
      <4>1. f[k] = 2 * g[m - 1] /\ f[m - 1] = g[m - 1] /\ k # 0
        BY <1>1, <1>3, <3>1
      <4> QED
        BY <3>1, <4>1
    <3>2. CASE k # m
      <4>1. k \in 0 .. m - 1 /\ f[k] = g[k] /\ (k # 0 => f[k - 1] = g[k - 1])
        BY <1>1, <3>2
      <4> QED
        BY <2>3, <4>1
    <3> QED
      BY <3>1, <3>2
  <2>5. f = h
    BY <2>4
  <2>6. IsShift(f, m)
    BY <2>5 DEF IsShift
  <2> QED
    BY <1>1, <2>6
<1> QED
  BY <1>2, <1>3

\* ... in one way, whatever comes after.
LEMMA ShiftUnique ==
    ASSUME NEW n \in Nat, NEW m \in Nat, n <= m, NEW f, NEW g, IsShift(f, n), IsShift(g, m)
    PROVE  \A k \in 0 .. n : f[k] = g[k]
<1> DEFINE Bad == {k \in 0 .. n : f[k] # g[k]}
<1> SUFFICES ASSUME Bad # {}
             PROVE  FALSE
  OBVIOUS
<1>0. Bad \in SUBSET Nat
  OBVIOUS
<1>1. PICK k \in Bad : \A y \in Bad : k <= y
  BY <1>0, LeastNumber
<1>2. /\ f[k] = IF k = 0 THEN 1 ELSE 2 * f[k - 1]
      /\ g[k] = IF k = 0 THEN 1 ELSE 2 * g[k - 1]
  <2>1. k \in 0 .. n /\ k \in 0 .. m
    BY <1>1
  <2> QED
    BY <2>1 DEF IsShift
<1>3. CASE k = 0
  BY <1>1, <1>2, <1>3
<1>4. CASE k # 0
  <2>1. k - 1 \in 0 .. n /\ k - 1 \notin Bad
    BY <1>1, <1>4
  <2> QED
    BY <1>1, <1>2, <1>4, <2>1
<1> QED
  BY <1>3, <1>4

\* BIT gives the last of them.
LEMMA BITIs ==
    ASSUME NEW n \in Nat, NEW m \in Nat, n <= m, NEW f, IsShift(f, m)
    PROVE  BIT(n) = f[n]
<1> DEFINE e == CHOOSE g : g = [k \in 0 .. n |-> IF k = 0 THEN 1 ELSE 2 * g[k - 1]]
<1>1. BIT(n) = e[n]
  BY DEF BIT
<1>2. PICK g : IsShift(g, n)
  BY ShiftExists
<1>3. IsShift(e, n)
  BY <1>2 DEF IsShift
<1> HIDE DEF e
<1>4. \A k \in 0 .. n : e[k] = f[k]
  BY <1>3, ShiftUnique
<1> QED
  BY <1>1, <1>4

\* BIT(n) is 1 shifted n times.
LEMMA BITShifts ==
    /\ BIT(0) = 1
    /\ \A n \in Nat : BIT(n + 1) = 2 * BIT(n)
<1>1. BIT(0) = 1
  <2>1. PICK f : IsShift(f, 0)
    BY ShiftExists
  <2>2. f[0] = 1
    BY <2>1 DEF IsShift
  <2> QED
    BY <2>1, <2>2, BITIs
<1>2. ASSUME NEW n \in Nat
      PROVE  BIT(n + 1) = 2 * BIT(n)
  <2>1. PICK f : IsShift(f, n + 1)
    BY ShiftExists
  <2>2. f[n + 1] = 2 * f[n]
    <3>1. n + 1 \in 0 .. n + 1 /\ n + 1 # 0 /\ (n + 1) - 1 = n
      OBVIOUS
    <3> QED
      BY <2>1, <3>1 DEF IsShift
  <2>3. BIT(n + 1) = f[n + 1]
    BY <2>1, BITIs
  <2>4. BIT(n) = f[n]
    BY <2>1, BITIs
  <2> QED
    BY <2>2, <2>3, <2>4
<1> QED
  BY <1>1, <1>2

\* ... and so a positive number.
LEMMA BITPositive ==
    \A n \in Nat : BIT(n) \in Nat \ {0}
<1> DEFINE Bad == {m \in Nat : BIT(m) \notin Nat \ {0}}
<1> SUFFICES ASSUME Bad # {}
             PROVE  FALSE
  OBVIOUS
<1>1. PICK m \in Bad : \A y \in Bad : m <= y
  BY LeastNumber
<1>2. m # 0
  BY <1>1, BITShifts
<1>3. m - 1 \in Nat /\ m - 1 \notin Bad /\ (m - 1) + 1 = m
  BY <1>1, <1>2
<1>4. BIT(m) = 2 * BIT(m - 1)
  BY <1>3, BITShifts
<1> QED
  BY <1>1, <1>3, <1>4

\* A lower bit goes into a higher one an even number of times.
LEMMA BITDivides ==
    ASSUME NEW a \in Nat
    PROVE  \A b \in Nat : a < b => \E k \in Nat \ {0} : BIT(b) = k * (2 * BIT(a))
<1> DEFINE Bad == {b \in Nat : a < b /\ ~ \E k \in Nat \ {0} : BIT(b) = k * (2 * BIT(a))}
<1> SUFFICES ASSUME Bad # {}
             PROVE  FALSE
  OBVIOUS
<1>1. PICK m \in Bad : \A y \in Bad : m <= y
  BY LeastNumber
<1>2. m - 1 \in Nat /\ (m - 1) + 1 = m /\ a <= m - 1 /\ m - 1 \notin Bad
  BY <1>1
<1>3. BIT(m) = 2 * BIT(m - 1)
  BY <1>2, BITShifts
<1>4. BIT(a) \in Nat /\ BIT(m - 1) \in Nat
  BY <1>2, BITPositive
<1>5. CASE a = m - 1
  <2>1. BIT(m) = 1 * (2 * BIT(a))
    BY <1>3, <1>4, <1>5
  <2> QED
    BY <1>1, <2>1
<1>6. CASE a < m - 1
  <2>1. PICK k \in Nat \ {0} : BIT(m - 1) = k * (2 * BIT(a))
    BY <1>2, <1>6
  <2>2. BIT(m) = (2 * k) * (2 * BIT(a))
    BY <1>3, <1>4, <2>1
  <2>3. 2 * k \in Nat \ {0}
    OBVIOUS
  <2> QED
    BY <1>1, <2>2, <2>3
<1> QED
  BY <1>2, <1>5, <1>6

\* Quotient and remainder are the only ones.
LEMMA QuotientIs ==
    ASSUME NEW p \in Nat \ {0}, NEW q \in Nat, NEW r \in 0 .. p - 1
    PROVE  (q * p + r) \div p = q
<1> DEFINE x == q * p + r
           d == x \div p
<1>1. x \in Nat /\ d \in Nat /\ d * p <= x /\ x < d * p + p
  OBVIOUS
<1>2. \A i, j \in Nat : i < j => i * p + p <= j * p
  <2> TAKE i, j \in Nat
  <2> HAVE i < j
  <2>1. PICK e \in Nat : j = i + 1 + e
    <3>1. j - i - 1 \in Nat /\ j = i + 1 + (j - i - 1)
      OBVIOUS
    <3> QED
      BY <3>1
  <2>2. j * p = i * p + p + e * p /\ e * p \in Nat /\ i * p \in Nat
    BY <2>1
  <2> QED
    BY <2>2
<1>3. q * p \in Nat /\ q * p <= x /\ x < q * p + p
  OBVIOUS
<1> HIDE DEF d
<1>4. ~(q < d)
  <2> SUFFICES ASSUME q < d
               PROVE  FALSE
    OBVIOUS
  <2>1. q * p + p <= d * p /\ d * p \in Nat
    BY <1>1, <1>2
  <2> HIDE DEF x
  <2> QED
    BY <1>1, <1>3, <2>1
<1>5. ~(d < q)
  <2> SUFFICES ASSUME d < q
               PROVE  FALSE
    OBVIOUS
  <2>1. d * p + p <= q * p /\ d * p \in Nat
    BY <1>1, <1>2
  <2> HIDE DEF x
  <2> QED
    BY <1>1, <1>3, <2>1
<1> HIDE DEF x
<1>6. d = q
  BY <1>1, <1>4, <1>5
<1> QED
  BY <1>6 DEF d, x

\* There are a quotient and a remainder.
LEMMA QuotientExists ==
    ASSUME NEW x \in Nat, NEW p \in Nat \ {0}
    PROVE  x \div p \in Nat /\ x % p \in 0 .. p - 1 /\ x = (x \div p) * p + (x % p)
<1>1. x \div p \in Nat
  OBVIOUS
<1>2. x % p \in 0 .. p - 1
  OBVIOUS
<1>3. x = p * (x \div p) + (x % p)
  OBVIOUS
<1>4. p * (x \div p) = (x \div p) * p
  BY <1>1
<1> QED
  BY <1>1, <1>2, <1>3, <1>4

\* A number taken apart at one bit: what is above it, the bit, what is below.
Parts(h, a, d, l) == h * (2 * BIT(a)) + (d * BIT(a) + l)

\* The bit that was put in is the bit found ...
LEMMA BitOfParts ==
    ASSUME NEW a \in Nat, NEW h \in Nat, NEW d \in {0, 1}, NEW l \in 0 .. BIT(a) - 1
    PROVE  Bit(Parts(h, a, d, l), a) = d
<1> DEFINE p == BIT(a)
<1>1. p \in Nat \ {0}
  BY BITPositive
<1>2. l \in 0 .. p - 1
  OBVIOUS
<1> HIDE DEF p
<1>3. h * (2 * p) + (d * p + l) = (2 * h + d) * p + l
  BY <1>1, <1>2
<1>4. 2 * h + d \in Nat /\ (2 * h + d) % 2 = d
  OBVIOUS
<1>5. ((2 * h + d) * p + l) \div p = 2 * h + d
  BY <1>1, <1>2, <1>4, QuotientIs
<1> QED
  BY <1>3, <1>4, <1>5 DEF Bit, Parts, p

\* ... and every number can be taken apart so.
LEMMA PartsOf ==
    ASSUME NEW w \in Nat, NEW a \in Nat
    PROVE  \E h \in Nat, d \in {0, 1}, l \in 0 .. BIT(a) - 1 : w = Parts(h, a, d, l)
<1> DEFINE p == BIT(a)
           q == w \div p
           l == w % p
           h == q \div 2
           d == q % 2
<1>1. p \in Nat \ {0}
  BY BITPositive
<1> HIDE DEF p
<1>2. q \in Nat /\ l \in 0 .. p - 1 /\ w = q * p + l
  BY <1>1, QuotientExists
<1> HIDE DEF q, l
<1>3. h \in Nat /\ d \in {0, 1} /\ q = 2 * h + d
  BY <1>2
<1> HIDE DEF h, d
<1>4. w = h * (2 * p) + (d * p + l)
  BY <1>1, <1>2, <1>3
<1> QED
  BY <1>2, <1>3, <1>4 DEF Parts, p

\* Writing a bit changes that part alone (main.c:54-60).
LEMMA WithBitOfParts ==
    ASSUME NEW a \in Nat, NEW h \in Nat, NEW d \in {0, 1}, NEW l \in 0 .. BIT(a) - 1,
           NEW v \in {0, 1}
    PROVE  WithBit(Parts(h, a, d, l), a, v) = Parts(h, a, v, l)
<1>1. Bit(Parts(h, a, d, l), a) = d
  BY BitOfParts
<1> DEFINE p == BIT(a)
<1>2. p \in Nat /\ l \in Nat
  BY BITPositive
<1> HIDE DEF p
<1>3. h * (2 * p) \in Nat
  BY <1>2
<1> DEFINE x == h * (2 * p)
<1> HIDE DEF x
<1>4. x \in Nat
  BY <1>3 DEF x
<1>5. CASE v = 1
  <2>1. WithBit(Parts(h, a, d, l), a, v) = x + (d * p + l) + (1 - d) * p
    BY <1>1, <1>5 DEF WithBit, Parts, x, p
  <2>2. x + (d * p + l) + (1 - d) * p = x + (1 * p + l)
    BY <1>2, <1>4
  <2> QED
    BY <1>5, <2>1, <2>2 DEF Parts, x, p
<1>6. CASE v = 0
  <2>1. WithBit(Parts(h, a, d, l), a, v) = x + (d * p + l) - d * p
    <3>1. WithBit(Parts(h, a, d, l), a, v)
            = Parts(h, a, d, l) - Bit(Parts(h, a, d, l), a) * p
      BY <1>6 DEF WithBit, p
    <3>2. Parts(h, a, d, l) = x + (d * p + l)
      BY DEF Parts, x, p
    <3> QED
      BY <1>1, <1>2, <1>4, <3>1, <3>2
  <2>2. x + (d * p + l) - d * p = x + (0 * p + l)
    BY <1>2, <1>4
  <2> QED
    BY <1>6, <2>1, <2>2 DEF Parts, x, p
<1> QED
  BY <1>5, <1>6

\* What lies above a bit is all that a higher bit sees of the number ...
LEMMA HigherBit ==
    ASSUME NEW a \in Nat, NEW b \in Nat, a < b, NEW h \in Nat,
           NEW d \in {0, 1}, NEW v \in {0, 1}, NEW l \in 0 .. BIT(a) - 1
    PROVE  /\ Bit(Parts(h, a, d, l), b) = Bit(Parts(h, a, v, l), b)
           /\ Parts(h, a, d, l) < BIT(b) => Parts(h, a, v, l) < BIT(b)
<1> DEFINE p == 2 * BIT(a)
<1>0. BIT(a) \in Nat \ {0}
  BY BITPositive
<1>1. p \in Nat \ {0}
  BY <1>0
<1>2. PICK k \in Nat \ {0} : BIT(b) = k * p
  BY BITDivides
<1>3. \A u \in {0, 1} : u * BIT(a) + l \in 0 .. p - 1
  BY <1>0
<1> HIDE DEF p
<1>4. PICK i \in Nat, j \in 0 .. k - 1 : h = i * k + j
  <2>1. h \div k \in Nat /\ h % k \in 0 .. k - 1 /\ h = (h \div k) * k + (h % k)
    BY QuotientExists
  <2> QED
    BY <2>1
<1>5. ASSUME NEW r \in 0 .. p - 1
      PROVE  /\ (h * p + r) \div (k * p) = i
             /\ h * p + r < k * p <=> h < k
  <2>1. h * p + r = i * (k * p) + (j * p + r)
    BY <1>1, <1>4
  <2>2. PICK e \in Nat : k = j + 1 + e
    <3>1. k - j - 1 \in Nat /\ k = j + 1 + (k - j - 1)
      BY <1>4
    <3> QED
      BY <3>1
  <2>3. /\ j * p \in Nat /\ e * p \in Nat /\ k * p \in Nat \ {0}
        /\ k * p = j * p + p + e * p
    BY <1>1, <1>4, <2>2
  <2>4. j * p + r \in 0 .. k * p - 1
    BY <1>1, <2>3
  <2>5. (h * p + r) \div (k * p) = i
    BY <2>1, <2>3, <2>4, QuotientIs
  <2>6. CASE i = 0
    <3>1. h * p + r = j * p + r /\ h < k
      BY <1>1, <1>4, <2>6
    <3> QED
      BY <2>3, <2>4, <2>5, <3>1
  <2>7. CASE i # 0
    <3>1. i * (k * p) >= k * p /\ i * k >= k
      BY <2>3, <2>7
    <3>2. i * (k * p) \in Nat /\ i * k \in Nat
      BY <2>3
    <3>3. ~(h * p + r < k * p)
      BY <2>1, <2>3, <2>4, <3>1, <3>2
    <3>4. ~(h < k)
      BY <1>4, <3>1, <3>2
    <3> QED
      BY <2>5, <3>3, <3>4
  <2> QED
    BY <2>6, <2>7
<1>6. \A u \in {0, 1} : /\ Parts(h, a, u, l) \div BIT(b) = i
                        /\ Parts(h, a, u, l) < BIT(b) <=> h < k
  <2> TAKE u \in {0, 1}
  <2> DEFINE r == u * BIT(a) + l
  <2>1. r \in 0 .. p - 1
    BY <1>3
  <2>2. Parts(h, a, u, l) = h * p + r
    BY DEF Parts, p
  <2> HIDE DEF r
  <2> QED
    BY <1>2, <1>5, <2>1, <2>2
<1> QED
  BY <1>6 DEF Bit

\* ... and a lower bit sees a change by an even number.
LEMMA LowerBit ==
    ASSUME NEW a \in Nat, NEW b \in Nat, b < a, NEW h \in Nat,
           NEW d \in {0, 1}, NEW v \in {0, 1}, NEW l \in 0 .. BIT(a) - 1
    PROVE  Bit(Parts(h, a, d, l), b) = Bit(Parts(h, a, v, l), b)
<1> DEFINE p == BIT(b)
<1>1. p \in Nat \ {0}
  BY BITPositive
<1>2. PICK k \in Nat \ {0} : BIT(a) = k * (2 * p)
  BY BITDivides
<1>3. PICK g \in Nat, c \in {0, 1}, s \in 0 .. p - 1 : l = Parts(g, b, c, s)
  BY PartsOf
<1> HIDE DEF p
<1>4. ASSUME NEW u \in {0, 1}
      PROVE  Bit(Parts(h, a, u, l), b) = c
  <2> DEFINE t == (2 * h + u) * k + g
  <2>1. t \in Nat
    OBVIOUS
  <2>2. Parts(h, a, u, l) = h * (2 * (k * (2 * p))) + (u * (k * (2 * p)) + (g * (2 * p) + (c * p + s)))
    BY <1>2, <1>3 DEF Parts, p
  <2>3. h * (2 * (k * (2 * p))) + (u * (k * (2 * p)) + (g * (2 * p) + (c * p + s)))
          = t * (2 * p) + (c * p + s)
    BY <1>1, <1>3
  <2> HIDE DEF t
  <2>4. Parts(h, a, u, l) = Parts(t, b, c, s)
    BY <2>2, <2>3 DEF Parts, p
  <2> QED
    BY <1>3, <2>1, <2>4, BitOfParts DEF p
<1> QED
  BY <1>4

\* Of n bits, setting or clearing one leaves the others alone.
BitsIndependent(n) ==
    /\ 0 \in 0 .. BIT(n) - 1 /\ \A b \in 0 .. n - 1 : Bit(0, b) = 0
    /\ \A w \in 0 .. BIT(n) - 1, a, b \in 0 .. n - 1, v \in {0, 1} :
           /\ WithBit(w, a, v) \in 0 .. BIT(n) - 1
           /\ Bit(WithBit(w, a, v), b) = IF a = b THEN v ELSE Bit(w, b)

\* The bits of a number are independent of each other, for any number of bits.
LEMMA BitsAreIndependent ==
    ASSUME NEW n \in Nat
    PROVE  BitsIndependent(n)
<1>1. BIT(n) \in Nat \ {0}
  BY BITPositive
<1>2. 0 \in 0 .. BIT(n) - 1
  BY <1>1
<1>3. ASSUME NEW b \in 0 .. n - 1
      PROVE  Bit(0, b) = 0
  <2>1. BIT(b) \in Nat \ {0}
    BY BITPositive
  <2>2. Parts(0, b, 0, 0) = 0
    BY <2>1 DEF Parts
  <2>3. Bit(Parts(0, b, 0, 0), b) = 0
    BY <2>1, BitOfParts
  <2> QED
    BY <2>2, <2>3
<1>4. ASSUME NEW w \in 0 .. BIT(n) - 1, NEW a \in 0 .. n - 1, NEW b \in 0 .. n - 1,
             NEW v \in {0, 1}
      PROVE  /\ WithBit(w, a, v) \in 0 .. BIT(n) - 1
             /\ Bit(WithBit(w, a, v), b) = IF a = b THEN v ELSE Bit(w, b)
  <2>0. w \in Nat /\ a \in Nat /\ b \in Nat /\ a < n
    BY <1>1
  <2>1. PICK h \in Nat, d \in {0, 1}, l \in 0 .. BIT(a) - 1 : w = Parts(h, a, d, l)
    BY <2>0, PartsOf
  <2>2. WithBit(w, a, v) = Parts(h, a, v, l)
    BY <2>0, <2>1, WithBitOfParts
  <2>3. Parts(h, a, v, l) \in Nat
    <3>1. BIT(a) \in Nat
      BY <2>0, BITPositive
    <3> QED
      BY <3>1 DEF Parts
  <2>4. Parts(h, a, v, l) < BIT(n)
    BY <1>1, <2>0, <2>1, HigherBit
  <2>5. CASE a = b
    BY <1>1, <2>0, <2>2, <2>3, <2>4, <2>5, BitOfParts
  <2>6. CASE a < b
    BY <1>1, <2>0, <2>1, <2>2, <2>3, <2>4, <2>6, HigherBit
  <2>7. CASE b < a
    BY <1>1, <2>0, <2>1, <2>2, <2>3, <2>4, <2>7, LowerBit
  <2> QED
    BY <2>0, <2>5, <2>6, <2>7
<1> QED
  BY <1>2, <1>3, <1>4 DEF BitsIndependent

-----------------------------------------------------------------------------
(* The Modbus server.                                                      *)

\* The items of the kind that is asked for.
Size(kind) == IF kind = "coil" THEN NUM_COILS ELSE NUM_REGISTERS

\* AnswerMatchesRange says nothing while a request is served.  Then the items
\* before the next one all lie on the device.
AnswerInv ==
    /\ answer = "none" => /\ req.addr \in Nat /\ req.n \in Nat \ {0}
                          /\ req.kind \in {"coil", "reg"}
                          /\ done \in 0 .. req.n
                          /\ done > 0 => req.addr + done <= Size(req.kind)
    /\ AnswerMatchesRange

\* A callback accepts exactly the items on the device (main.c:33, 49, 68, 80).
LEMMA AcceptsOnDevice ==
    ASSUME NEW kind \in {"coil", "reg"}, NEW a \in Nat
    PROVE  Size(kind) \in Nat /\ (Accepts(kind, a) <=> a < Size(kind))
BY ModbusAssumption DEF Accepts, coil_ok, reg_ok, Size

\* Every step of the server and of main keeps it.
LEMMA AnswerStep ==
    ASSUME AnswerInv, [Next]_vars
    PROVE  AnswerInv'
<1> DEFINE here == req.addr + done
<1>1. CASE UNCHANGED <<req, done, answer>>
  BY <1>1 DEF AnswerInv, AnswerMatchesRange, Size
<1>2. CASE Request
  <2>1. PICK kind \in {"coil", "reg"}, a \in 0 .. MaxAddr, n \in 1 .. MaxCount :
            \/ req' = [op |-> "read", kind |-> kind, addr |-> a, n |-> n]
            \/ \E v \in [1 .. n -> Value(kind)] :
                   req' = [op |-> "write", kind |-> kind, addr |-> a, n |-> n, val |-> v]
    BY <1>2 DEF Request
  <2>2. req'.addr = a /\ req'.n = n /\ req'.kind = kind
    BY <2>1
  <2>3. answer' = "none" /\ done' = 0
    BY <1>2 DEF Request
  <2>4. a \in Nat /\ n \in Nat \ {0}
    BY ModbusAssumption
  <2> QED
    BY <2>2, <2>3, <2>4 DEF AnswerInv, AnswerMatchesRange
<1>3. ASSUME answer = "none"
      PROVE  /\ req.addr \in Nat /\ req.n \in Nat \ {0} /\ done \in 0 .. req.n
             /\ req.kind \in {"coil", "reg"} /\ here \in Nat /\ Size(req.kind) \in Nat
             /\ Accepts(req.kind, here) <=> here < Size(req.kind)
             /\ done > 0 => here <= Size(req.kind)
  <2>1. /\ req.addr \in Nat /\ req.n \in Nat \ {0} /\ done \in 0 .. req.n
        /\ req.kind \in {"coil", "reg"}
        /\ done > 0 => here <= Size(req.kind)
    BY <1>3 DEF AnswerInv
  <2>2. here \in Nat
    BY <2>1
  <2> QED
    BY <2>1, <2>2, AcceptsOnDevice
<1>4. CASE ServeRead \/ ServeWrite
  <2>1. /\ answer = "none" /\ answer' = "none" /\ req' = req /\ done' = done + 1
        /\ done < req.n /\ Accepts(req.kind, here)
    BY <1>4 DEF ServeRead, ServeWrite, Serving, At
  <2>2. here < Size(req.kind)
    BY <1>3, <2>1
  <2>3. req.addr + (done + 1) <= Size(req.kind) /\ done + 1 \in 0 .. req.n
    BY <1>3, <2>1, <2>2
  <2> QED
    BY <1>3, <2>1, <2>3 DEF AnswerInv, AnswerMatchesRange
<1>5. CASE ServeRefused
  <2>1. /\ answer = "none" /\ answer' = "exception" /\ req' = req
        /\ done < req.n /\ ~Accepts(req.kind, here)
    BY <1>5 DEF ServeRefused, Serving, At
  <2>2. ~(here < Size(req.kind))
    BY <1>3, <2>1
  <2>3. ~(req.addr + req.n <= Size(req.kind))
    BY <1>3, <2>1, <2>2
  <2> QED
    BY <2>1, <2>3 DEF AnswerInv, AnswerMatchesRange, Size
<1>6. CASE Respond
  <2>1. answer = "none" /\ answer' = "ok" /\ req' = req /\ done = req.n
    BY <1>6 DEF Respond
  <2>2. req.addr + req.n <= Size(req.kind)
    BY <1>3, <2>1
  <2> QED
    BY <2>1, <2>2 DEF AnswerInv, AnswerMatchesRange, Size
<1>7. CASE Main \/ HostDtr
  BY <1>1, <1>7 DEF Main, HostDtr, CheckDevice, PollDtr,
                    init_modbus_server, MainStep
<1> QED
  BY <1>1, <1>2, <1>4, <1>5, <1>6, <1>7 DEF Next, Server, vars

\* For every number of coils and registers: an exception tells the client that
\* its range leaves the device, and an answer without one that the whole range
\* was served, however the callbacks for its items fall (main.c:33, 49, 68, 80).
THEOREM ModbusAnswerMatchesRange == Spec => []AnswerMatchesRange
<1>1. Init => AnswerInv
  BY DEF Init, AnswerInv, AnswerMatchesRange
<1>2. AnswerInv /\ [Next]_vars => AnswerInv'
  BY AnswerStep
<1>3. AnswerInv => AnswerMatchesRange
  BY DEF AnswerInv
<1> QED
  BY <1>1, <1>2, <1>3, PTL DEF Spec

\* A request that is served, or was answered without an exception.
Alive == answer = "none" \/ (answer = "ok" /\ req # <<>>)

RequestInv ==
    Alive => /\ req.op \in {"read", "write"} /\ req.kind \in {"coil", "reg"}
             /\ req.addr \in 0 .. MaxAddr /\ req.n \in 1 .. MaxCount
             /\ done \in 0 .. req.n
             /\ req.op = "write" => req.val \in [1 .. req.n -> Value(req.kind)]
             /\ answer = "ok" => done = req.n

\* The device holds what was last written, coil by coil and word by word.
DeviceInv ==
    /\ wrote \in [Item -> Nat]
    /\ coils_state \in 0 .. BIT(NUM_COILS) - 1
    /\ DOMAIN holding_reg = 0 .. NUM_REGISTERS - 1
    /\ \A a \in 0 .. NUM_COILS - 1 :
           <<"coil", a>> \in Item => Bit(coils_state, a) = wrote[<<"coil", a>>]
    /\ \A a \in 0 .. NUM_REGISTERS - 1 :
           <<"reg", a>> \in Item => holding_reg[a] = wrote[<<"reg", a>>]

\* The items read so far are what the device holds: it changes for nobody else
\* while a request is served.
RespInv ==
    Alive /\ req.op = "read" =>
        /\ resp \in Seq(Nat) /\ Len(resp) = done
        /\ \A k \in 1 .. done : resp[k] = wrote[<<req.kind, req.addr + k - 1>>]

ReadInv == RequestInv /\ DeviceInv /\ RespInv

\* A step that serves an item asks for one the client may name.
LEMMA ItemServed ==
    ASSUME RequestInv, answer = "none", done < req.n
    PROVE  /\ req.kind \in {"coil", "reg"} /\ req.addr \in Nat /\ done \in Nat /\ req.n \in Nat
           /\ req.addr + done \in Nat
           /\ <<req.kind, req.addr + done>> \in Item
           /\ req.op = "write" => req.val[done + 1] \in Value(req.kind)
<1>1. /\ req.kind \in {"coil", "reg"} /\ req.addr \in 0 .. MaxAddr /\ req.n \in 1 .. MaxCount
      /\ done \in 0 .. req.n
      /\ req.op = "write" => req.val \in [1 .. req.n -> Value(req.kind)]
  BY DEF RequestInv, Alive
<1>2. MaxAddr \in Nat /\ MaxCount \in Nat
  BY ModbusAssumption
<1>3. req.addr + done \in 0 .. MaxAddr + MaxCount
  BY <1>1, <1>2
<1>4. done + 1 \in 1 .. req.n
  BY <1>1, <1>2
<1> QED
  BY <1>1, <1>2, <1>3, <1>4 DEF Item

\* A new request starts with nothing read.
LEMMA RequestStep ==
    ASSUME ReadInv, Request
    PROVE  ReadInv'
<1>1. PICK kind \in {"coil", "reg"}, a \in 0 .. MaxAddr, n \in 1 .. MaxCount :
          \/ req' = [op |-> "read", kind |-> kind, addr |-> a, n |-> n]
          \/ \E v \in [1 .. n -> Value(kind)] :
                 req' = [op |-> "write", kind |-> kind, addr |-> a, n |-> n, val |-> v]
  BY DEF Request
<1>2. /\ answer' = "none" /\ done' = 0 /\ resp' = <<>> /\ coils_state' = coils_state
      /\ holding_reg' = holding_reg /\ wrote' = wrote
  BY DEF Request
<1>3. /\ req'.addr = a /\ req'.n = n /\ req'.kind = kind /\ req'.op \in {"read", "write"}
      /\ req'.op = "write" => req'.val \in [1 .. n -> Value(kind)]
  <2>1. CASE req' = [op |-> "read", kind |-> kind, addr |-> a, n |-> n]
    BY <2>1
  <2>2. CASE \E v \in [1 .. n -> Value(kind)] :
                 req' = [op |-> "write", kind |-> kind, addr |-> a, n |-> n, val |-> v]
    BY <2>2
  <2> QED
    BY <1>1, <2>1, <2>2
<1>4. RequestInv'
  <2>1. 0 \in 0 .. n
    BY ModbusAssumption
  <2> QED
    BY <1>2, <1>3, <2>1 DEF RequestInv, Alive, Value
<1>5. DeviceInv'
  BY <1>2 DEF ReadInv, DeviceInv, Item, Bit
<1>6. RespInv'
  BY <1>2, EmptySeq DEF RespInv
<1> QED
  BY <1>4, <1>5, <1>6 DEF ReadInv

\* An item read is appended as the device holds it.
LEMMA ReadStep ==
    ASSUME ReadInv, ServeRead
    PROVE  ReadInv'
<1> DEFINE here == req.addr + done
           x == IF req.kind = "coil" THEN coil_rd(here) ELSE holding_reg_rd(here)
<1>1. /\ answer = "none" /\ answer' = "none" /\ req' = req /\ done' = done + 1
      /\ req.op = "read" /\ done < req.n /\ Accepts(req.kind, here)
      /\ resp' = Append(resp, x) /\ coils_state' = coils_state
      /\ holding_reg' = holding_reg /\ wrote' = wrote
  BY DEF ServeRead, Serving, At
<1>2. /\ req.kind \in {"coil", "reg"} /\ req.addr \in Nat /\ done \in Nat /\ req.n \in Nat
      /\ here \in Nat /\ <<req.kind, here>> \in Item
  BY <1>1, ItemServed DEF ReadInv
<1>3. here < Size(req.kind) /\ Size(req.kind) \in Nat
  BY <1>1, <1>2, AcceptsOnDevice
<1>4. x = wrote[<<req.kind, here>>] /\ x \in Nat
  <2>1. wrote[<<req.kind, here>>] \in Nat
    BY <1>2 DEF ReadInv, DeviceInv
  <2>2. CASE req.kind = "coil"
    <3>1. here \in 0 .. NUM_COILS - 1
      BY <1>2, <1>3, <2>2 DEF Size
    <3>2. Bit(coils_state, here) = wrote[<<"coil", here>>]
      BY <1>2, <2>2, <3>1 DEF ReadInv, DeviceInv
    <3> QED
      BY <2>1, <2>2, <3>2 DEF coil_rd
  <2>3. CASE req.kind = "reg"
    <3>1. here \in 0 .. NUM_REGISTERS - 1
      BY <1>2, <1>3, <2>3 DEF Size
    <3>2. holding_reg[here] = wrote[<<"reg", here>>]
      BY <1>2, <2>3, <3>1 DEF ReadInv, DeviceInv
    <3> QED
      BY <2>1, <2>3, <3>2 DEF holding_reg_rd
  <2> QED
    BY <1>2, <2>2, <2>3
<1> HIDE DEF x
<1>5. RequestInv'
  BY <1>1, <1>2 DEF ReadInv, RequestInv, Alive, Value
<1>6. DeviceInv'
  BY <1>1 DEF ReadInv, DeviceInv, Item, Bit
<1>7. RespInv'
  <2>1. /\ resp \in Seq(Nat) /\ Len(resp) = done
        /\ \A k \in 1 .. done : resp[k] = wrote[<<req.kind, req.addr + k - 1>>]
    BY <1>1 DEF ReadInv, RespInv, Alive
  <2>2. /\ resp' \in Seq(Nat) /\ Len(resp') = done + 1
        /\ \A k \in 1 .. done : resp'[k] = resp[k]
        /\ resp'[done + 1] = x
    BY <1>1, <1>4, <2>1, AppendProperties
  <2>3. ASSUME NEW k \in 1 .. done + 1
        PROVE  resp'[k] = wrote[<<req.kind, req.addr + k - 1>>]
    <3>1. CASE k \in 1 .. done
      BY <2>1, <2>2, <3>1
    <3>2. CASE k = done + 1
      <4>1. req.addr + k - 1 = here
        BY <1>2, <3>2
      <4> QED
        BY <1>4, <2>2, <3>2, <4>1
    <3> QED
      BY <1>2, <3>1, <3>2
  <2> QED
    BY <1>1, <2>2, <2>3 DEF RespInv
<1> QED
  BY <1>5, <1>6, <1>7 DEF ReadInv

\* An item written changes on the device as it does in the history, and no
\* other does (main.c:54-60, 84).
LEMMA WriteStep ==
    ASSUME ReadInv, ServeWrite
    PROVE  ReadInv'
<1> DEFINE here == req.addr + done
           v == req.val[done + 1]
<1>1. /\ answer = "none" /\ answer' = "none" /\ req' = req /\ done' = done + 1
      /\ req.op = "write" /\ done < req.n /\ Accepts(req.kind, here)
      /\ wrote' = [wrote EXCEPT ![<<req.kind, here>>] = v]
  BY DEF ServeWrite, Serving, At
<1>2. IF req.kind = "coil"
      THEN coils_state' = WithBit(coils_state, here, v) /\ holding_reg' = holding_reg
      ELSE holding_reg' = [holding_reg EXCEPT ![here] = v] /\ coils_state' = coils_state
  BY DEF ServeWrite, At, coil_wr, holding_reg_wr
<1>3. /\ req.kind \in {"coil", "reg"} /\ req.addr \in Nat /\ done \in Nat /\ req.n \in Nat
      /\ here \in Nat /\ <<req.kind, here>> \in Item
      /\ v \in Value(req.kind)
  BY <1>1, ItemServed DEF ReadInv
<1>4. here < Size(req.kind) /\ Size(req.kind) \in Nat
  BY <1>1, <1>3, AcceptsOnDevice
<1> HIDE DEF here, v
<1>5. v \in Nat
  <2>1. v \in {0, 1} \/ v \in Words
    BY <1>3 DEF Value
  <2>2. \A w \in Words : w \in Nat
    BY ModbusAssumption
  <2>3. CASE v \in {0, 1}
    BY <2>3
  <2>4. CASE v \in Words
    BY <2>2, <2>4, Zenon
  <2> QED
    BY <2>1, <2>3, <2>4, Zenon
<1>6. /\ wrote' \in [Item -> Nat]
      /\ \A it \in Item : wrote'[it] = IF it = <<req.kind, here>> THEN v ELSE wrote[it]
  BY <1>1, <1>3, <1>5 DEF ReadInv, DeviceInv
<1>7. RequestInv'
  BY <1>1, <1>3 DEF ReadInv, RequestInv, Alive, Value
<1>8. RespInv'
  BY <1>1 DEF RespInv
<1>9. CASE req.kind = "coil"
  <2>1. here \in 0 .. NUM_COILS - 1 /\ v \in {0, 1}
    BY <1>3, <1>4, <1>9 DEF Size, Value
  <2>2. coils_state \in 0 .. BIT(NUM_COILS) - 1
    BY DEF ReadInv, DeviceInv
  <2>3. /\ coils_state' \in 0 .. BIT(NUM_COILS) - 1
        /\ \A b \in 0 .. NUM_COILS - 1 :
               Bit(coils_state', b) = IF here = b THEN v ELSE Bit(coils_state, b)
    <3>1. BitsIndependent(NUM_COILS)
      BY BitsAreIndependent, ModbusAssumption
    <3> QED
      BY <1>2, <1>9, <2>1, <2>2, <3>1 DEF BitsIndependent
  <2>4. ASSUME NEW b \in 0 .. NUM_COILS - 1, <<"coil", b>> \in Item
        PROVE  Bit(coils_state', b) = wrote'[<<"coil", b>>]
    <3>1. Bit(coils_state, b) = wrote[<<"coil", b>>]
      BY <2>4 DEF ReadInv, DeviceInv
    <3>2. CASE here = b
      BY <1>6, <1>9, <2>3, <2>4, <3>2
    <3>3. CASE here # b
      BY <1>6, <1>9, <2>3, <2>4, <3>1, <3>3
    <3> QED
      BY <3>2, <3>3
  <2>5. ASSUME NEW a \in 0 .. NUM_REGISTERS - 1, <<"reg", a>> \in Item
        PROVE  holding_reg'[a] = wrote'[<<"reg", a>>]
    <3>1. holding_reg[a] = wrote[<<"reg", a>>]
      BY <2>5 DEF ReadInv, DeviceInv
    <3>2. wrote'[<<"reg", a>>] = wrote[<<"reg", a>>]
      BY <1>6, <1>9, <2>5
    <3> QED
      BY <1>2, <1>9, <3>1, <3>2
  <2>6. DOMAIN holding_reg' = 0 .. NUM_REGISTERS - 1
    BY <1>2, <1>9 DEF ReadInv, DeviceInv
  <2>7. DeviceInv'
    BY <1>6, <2>3, <2>4, <2>5, <2>6 DEF DeviceInv, Item, Bit
  <2> QED
    BY <1>7, <1>8, <2>7 DEF ReadInv
<1>10. CASE req.kind = "reg"
  <2>1. here \in 0 .. NUM_REGISTERS - 1
    BY <1>3, <1>4, <1>10 DEF Size
  <2>2. DOMAIN holding_reg = 0 .. NUM_REGISTERS - 1
    BY DEF ReadInv, DeviceInv
  <2>3. /\ DOMAIN holding_reg' = 0 .. NUM_REGISTERS - 1
        /\ \A a \in 0 .. NUM_REGISTERS - 1 :
               holding_reg'[a] = IF a = here THEN v ELSE holding_reg[a]
    BY <1>2, <1>10, <2>1, <2>2
  <2>4. ASSUME NEW a \in 0 .. NUM_REGISTERS - 1, <<"reg", a>> \in Item
        PROVE  holding_reg'[a] = wrote'[<<"reg", a>>]
    <3>1. holding_reg[a] = wrote[<<"reg", a>>]
      BY <2>4 DEF ReadInv, DeviceInv
    <3> QED
      BY <1>6, <1>10, <2>3, <2>4, <3>1
  <2>5. ASSUME NEW b \in 0 .. NUM_COILS - 1, <<"coil", b>> \in Item
        PROVE  Bit(coils_state', b) = wrote'[<<"coil", b>>]
    <3>1. Bit(coils_state, b) = wrote[<<"coil", b>>]
      BY <2>5 DEF ReadInv, DeviceInv
    <3>2. wrote'[<<"coil", b>>] = wrote[<<"coil", b>>]
      BY <1>6, <1>10, <2>5
    <3>3. coils_state' = coils_state
      BY <1>2, <1>10
    <3> QED
      BY <3>1, <3>2, <3>3
  <2>6. coils_state' \in 0 .. BIT(NUM_COILS) - 1
    BY <1>2, <1>10 DEF ReadInv, DeviceInv
  <2>7. DeviceInv'
    BY <1>6, <2>3, <2>4, <2>5, <2>6 DEF DeviceInv, Item, Bit
  <2> QED
    BY <1>7, <1>8, <2>7 DEF ReadInv
<1> QED
  BY <1>3, <1>9, <1>10

\* An item refused, the answer, main and the line leave the device and what
\* was read of it alone.
LEMMA QuietStep ==
    ASSUME ReadInv, UNCHANGED <<coils_state, holding_reg, req, done, resp, wrote>>,
           \/ answer' = answer
           \/ answer' = "exception"
           \/ answer = "none" /\ answer' = "ok" /\ done = req.n
    PROVE  ReadInv'
<1>1. RequestInv'
  BY DEF ReadInv, RequestInv, Alive, Value
<1>2. DeviceInv'
  BY DEF ReadInv, DeviceInv, Item, Bit
<1>3. RespInv'
  BY DEF ReadInv, RespInv, Alive
<1> QED
  BY <1>1, <1>2, <1>3 DEF ReadInv

\* For every number of coils and registers, and every order of requests: a read
\* answered without an exception gives the values last written, and no write
\* reaches a neighbour (main.c:37-41, 54-60, 72, 84).
THEOREM ModbusReadsLastWrites == Spec => []ReadsLastWrites
<1>0. BitsIndependent(NUM_COILS)
  BY BitsAreIndependent, ModbusAssumption
<1>1. Init => ReadInv
  <2> SUFFICES ASSUME Init
               PROVE  ReadInv
    OBVIOUS
  <2>1. ~Alive
    BY DEF Init, Alive
  <2>2. coils_state = 0 /\ 0 \in 0 .. BIT(NUM_COILS) - 1
    BY <1>0 DEF Init, BitsIndependent
  <2>3. \A b \in 0 .. NUM_COILS - 1 : Bit(coils_state, b) = 0
    BY <1>0, <2>2 DEF BitsIndependent
  <2>4. DeviceInv
    BY <2>2, <2>3 DEF Init, DeviceInv
  <2> QED
    BY <2>1, <2>4 DEF ReadInv, RequestInv, RespInv
<1>2. ReadInv /\ [Next]_vars => ReadInv'
  <2> SUFFICES ASSUME ReadInv, [Next]_vars
               PROVE  ReadInv'
    OBVIOUS
  <2>1. CASE Request
    BY <2>1, RequestStep
  <2>2. CASE ServeRead
    BY <2>2, ReadStep
  <2>3. CASE ServeWrite
    BY <2>3, WriteStep
  <2>4. CASE ServeRefused \/ Respond
    BY <2>4, QuietStep DEF ServeRefused, Respond
  <2>5. CASE Main \/ HostDtr
    BY <2>5, QuietStep DEF Main, HostDtr, CheckDevice, PollDtr,
                           init_modbus_server, MainStep
  <2>6. CASE UNCHANGED vars
    BY <2>6, QuietStep DEF vars
  <2> QED
    BY <2>1, <2>2, <2>3, <2>4, <2>5, <2>6 DEF Next, Server
<1>3. ReadInv => ReadsLastWrites
  <2> SUFFICES ASSUME ReadInv, answer = "ok", req # <<>>, req.op = "read"
               PROVE  \A k \in 1 .. req.n : resp[k] = wrote[<<req.kind, req.addr + k - 1>>]
    BY DEF ReadsLastWrites
  <2> QED
    BY DEF ReadInv, RequestInv, RespInv, Alive
<1> QED
  BY <1>1, <1>2, <1>3, PTL DEF Spec

-----------------------------------------------------------------------------
(* The thermistor.                                                         *)

\* The table point nearest to a reading, counted from one: below the first
\* point the subtraction wraps and the addition brings it back
\* (thermistor_lut_example.cpp:35-37).
LEMMA IndexOfReading ==
    ASSUME FallingTable, NEW x \in 0 .. adc_max
    PROVE  /\ Index(x) \in 1 .. kLutSize - 1
           /\ Index(x) = clamp((x + 8) \div 32)
<1>0. Modulus \in Nat /\ Modulus > 8190
  BY SMT DEF FallingTable, adc_max
<1>1. Plus(Minus(x, start), step \div 2) = x + 8
  <2>1. CASE x < 8
    <3>1. Minus(x, start) = x + Modulus - 8
      BY SMT, <1>0, <2>1 DEF Minus, start, adc_max
    <3>2. QED
      BY SMT, <1>0, <3>1, <2>1 DEF Plus, step, adc_max
  <2>2. CASE x >= 8
    <3>1. Minus(x, start) = x - 8
      BY SMT, <1>0, <2>2 DEF Minus, start, adc_max
    <3>2. QED
      BY SMT, <1>0, <3>1, <2>2 DEF Plus, step, adc_max
  <2>3. QED
    BY SMT, <2>1, <2>2 DEF adc_max
<1>2. Index(x) = clamp((x + 8) \div 32)
  BY SMT, <1>1 DEF Index, step
<1>3. (x + 8) \div 32 \in Nat
  BY SMT DEF adc_max
<1>4. QED
  BY SMT, <1>2, <1>3 DEF clamp, kLutSize

\* What the falling table says of two of its entries (thermistor_lut_example.cpp:119).
LEMMA TableEntries ==
    ASSUME FallingTable, NEW j \in 0 .. 127, NEW k \in 0 .. 127
    PROVE  /\ lut[j] \in 0 .. Modulus - 1
           /\ j < k => lut[j] > lut[k] + 32
<1>1. kLutSize - 1 = 127 /\ step = 32
  BY SMT DEF kLutSize, step
<1>2. QED
  BY <1>1 DEF FallingTable, Uint32

\* x0 lies a step above x1, so the slope is a quotient of two wrapped
\* differences, and zero: the lookup returns the entry before the nearest point
\* for every reading (thermistor_lut_example.cpp:39-45).
THEOREM LookupIsEntry ==
    ASSUME FallingTable, NEW x \in 0 .. adc_max
    PROVE  calculate_temperature_q16(x) = lut[Index(x) - 1]
<1> DEFINE n == Index(x)
<1> DEFINE y0 == lut[n - 1]
<1> DEFINE y1 == lut[n]
<1>0. Modulus \in Nat /\ Modulus > 8190
  BY SMT DEF FallingTable, adc_max
<1>1. n \in 1 .. 127
  BY SMT, IndexOfReading DEF kLutSize
<1>2. /\ y0 \in 0 .. Modulus - 1 /\ y1 \in 0 .. Modulus - 1
      /\ y0 > y1 + 32
  <2>1. n - 1 \in 0 .. 127 /\ n \in 0 .. 127 /\ n - 1 < n
    BY SMT, <1>1
  <2>2. QED
    BY <2>1, TableEntries
<1> HIDE DEF n, y0, y1
<1>3. Minus(y1, y0) \in 0 .. Modulus - 33
  <2>1. Minus(y1, y0) = y1 + Modulus - y0
    BY SMT, <1>0, <1>2 DEF Minus
  <2>2. QED
    BY SMT, <1>0, <1>2, <2>1
<1>4. Minus(at(n), at(n) + step) = Modulus - 32
  BY SMT, <1>0, <1>1 DEF Minus, at, step, start
<1>5. Minus(y1, y0) \div Minus(at(n), at(n) + step) = 0
  BY SMT, <1>0, <1>3, <1>4
<1>6. 0 * Minus(x, at(n) + step) = 0
  BY SMT, <1>0, <1>1 DEF Minus, at, step, start, adc_max
<1>7. interpolate(x) = Plus(y0, 0 * Minus(x, at(n) + step))
  BY SMT, <1>5 DEF interpolate, n, y0, y1
<1>8. Plus(y0, 0) = y0
  BY SMT, <1>0, <1>2 DEF Plus
<1>9. QED
  BY SMT, <1>6, <1>7, <1>8 DEF calculate_temperature_q16, y0, n

\* A higher reading is never a higher temperature, below the first point of the
\* table and beyond the last one too (thermistor_lut_example.cpp:35-37).
THEOREM LookupMonotone ==
    ASSUME FallingTable, NEW x \in 0 .. adc_max, NEW y \in 0 .. adc_max, x <= y
    PROVE  calculate_temperature_q16(y) <= calculate_temperature_q16(x)
<1>1. /\ Index(x) \in 1 .. 127 /\ Index(y) \in 1 .. 127
  BY SMT, IndexOfReading DEF kLutSize
<1>2. Index(x) <= Index(y)
  <2>1. (x + 8) \div 32 <= (y + 8) \div 32
    BY SMT DEF adc_max
  <2>2. (x + 8) \div 32 \in Nat /\ (y + 8) \div 32 \in Nat
    BY SMT DEF adc_max
  <2>3. Index(x) = clamp((x + 8) \div 32) /\ Index(y) = clamp((y + 8) \div 32)
    BY IndexOfReading
  <2>4. \A a, b \in Nat : a <= b => clamp(a) <= clamp(b)
    BY SMT DEF clamp, kLutSize
  <2>5. QED
    BY ONLY <2>1, <2>2, <2>3, <2>4
<1>3. lut[Index(y) - 1] <= lut[Index(x) - 1]
  <2>1. /\ Index(x) - 1 \in 0 .. 127 /\ Index(y) - 1 \in 0 .. 127
        /\ Index(x) - 1 = Index(y) - 1 \/ Index(x) - 1 < Index(y) - 1
    BY SMT, <1>1, <1>2
  <2>2. Modulus \in Nat
    BY DEF FallingTable
  <2>3. \A u, v \in 0 .. Modulus - 1 : u = v \/ u > v + 32 => v <= u
    BY SMT, <2>2
  <2>4. QED
    BY <2>1, <2>3, TableEntries
<1>4. QED
  BY SMT, <1>3, LookupIsEntry

\* Between the first and the last point the result is the entry of a table point
\* at or below the reading and no more than one and a half steps away from it
\* (thermistor_lut_example.cpp:39-45).
THEOREM LookupNearReading ==
    ASSUME FallingTable, NEW x \in at(0) .. at(kLutSize - 1), x <= adc_max
    PROVE  \E k \in 0 .. kLutSize - 1 :
               /\ calculate_temperature_q16(x) = lut[k]
               /\ 2 * (x - at(k)) \in 0 .. 3 * step
<1>1. x \in 8 .. 4072
  BY SMT DEF at, step, start, kLutSize
<1>2. x \in 0 .. adc_max
  BY SMT, <1>1 DEF adc_max
<1> DEFINE n == Index(x)
<1>3. n \in 1 .. 127 /\ n = clamp((x + 8) \div 32)
  BY SMT, <1>2, IndexOfReading DEF kLutSize
<1>4. calculate_temperature_q16(x) = lut[n - 1]
  BY SMT, <1>2, LookupIsEntry
<1>5. at(n - 1) = 32 * n - 24
  BY SMT, <1>3 DEF at, step, start
<1>6. 2 * (x - (32 * n - 24)) \in 0 .. 96
  BY SMT, <1>1, <1>3 DEF clamp, kLutSize
<1>7. QED
  <2>1. n - 1 \in 0 .. kLutSize - 1
    BY SMT, <1>3 DEF kLutSize
  <2>2. 2 * (x - at(n - 1)) \in 0 .. 3 * step
    BY SMT, <1>5, <1>6 DEF step
  <2>3. QED
    BY SMT, <2>1, <2>2, <1>4

-----------------------------------------------------------------------------
(* The button.                                                             *)

VARIABLES loop_pc, pin, button_is_pressed, i, presses, lines

Button == INSTANCE ButtonExample WITH pc <- loop_pc

One(b) == IF b THEN 1 ELSE 0

\* A press that counts and is not sampled yet: the pin is high and the flag is
\* down, or about to be taken down by the report of the press before.
Unseen == pin /\ (~button_is_pressed \/ loop_pc = "report")

\* OnePressOneLine alone is not inductive: a press may come while the line for
\* the one before is being sent, and must be counted apart from it.
PressInv ==
    /\ presses \in Nat /\ lines \in Nat
    /\ loop_pc = "report" => button_is_pressed
    /\ lines + One(button_is_pressed) + One(Unseen) <= presses

\* Every line "button pressed" stands for a press of its own, for any number of
\* presses at any moments of the loop (renode-example.c:83-94).
THEOREM ButtonOnePressOneLine == Button!Spec => []Button!OnePressOneLine
<1>1. Button!Init => PressInv
  <2>1. Button!Init => /\ presses = 0 /\ lines = 0 /\ loop_pc = "setup"
                /\ ~pin /\ ~button_is_pressed
    BY DEF Button!Init
  <2>2. QED
    BY SMT, <2>1 DEF PressInv, Unseen, One
<1>2. PressInv /\ [Button!Next]_(Button!vars) => PressInv'
  <2> SUFFICES ASSUME PressInv, [Button!Next]_(Button!vars) PROVE PressInv'
    OBVIOUS
  <2> USE DEF PressInv, Unseen, One
  <2>1. CASE Button!Setup
    BY SMT, <2>1 DEF Button!Setup, Button!Step
  <2>2. CASE Button!Sample
    <3>1. /\ loop_pc = "sample" /\ lines' = lines /\ presses' = presses /\ (pin' <=> pin)
          /\ pin => button_is_pressed' /\ loop_pc' # "report"
          /\ ~pin => /\ (button_is_pressed' <=> button_is_pressed)
                     /\ loop_pc' = "report" => button_is_pressed
      BY <2>2 DEF Button!Sample, Button!Step
    <3>2. QED
      BY SMT, <3>1
  <2>3. CASE Button!Report
    <3>1. /\ loop_pc = "report" /\ loop_pc' = "count" /\ lines' = lines + 1 /\ presses' = presses
          /\ ~button_is_pressed' /\ (pin' <=> pin)
      BY <2>3 DEF Button!Report, Button!Step
    <3>2. QED
      BY SMT, <3>1
  <2>4. CASE Button!Count
    BY SMT, <2>4 DEF Button!Count, Button!Step
  <2>5. CASE Button!PrintCounter
    BY SMT, <2>5 DEF Button!PrintCounter, Button!Step
  <2>6. CASE Button!Press
    BY SMT, <2>6 DEF Button!Press
  <2>7. CASE Button!Release
    <3>1. /\ loop_pc' = loop_pc /\ lines' = lines /\ presses' = presses
          /\ ~pin' /\ (button_is_pressed' <=> button_is_pressed)
      BY <2>7 DEF Button!Release
    <3>2. QED
      BY SMT, <3>1
  <2>8. CASE UNCHANGED Button!vars
    BY SMT, <2>8 DEF Button!vars
  <2>9. QED
    BY <2>1, <2>2, <2>3, <2>4, <2>5, <2>6, <2>7, <2>8 DEF Button!Next, Button!Main
<1>3. PressInv => Button!OnePressOneLine
  BY SMT DEF PressInv, Button!OnePressOneLine, One
<1>4. QED
  BY <1>1, <1>2, <1>3, PTL DEF Button!Spec

-----------------------------------------------------------------------------
(* The breakpoint driver.                                                  *)

CONSTANTS NumCode, NumLit, Revision, Ids, Addresses, None

VARIABLES FP_CTRL, FP_COMP, result

Driver == INSTANCE Fpb

-----------------------------------------------------------------------------
(* Taking words apart.                                                     *)

\* The fields of FP_CTRL come back as they were put together (fpb.c:51-66).
LEMMA ConfigOfUnit ==
    ASSUME Driver!UnitAssumption, FP_CTRL = Driver!Implemented \/ FP_CTRL = Driver!Implemented + 1
    PROVE  /\ Driver!fpb_get_config.revision = Revision
           /\ Driver!fpb_get_config.num_code_comparators = NumCode
           /\ Driver!fpb_get_config.num_literal_comparators = NumLit
           /\ Driver!fpb_get_config.enabled <=> FP_CTRL = Driver!Implemented + 1
           /\ Driver!Implemented \in Nat /\ Driver!Implemented % 16 = 0
<1> DEFINE high == NumCode \div 16
           low == NumCode % 16
<1>1. /\ high \in 0 .. 7 /\ low \in 0 .. 15 /\ NumCode = high * 16 + low
      /\ NumLit \in 0 .. 15 /\ Revision \in 0 .. 15
  BY SMT DEF Driver!UnitAssumption
<1>2. Driver!Implemented = Revision * Driver!REV + high * 4096 + NumLit * 256 + low * 16
  BY DEF Driver!Implemented
<1> HIDE DEF high, low
<1>3. PICK e \in 0 .. 1 : FP_CTRL = Driver!Implemented + e
  <2>1. Driver!Implemented + 0 = Driver!Implemented
    BY SMT, <1>1, <1>2 DEF Driver!REV
  <2>2. QED
    BY SMT, <2>1
<1>4. /\ Driver!Implemented \in Nat /\ Driver!Implemented % 16 = 0
      /\ FP_CTRL \in Nat /\ (FP_CTRL % 2 # 0 <=> e = 1)
  BY SMT, <1>1, <1>2, <1>3 DEF Driver!REV
<1>5. FP_CTRL \div Driver!REV = Revision
  BY SMT, <1>1, <1>2, <1>3 DEF Driver!REV
<1>6. (FP_CTRL \div 4096) % 8 = high
  <2>1. FP_CTRL \div 4096 = Revision * 65536 + high
    BY SMT, <1>1, <1>2, <1>3 DEF Driver!REV
  <2>2. QED
    BY SMT, <2>1, <1>1
<1>7. (FP_CTRL \div 256) % 16 = NumLit
  <2>1. FP_CTRL \div 256 = Revision * 1048576 + high * 16 + NumLit
    BY SMT, <1>1, <1>2, <1>3 DEF Driver!REV
  <2>2. QED
    BY SMT, <2>1, <1>1
<1>8. (FP_CTRL \div 16) % 16 = low
  <2>1. FP_CTRL \div 16 = Revision * 16777216 + high * 256 + NumLit * 16 + low
    BY SMT, <1>1, <1>2, <1>3 DEF Driver!REV
  <2>2. QED
    BY SMT, <2>1, <1>1
<1>9. e = 1 <=> FP_CTRL = Driver!Implemented + 1
  BY SMT, <1>3, <1>4
<1>10. Revision % 16 = Revision
  BY SMT, <1>1
<1>11. QED
  <2>1. /\ Driver!fpb_get_config.revision = (FP_CTRL \div Driver!REV) % 16
        /\ Driver!fpb_get_config.num_code_comparators
             = ((FP_CTRL \div 4096) % 8) * 16 + ((FP_CTRL \div 16) % 16)
        /\ Driver!fpb_get_config.num_literal_comparators = (FP_CTRL \div 256) % 16
    BY SMT DEF Driver!fpb_get_config
  <2>2. Driver!fpb_get_config.enabled <=> FP_CTRL % 2 # 0
    BY Zenon DEF Driver!fpb_get_config
  <2>3. Driver!fpb_get_config.enabled <=> FP_CTRL = Driver!Implemented + 1
    BY Zenon, <2>2, <1>4, <1>9
  <2>4. /\ Driver!fpb_get_config.revision = Revision
        /\ Driver!fpb_get_config.num_literal_comparators = NumLit
    BY SMT, <2>1, <1>5, <1>7, <1>10
  <2>5. Driver!fpb_get_config.num_code_comparators = NumCode
    BY SMT, <2>1, <1>1, <1>6, <1>8
  <2>6. QED
    BY <2>3, <2>4, <2>5, <1>4

\* The address the driver reads out of a word (fpb.c:32-35, 117-120).
HalfwordOf(w) ==
    IF w \div Driver!REPLACE = 2 THEN (w % Driver!CodeLimit) - (w % 4) + 2
    ELSE (w % Driver!CodeLimit) - (w % 4)

\* A word of fpb_set_breakpoint stops the processor at the halfword asked for
\* and nowhere else, and is read back as that halfword (fpb.c:93-94).
LEMMA StopsAtAddress ==
    ASSUME NEW addr \in Nat, addr < Driver!CodeLimit
    PROVE  /\ Driver!CompWord(addr) \in Nat /\ Driver!CompWord(addr) % 2 # 0
           /\ Driver!Stops(Driver!CompWord(addr)) = {addr - (addr % 2)}
           /\ HalfwordOf(Driver!CompWord(addr)) = addr - (addr % 2)
<1> DEFINE w == Driver!CompWord(addr)
           r == IF (addr \div 2) % 2 = 0 THEN 1 ELSE 2
           q == addr - (addr % 4)
<1>1. q \in Nat /\ q % 4 = 0 /\ q < Driver!CodeLimit /\ q <= addr
  BY SMT DEF Driver!CodeLimit
<1>2. w = q + 1 + r * Driver!REPLACE /\ r \in {1, 2}
  BY DEF Driver!CompWord
<1>3. (r = 1 => addr - (addr % 2) = q) /\ (r = 2 => addr - (addr % 2) = q + 2)
  BY SMT
<1> HIDE DEF w, r, q
<1>4. /\ w \in Nat /\ w % 2 # 0 /\ w % 4 = 1
      /\ w % Driver!CodeLimit = q + 1 /\ w \div Driver!REPLACE = r
  BY SMT, <1>1, <1>2 DEF Driver!REPLACE, Driver!CodeLimit
<1>5. (w % Driver!CodeLimit) - (w % 4) = q
  BY SMT, <1>1, <1>4 DEF Driver!CodeLimit
<1>6. CASE r = 1
  <2>1. Driver!Stops(w) = {q} /\ HalfwordOf(w) = q
    BY SMT, <1>4, <1>5, <1>6 DEF Driver!Stops, HalfwordOf
  <2>2. QED
    BY <2>1, <1>3, <1>4, <1>6 DEF w
<1>7. CASE r = 2
  <2>1. Driver!Stops(w) = {q + 2} /\ HalfwordOf(w) = q + 2
    BY SMT, <1>4, <1>5, <1>7 DEF Driver!Stops, HalfwordOf
  <2>2. QED
    BY <2>1, <1>3, <1>4, <1>7 DEF w
<1>8. QED
  BY <1>2, <1>6, <1>7

-----------------------------------------------------------------------------
(* The invariant.                                                          *)

\* FP_CTRL keeps what the unit implements, and a comparator that is on was set
\* by fpb_set_breakpoint, for which it must be a code comparator.
UnitInv ==
    /\ FP_CTRL = Driver!Implemented \/ FP_CTRL = Driver!Implemented + 1
    /\ FP_COMP \in [Driver!Comparators -> Nat]
    /\ \A id \in Driver!Comparators :
           \/ FP_COMP[id] % 2 = 0
           \/ /\ Revision = 0 /\ id < NumCode
              /\ \E a \in Nat : a < Driver!CodeLimit /\ FP_COMP[id] = Driver!CompWord(a)

\* Writing KEY and ENABLE changes ENABLE alone (fpb.c:43-49).
LEMMA WritingCtrl ==
    ASSUME Driver!UnitAssumption, UnitInv, NEW b \in 0 .. 1,
           Driver!WriteCtrl(FP_CTRL - (FP_CTRL % 4) + 2 + b)
    PROVE  FP_CTRL' = Driver!Implemented + b
<1>1. /\ Driver!Implemented \in Nat /\ Driver!Implemented % 16 = 0
      /\ FP_CTRL = Driver!Implemented \/ FP_CTRL = Driver!Implemented + 1
  BY ConfigOfUnit DEF UnitInv
<1> DEFINE w == FP_CTRL - (FP_CTRL % 4) + 2 + b
<1>2. FP_CTRL - (FP_CTRL % 4) = Driver!Implemented /\ FP_CTRL - (FP_CTRL % 2) = Driver!Implemented
  BY SMT, <1>1
<1>3. (w \div 2) % 2 = 1 /\ w % 2 = b
  <2>1. w = Driver!Implemented + 2 + b
    BY <1>2
  <2> HIDE DEF w
  <2>2. CASE b = 0
    BY SMT, <1>1, <2>1, <2>2
  <2>3. CASE b = 1
    BY SMT, <1>1, <2>1, <2>3
  <2>4. QED
    BY SMT, <2>2, <2>3
<1>4. QED
  BY SMT, <1>2, <1>3 DEF Driver!WriteCtrl

\* The driver enables and disables the unit.
LEMMA Switching ==
    ASSUME Driver!UnitAssumption, UnitInv
    PROVE  /\ Driver!fpb_enable =>
                  FP_CTRL' = Driver!Implemented + 1 /\ UNCHANGED <<FP_COMP, result>>
           /\ Driver!fpb_disable => FP_CTRL' = Driver!Implemented /\ UNCHANGED <<FP_COMP, result>>
<1>1. Driver!Implemented \in Nat /\ FP_CTRL \in Nat
  BY SMT, ConfigOfUnit DEF UnitInv
<1>2. /\ FP_CTRL - (FP_CTRL % 4) + 2 + 1 = FP_CTRL - (FP_CTRL % 4) + 3
      /\ FP_CTRL - (FP_CTRL % 4) + 2 + 0 = FP_CTRL - (FP_CTRL % 4) + 2
      /\ Driver!Implemented + 0 = Driver!Implemented /\ 0 \in 0 .. 1 /\ 1 \in 0 .. 1
  BY SMT, <1>1
<1>3. Driver!fpb_enable => FP_CTRL' = Driver!Implemented + 1
  BY Zenon, <1>2, WritingCtrl DEF Driver!fpb_enable
<1>4. Driver!fpb_disable => FP_CTRL' = Driver!Implemented
  BY Zenon, <1>2, WritingCtrl DEF Driver!fpb_disable
<1>5. QED
  BY <1>3, <1>4 DEF Driver!fpb_enable, Driver!fpb_disable

\* A call refuses and leaves the registers, or sets one comparator and turns the
\* unit on (fpb.c:68-97).
LEMMA SettingBreakpoint ==
    ASSUME Driver!UnitAssumption, UnitInv, NEW id \in Ids, NEW addr \in Addresses,
           Driver!fpb_set_breakpoint(id, addr)
    PROVE  \/ /\ Revision # 0 \/ id >= NumCode \/ addr >= Driver!CodeLimit
              /\ Driver!Refuse(id, addr)
           \/ /\ Revision = 0 /\ ~(id >= NumCode) /\ ~(addr >= Driver!CodeLimit)
              /\ FP_CTRL' = Driver!Implemented + 1
              /\ FP_COMP' = [FP_COMP EXCEPT ![id] = Driver!CompWord(addr)]
              /\ result' = <<id, addr, TRUE>>
<1>1. /\ Driver!fpb_get_config.revision = Revision
      /\ Driver!fpb_get_config.num_code_comparators = NumCode
      /\ Driver!fpb_get_config.enabled <=> FP_CTRL = Driver!Implemented + 1
  BY ConfigOfUnit DEF UnitInv
<1>2. CASE Driver!fpb_get_config.revision # 0 \/ id >= Driver!fpb_get_config.num_code_comparators
             \/ addr >= Driver!CodeLimit
  BY Zenon, <1>1, <1>2 DEF Driver!fpb_set_breakpoint
<1>3. CASE ~(Driver!fpb_get_config.revision # 0 \/ id >= Driver!fpb_get_config.num_code_comparators
             \/ addr >= Driver!CodeLimit)
  <2>1. /\ IF Driver!fpb_get_config.enabled THEN UNCHANGED FP_CTRL
           ELSE Driver!WriteCtrl(FP_CTRL - (FP_CTRL % 4) + 3)
        /\ FP_COMP' = [FP_COMP EXCEPT ![id] = Driver!CompWord(addr)]
        /\ result' = <<id, addr, TRUE>>
    BY Zenon, <1>3 DEF Driver!fpb_set_breakpoint
  <2>2. Driver!WriteCtrl(FP_CTRL - (FP_CTRL % 4) + 3) => FP_CTRL' = Driver!Implemented + 1
    <3>1. FP_CTRL \in Nat
      BY SMT, ConfigOfUnit DEF UnitInv
    <3>2. FP_CTRL - (FP_CTRL % 4) + 2 + 1 = FP_CTRL - (FP_CTRL % 4) + 3 /\ 1 \in 0 .. 1
      BY SMT, <3>1
    <3>3. QED
      BY Zenon, <3>2, WritingCtrl
  <2>3. QED
    BY Zenon, <1>1, <1>3, <2>1, <2>2
<1>4. QED
  BY <1>2, <1>3

\* The invariant holds in every reachable state of every unit.
LEMMA UnitInvariant ==
    ASSUME Driver!UnitAssumption PROVE Driver!Spec => []UnitInv
<1>1. Driver!Init => UnitInv
  <2> SUFFICES ASSUME Driver!Init PROVE UnitInv
    OBVIOUS
  <2>1. FP_COMP \in [Driver!Comparators -> {w \in Nat : w % 2 = 0}]
    BY DEF Driver!Init
  <2>2. /\ FP_COMP \in [Driver!Comparators -> Nat]
        /\ \A id \in Driver!Comparators : FP_COMP[id] % 2 = 0
    BY SMT, <2>1
  <2>3. QED
    BY Zenon, <2>2 DEF Driver!Init, UnitInv
<1>2. UnitInv /\ [Driver!Next]_(Driver!vars) => UnitInv'
  <2> SUFFICES ASSUME UnitInv, [Driver!Next]_(Driver!vars) PROVE UnitInv'
    OBVIOUS
  <2>1. CASE Driver!fpb_enable \/ Driver!fpb_disable
    <3>1. /\ FP_CTRL' = Driver!Implemented \/ FP_CTRL' = Driver!Implemented + 1
          /\ FP_COMP' = FP_COMP
      BY <2>1, Switching
    <3>2. QED
      BY Zenon, <3>1 DEF UnitInv
  <2>2. ASSUME NEW id \in Ids, NEW addr \in Addresses, Driver!fpb_set_breakpoint(id, addr)
        PROVE  UnitInv'
    <3>1. CASE Driver!Refuse(id, addr)
      BY Zenon, <3>1 DEF Driver!Refuse, UnitInv
    <3>2. CASE /\ Revision = 0 /\ ~(id >= NumCode) /\ ~(addr >= Driver!CodeLimit)
               /\ FP_CTRL' = Driver!Implemented + 1
               /\ FP_COMP' = [FP_COMP EXCEPT ![id] = Driver!CompWord(addr)]
      <4>1. /\ id \in Nat /\ addr \in Nat /\ addr < Driver!CodeLimit
            /\ id < NumCode /\ id \in Driver!Comparators
        BY SMT, <3>2 DEF Driver!UnitAssumption, Driver!Comparators, Driver!CodeLimit
      <4>2. Driver!CompWord(addr) \in Nat
        BY <4>1, StopsAtAddress
      <4>3. FP_COMP' \in [Driver!Comparators -> Nat]
        BY Zenon, <3>2, <4>2 DEF UnitInv
      <4>4. ASSUME NEW k \in Driver!Comparators
            PROVE  \/ FP_COMP'[k] % 2 = 0
                   \/ /\ Revision = 0 /\ k < NumCode
                      /\ \E a \in Nat : a < Driver!CodeLimit /\ FP_COMP'[k] = Driver!CompWord(a)
        <5>1. FP_COMP'[k] = IF k = id THEN Driver!CompWord(addr) ELSE FP_COMP[k]
          BY Zenon, <3>2, <4>1 DEF UnitInv
        <5>2. QED
          BY Zenon, <5>1, <4>1, <3>2 DEF UnitInv
      <4>5. QED
        BY Zenon, <3>2, <4>3, <4>4 DEF UnitInv
    <3>3. QED
      BY Zenon, <2>2, <3>1, <3>2, SettingBreakpoint
  <2>3. CASE UNCHANGED Driver!vars
    BY Zenon, <2>3 DEF Driver!vars, UnitInv
  <2>4. QED
    BY <2>1, <2>2, <2>3 DEF Driver!Next
<1>3. QED
  BY <1>1, <1>2, PTL DEF Driver!Spec
-----------------------------------------------------------------------------
(* What the driver reports.                                                *)

\* What the driver reports and prints of a comparator is what the unit does, in
\* every unit and after any calls (fpb.c:27-35, 93-94, 113-120).
THEOREM ReportTrue ==
    ASSUME Driver!UnitAssumption PROVE Driver!Spec => []Driver!ReportIsTrue
<1>1. UnitInv => Driver!ReportIsTrue
  <2> SUFFICES ASSUME UnitInv PROVE Driver!ReportIsTrue
    OBVIOUS
  <2>1. /\ Driver!fpb_get_config.revision = Revision
        /\ Driver!fpb_get_config.num_code_comparators = NumCode
        /\ Driver!fpb_get_config.num_literal_comparators = NumLit
    BY ConfigOfUnit DEF UnitInv
  <2>2. ASSUME NEW id \in Driver!Comparators PROVE Driver!IsTrue(Driver!fpb_get_comp_config(id), id)
    <3> DEFINE w == FP_COMP[id]
    <3>1. w \in Nat
      BY DEF UnitInv
    <3>2. Driver!fpb_get_comp_config(id).enabled <=> w % 2 # 0
      BY Zenon DEF Driver!fpb_get_comp_config
    <3>3. Driver!fpb_get_comp_config(id).address = HalfwordOf(w)
      BY SMT DEF Driver!fpb_get_comp_config, HalfwordOf
    <3>4. CASE w % 2 = 0
      BY Zenon, <3>2, <3>4 DEF Driver!IsTrue, Driver!Stops
    <3>5. CASE w % 2 # 0
      <4>1. PICK a \in Nat : a < Driver!CodeLimit /\ w = Driver!CompWord(a)
        BY <3>5 DEF UnitInv
      <4>2. Driver!Stops(w) = {a - (a % 2)} /\ HalfwordOf(w) = a - (a % 2)
        BY <4>1, StopsAtAddress
      <4>3. QED
        BY Zenon, <3>2, <3>3, <3>5, <4>2 DEF Driver!IsTrue
    <3>6. QED
      BY <3>4, <3>5
  <2>3. ASSUME NEW id \in Ids, Driver!IsReadable(id)
        PROVE  Driver!IsTrue(Driver!fpb_get_comp_config(id), id)
    <3>1. id \in Driver!Comparators
      BY SMT, <2>1, <2>3 DEF Driver!IsReadable, Driver!Comparators, Driver!UnitAssumption
    <3>2. QED
      BY <3>1, <2>2
  <2>4. ASSUME NEW id \in DOMAIN FP_COMP, Driver!Stops(FP_COMP[id]) # {}
        PROVE  /\ id \in DOMAIN Driver!fpb_dump_breakpoint_config
               /\ Driver!IsTrue(Driver!fpb_dump_breakpoint_config[id], id)
    <3>1. id \in Driver!Comparators
      BY DEF UnitInv
    <3>2. id < NumCode
      BY Zenon, <2>4, <3>1 DEF UnitInv, Driver!Stops
    <3>3. id \in 0 .. NumCode - 1
      BY SMT, <3>1, <3>2 DEF Driver!Comparators, Driver!UnitAssumption
    <3>4. QED
      BY Zenon, <2>1, <2>2, <3>1, <3>3 DEF Driver!fpb_dump_breakpoint_config
  <2>5. QED
    BY Zenon, <2>3, <2>4 DEF Driver!ReportIsTrue
<1>2. QED
  BY <1>1, UnitInvariant, PTL
-----------------------------------------------------------------------------
(* The registers are a table of breakpoints.                               *)

\* The table's entry of a comparator that is off, and of one that is set.
LEMMA WhereOfWord ==
    /\ \A w : w % 2 = 0 => Driver!Where(w) = None
    /\ \A a \in Nat : a < Driver!CodeLimit => Driver!Where(Driver!CompWord(a)) = a - (a % 2)
<1>1. ASSUME NEW w, w % 2 = 0 PROVE Driver!Where(w) = None
  BY Zenon, <1>1 DEF Driver!Where, Driver!Stops
<1>2. ASSUME NEW a \in Nat, a < Driver!CodeLimit
      PROVE  Driver!Where(Driver!CompWord(a)) = a - (a % 2)
  <2>1. Driver!Stops(Driver!CompWord(a)) = {a - (a % 2)}
    BY <1>2, StopsAtAddress
  <2>2. QED
    BY Zenon, <2>1 DEF Driver!Where
<1>3. QED
  BY Zenon, <1>1, <1>2

\* The code comparators of a unit of revision 0 are its table.
LEMMA SettableIds ==
    ASSUME Driver!UnitAssumption
    PROVE  /\ Driver!Settable \in Nat /\ 0 .. Driver!Settable - 1 \subseteq Driver!Comparators
           /\ \A id \in Ids : /\ id < Driver!Settable <=> Revision = 0 /\ ~(id >= NumCode)
                              /\ id >= Driver!Settable <=> Revision # 0 \/ id >= NumCode
                              /\ id < Driver!Settable => id \in 0 .. Driver!Settable - 1
<1>1. NumCode \in Nat /\ NumLit \in Nat /\ Ids \subseteq Nat
  BY SMT DEF Driver!UnitAssumption
<1>2. CASE Revision = 0
  BY SMT, <1>1, <1>2 DEF Driver!Settable, Driver!Comparators
<1>3. CASE Revision # 0
  BY SMT, <1>1, <1>3 DEF Driver!Settable, Driver!Comparators
<1>4. QED
  BY <1>2, <1>3

\* The driver implements the table: every call moves one breakpoint and turns
\* the unit on, or changes nothing, or switches all of them, and disturbs
\* nothing else (fpb.c:43-97).
THEOREM DriverIsTable ==
    ASSUME Driver!UnitAssumption PROVE Driver!Spec => Driver!TableSpec
<1> DEFINE table == [id \in 0 .. Driver!Settable - 1 |-> Driver!Where(FP_COMP[id])]
<1>1. Driver!Init => Driver!Table!Init
  <2> SUFFICES ASSUME Driver!Init PROVE Driver!Table!Init
    OBVIOUS
  <2>1. FP_COMP \in [Driver!Comparators -> {w \in Nat : w % 2 = 0}]
    BY DEF Driver!Init
  <2>2. \A id \in Driver!Comparators : FP_COMP[id] % 2 = 0
    BY SMT, <2>1
  <2>3. \A id \in 0 .. Driver!Settable - 1 : Driver!Where(FP_COMP[id]) = None
    BY Zenon, <2>2, SettableIds, WhereOfWord
  <2>4. table = [id \in 0 .. Driver!Settable - 1 |-> None]
    BY Zenon, <2>3
  <2>5. ~(FP_CTRL % 2 = 1)
    BY SMT, ConfigOfUnit DEF Driver!Init
  <2>6. (FP_CTRL % 2 = 1) = FALSE
    BY Zenon, <2>5
  <2>7. QED
    BY Zenon, <2>4, <2>6 DEF Driver!Table!Init, Driver!Init
<1>2. UnitInv /\ [Driver!Next]_(Driver!vars) => [Driver!Table!Next]_(Driver!Table!vars)
  <2> SUFFICES ASSUME UnitInv, [Driver!Next]_(Driver!vars) PROVE [Driver!Table!Next]_(Driver!Table!vars)
    OBVIOUS
  <2>1. Driver!Implemented \in Nat /\ Driver!Implemented % 2 = 0 /\ (Driver!Implemented + 1) % 2 = 1
    BY SMT, ConfigOfUnit DEF UnitInv
  <2>2. ASSUME FP_COMP' = FP_COMP PROVE table' = table
    BY Zenon, <2>2
  <2>3. CASE Driver!fpb_enable
    <3>1. FP_CTRL' % 2 = 1 /\ UNCHANGED <<FP_COMP, result>>
      BY <2>1, <2>3, Switching
    <3>2. (FP_CTRL' % 2 = 1) = TRUE
      BY Zenon, <3>1
    <3>3. Driver!Table!Switch(TRUE)
      BY Zenon, <3>1, <3>2, <2>2 DEF Driver!Table!Switch
    <3>4. QED
      BY Zenon, <3>3 DEF Driver!Table!Next
  <2>4. CASE Driver!fpb_disable
    <3>1. ~(FP_CTRL' % 2 = 1) /\ UNCHANGED <<FP_COMP, result>>
      BY SMT, <2>1, <2>4, Switching
    <3>2. (FP_CTRL' % 2 = 1) = FALSE
      BY Zenon, <3>1
    <3>3. Driver!Table!Switch(FALSE)
      BY Zenon, <3>1, <3>2, <2>2 DEF Driver!Table!Switch
    <3>4. QED
      BY Zenon, <3>3 DEF Driver!Table!Next
  <2>5. ASSUME NEW id \in Ids, NEW addr \in Addresses, Driver!fpb_set_breakpoint(id, addr)
        PROVE  Driver!Table!Set(id, addr) \/ Driver!Table!Refuse(id, addr)
    <3>1. CASE /\ Revision # 0 \/ id >= NumCode \/ addr >= Driver!CodeLimit
               /\ Driver!Refuse(id, addr)
      <4>1. id >= Driver!Settable \/ addr >= Driver!CodeLimit
        BY Zenon, <3>1, SettableIds
      <4>2. FP_COMP' = FP_COMP /\ FP_CTRL' = FP_CTRL /\ result' = <<id, addr, FALSE>>
        BY Zenon, <3>1 DEF Driver!Refuse
      <4>3. QED
        BY Zenon, <4>1, <4>2, <2>2 DEF Driver!Table!Refuse
    <3>2. CASE /\ Revision = 0 /\ ~(id >= NumCode) /\ ~(addr >= Driver!CodeLimit)
               /\ FP_CTRL' = Driver!Implemented + 1
               /\ FP_COMP' = [FP_COMP EXCEPT ![id] = Driver!CompWord(addr)]
               /\ result' = <<id, addr, TRUE>>
      <4>1. id < Driver!Settable /\ id \in 0 .. Driver!Settable - 1
        BY Zenon, <3>2, SettableIds
      <4>2. addr \in Nat /\ addr < Driver!CodeLimit
        BY SMT, <3>2 DEF Driver!UnitAssumption, Driver!CodeLimit
      <4>3. ASSUME NEW k \in 0 .. Driver!Settable - 1
            PROVE  Driver!Where(FP_COMP'[k]) = IF k = id THEN addr - (addr % 2) ELSE table[k]
        <5>1. k \in Driver!Comparators
          BY Zenon, SettableIds
        <5>2. FP_COMP'[k] = IF k = id THEN Driver!CompWord(addr) ELSE FP_COMP[k]
          BY Zenon, <3>2, <5>1 DEF UnitInv
        <5>3. QED
          BY Zenon, <5>2, <4>2, WhereOfWord
      <4>4. table' = [table EXCEPT ![id] = addr - (addr % 2)]
        BY Zenon, <4>3
      <4>5. (FP_CTRL' % 2 = 1) = TRUE
        BY Zenon, <3>2, <2>1
      <4>6. QED
        BY Zenon, <4>1, <4>2, <4>4, <4>5, <3>2 DEF Driver!Table!Set
    <3>3. QED
      BY Zenon, <2>5, <3>1, <3>2, SettingBreakpoint
  <2>6. CASE UNCHANGED Driver!vars
    BY Zenon, <2>6, <2>2 DEF Driver!vars, Driver!Table!vars
  <2>7. QED
    BY <2>3, <2>4, <2>5, <2>6 DEF Driver!Next, Driver!Table!Next
<1>3. QED
  BY <1>1, <1>2, UnitInvariant, PTL DEF Driver!Spec, Driver!TableSpec, Driver!Table!Spec
=============================================================================
