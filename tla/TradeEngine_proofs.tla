------------------------- MODULE TradeEngine_proofs -------------------------
(***************************************************************************)
(* The positions and the quotes of the trade engine are right for every    *)
(* number of instruments, all prices and quantities and any order of       *)
(* fills, updates and trades.                                              *)
(***************************************************************************)
EXTENDS TradeEngine, NaturalsInduction, WellFoundedInduction, TLAPS

----------------------------------------------------------------------------
(* Fractions.                                                              *)

Positive == Nat \ {0}

\* The fraction a is n/d.
Is(a, n, d) == a.num * d = n * a.den

\* In lowest terms: no smaller number has a whole multiple of it.
Lowest(a) == \A k \in Positive, q \in Int : a.num * k = q * a.den => a.den <= k
IsFraction(a) == a \in [num : Int, den : Positive] /\ Lowest(a)

(* A non-empty set of naturals has a least element.                        *)
LEMMA LeastNatural ==
    ASSUME NEW T \in SUBSET Nat, T # {}
    PROVE  \E n \in T : \A m \in T : n <= m
<1>1. PICK n \in T : \A m \in T : ~(<<m, n>> \in OpToRel(<, Nat))
  BY NatLessThanWellFounded, WFMin, Zenon
<1>2. \A m \in T : <<m, n>> \in OpToRel(<, Nat) <=> m < n
  BY DEF OpToRel
<1>3. \A m \in T : ~(m < n)
  BY <1>1, <1>2, Zenon
<1>4. \A m \in T : n <= m
  BY <1>3, SMT
<1> QED BY <1>4, Zenon

(* Min finds it.                                                           *)
LEMMA MinIs ==
    ASSUME NEW T \in SUBSET Nat, T # {}
    PROVE  Min(T) \in T /\ \A m \in T : Min(T) <= m
<1>1. \E x \in T : \A y \in T : x =< y
  BY LeastNatural
<1> QED BY <1>1, Zenon DEF Min

(* A common factor cancels.                                                *)
LEMMA Cancel ==
    ASSUME NEW x \in Int, NEW y \in Int, NEW k \in Positive, x * k = y * k
    PROVE  x = y
BY DEF Positive

(* What Fraction gives is the quotient, in lowest terms.                   *)
LEMMA FractionIs ==
    ASSUME NEW n \in Int, NEW d \in Positive
    PROVE  IsFraction(Fraction(n, d)) /\ Is(Fraction(n, d), n, d)
<1> DEFINE S == { j \in 1 .. d : (n * j) % d = 0 }
<1>1. d \in S
  <2>1. (n * d) % d = 0
    BY DEF Positive
  <2> QED BY <2>1 DEF Positive
<1>2. S \in SUBSET Nat /\ S # {}
  BY <1>1
<1>3. Fraction(n, d) = [num |-> (n * Min(S)) \div d, den |-> Min(S)]
  BY Zenon DEF Fraction
<1> HIDE DEF S
<1>4. PICK k : k = Min(S)
  OBVIOUS
<1>5. k \in S /\ \A m \in S : k <= m
  BY <1>2, <1>4, MinIs
<1>6. k \in 1 .. d /\ (n * k) % d = 0
  BY <1>5 DEF S
<1>7. PICK q \in Int : q = (n * k) \div d /\ n * k = q * d
  <2>1. PICK x \in Int : x = n * k
    BY <1>6 DEF Positive
  <2>2. x = d * (x \div d) + (x % d) /\ x \div d \in Int
    BY DEF Positive
  <2>3. x % d = 0
    BY <1>6, <2>1
  <2>4. x = (x \div d) * d
    BY <2>2, <2>3 DEF Positive
  <2> QED BY <2>1, <2>2, <2>4
<1>8. Fraction(n, d) = [num |-> q, den |-> k]
  BY <1>3, <1>4, <1>7
<1>9. ASSUME NEW j \in Positive, NEW r \in Int, q * j = r * k PROVE k <= j
  <2> SUFFICES ASSUME j < k PROVE FALSE
    BY <1>6, <1>9 DEF Positive
  <2>1. (n * j) * k = (r * d) * k
    <3>1. (n * j) * k = (n * k) * j
      BY <1>6 DEF Positive
    <3>2. (n * k) * j = (q * j) * d
      BY <1>7 DEF Positive
    <3>3. (r * k) * d = (r * d) * k
      BY <1>6 DEF Positive
    <3> QED BY <1>9, <3>1, <3>2, <3>3
  <2>2. n * j \in Int /\ r * d \in Int /\ k \in Positive
    BY <1>6 DEF Positive
  <2>3. n * j = r * d
    BY <2>1, <2>2, Cancel
  <2>4. (n * j) % d = 0
    <3>1. (r * d) % d = 0
      BY DEF Positive
    <3> QED BY <2>3, <3>1
  <2>5. j \in S
    BY <1>6, <2>4 DEF S, Positive
  <2> QED BY <1>5, <1>6, <2>5 DEF Positive
<1>10. IsFraction([num |-> q, den |-> k])
  <2>1. [num |-> q, den |-> k] \in [num : Int, den : Positive]
    BY <1>6 DEF Positive
  <2>2. Lowest([num |-> q, den |-> k])
    BY <1>9 DEF Lowest
  <2> QED BY <2>1, <2>2 DEF IsFraction
<1>11. Is([num |-> q, den |-> k], n, d)
  BY <1>7 DEF Is
<1> QED BY <1>8, <1>10, <1>11

(* A quotient has one fraction.                                            *)
LEMMA FractionUnique ==
    ASSUME NEW a, NEW b, IsFraction(a), IsFraction(b), NEW n \in Int, NEW d \in Positive,
           Is(a, n, d), Is(b, n, d)
    PROVE  a = b
<1>1. PICK p \in Int, s \in Positive : p = a.num /\ s = a.den
  BY DEF IsFraction
<1>2. PICK q \in Int, t \in Positive : q = b.num /\ t = b.den
  BY DEF IsFraction
<1>3. p * d = n * s /\ q * d = n * t
  BY <1>1, <1>2 DEF Is
<1>4. p * t = q * s
  <2>1. (p * t) * d = (q * s) * d
    <3>1. (p * t) * d = (p * d) * t
      BY DEF Positive
    <3>2. (n * s) * t = (n * t) * s
      BY DEF Positive
    <3>3. (q * d) * s = (q * s) * d
      BY DEF Positive
    <3> QED BY <1>3, <3>1, <3>2, <3>3
  <2>2. p * t \in Int /\ q * s \in Int
    BY DEF Positive
  <2> QED BY <2>1, <2>2, Cancel
<1>5. s <= t
  BY <1>1, <1>2, <1>4 DEF IsFraction, Lowest
<1>6. t <= s
  BY <1>1, <1>2, <1>4 DEF IsFraction, Lowest
<1>7. s = t
  BY <1>5, <1>6 DEF Positive
<1>8. p = q
  BY <1>4, <1>7, Cancel
<1>9. a = [num |-> p, den |-> s] /\ b = [num |-> q, den |-> t]
  BY <1>1, <1>2 DEF IsFraction
<1> QED BY <1>7, <1>8, <1>9

(* Two integers that a quotient relates, for a fraction in lowest terms.   *)
LEMMA FractionParts ==
    ASSUME NEW a, IsFraction(a)
    PROVE  a.num \in Int /\ a.den \in Positive /\ Is(a, a.num, a.den)
BY DEF IsFraction, Is, Positive

(* An integer is a fraction, over any denominator.                         *)
LEMMA WholeIs ==
    ASSUME NEW n \in Int, NEW d \in Positive
    PROVE  IsFraction(Whole(n)) /\ Is(Whole(n), n * d, d)
<1>1. Whole(n) = [num |-> n, den |-> 1]
  BY DEF Whole
<1>2. Lowest(Whole(n))
  BY <1>1 DEF Lowest, Positive
<1> QED BY <1>1, <1>2 DEF IsFraction, Is, Positive

(* A quotient may be extended and reduced.                                 *)
LEMMA Extended ==
    ASSUME NEW a, IsFraction(a), NEW n \in Int, NEW d \in Positive, NEW k \in Positive
    PROVE  Is(a, n, d) <=> Is(a, n * k, d * k)
<1>1. PICK p \in Int, s \in Positive : p = a.num /\ s = a.den
  BY DEF IsFraction
<1>2. p * (d * k) = (p * d) * k /\ (n * k) * s = (n * s) * k
  BY DEF Positive
<1>3. p * d \in Int /\ n * s \in Int
  BY DEF Positive
<1>4. p * d = n * s <=> (p * d) * k = (n * s) * k
  BY <1>3, Cancel
<1> QED BY <1>1, <1>2, <1>4 DEF Is

(* A fraction that is the quotient p/s and also n/d.                       *)
LEMMA Transitive ==
    ASSUME NEW f, IsFraction(f), NEW p \in Int, NEW s \in Positive, Is(f, p, s),
           NEW n \in Int, NEW d \in Positive, p * d = n * s
    PROVE  Is(f, n, d)
<1>1. PICK u \in Int, v \in Positive : u = f.num /\ v = f.den
  BY DEF IsFraction
<1>2. u * s = p * v
  BY <1>1 DEF Is
<1>3. (u * d) * s = (n * v) * s
  <2>1. (u * d) * s = (u * s) * d
    BY DEF Positive
  <2>2. (p * v) * d = (p * d) * v
    BY DEF Positive
  <2>3. (n * s) * v = (n * v) * s
    BY DEF Positive
  <2> QED BY <1>2, <2>1, <2>2, <2>3
<1>4. u * d \in Int /\ n * v \in Int
  BY DEF Positive
<1>5. u * d = n * v
  BY <1>3, <1>4, Cancel
<1> QED BY <1>1, <1>5 DEF Is

(* Fractions with a common denominator are added.                          *)
LEMMA PlusIs ==
    ASSUME NEW a, NEW b, IsFraction(a), IsFraction(b), NEW n \in Int, NEW m \in Int,
           NEW d \in Positive, Is(a, n, d), Is(b, m, d)
    PROVE  IsFraction(Plus(a, b)) /\ Is(Plus(a, b), n + m, d)
<1>1. PICK p \in Int, s \in Positive : p = a.num /\ s = a.den
  BY DEF IsFraction
<1>2. PICK q \in Int, t \in Positive : q = b.num /\ t = b.den
  BY DEF IsFraction
<1>3. p * d = n * s /\ q * d = m * t
  BY <1>1, <1>2 DEF Is
<1>4. PICK x \in Int, y \in Positive : x = p * t + q * s /\ y = s * t
  BY DEF Positive
<1>5. Plus(a, b) = Fraction(x, y)
  BY <1>1, <1>2, <1>4 DEF Plus
<1>6. x * d = (n + m) * y
  <2>1. (p * t + q * s) * d = (p * d) * t + (q * d) * s
    BY DEF Positive
  <2>2. (n * s) * t + (m * t) * s = (n + m) * (s * t)
    BY DEF Positive
  <2> QED BY <1>3, <1>4, <2>1, <2>2
<1>7. IsFraction(Fraction(x, y)) /\ Is(Fraction(x, y), x, y)
  BY FractionIs
<1>8. Is(Fraction(x, y), n + m, d)
  BY <1>6, <1>7, Transitive
<1> QED BY <1>5, <1>7, <1>8

(* And subtracted.                                                         *)
LEMMA MinusIs ==
    ASSUME NEW a, NEW b, IsFraction(a), IsFraction(b), NEW n \in Int, NEW m \in Int,
           NEW d \in Positive, Is(a, n, d), Is(b, m, d)
    PROVE  IsFraction(Minus(a, b)) /\ Is(Minus(a, b), n - m, d)
<1>1. PICK p \in Int, s \in Positive : p = a.num /\ s = a.den
  BY DEF IsFraction
<1>2. PICK q \in Int, t \in Positive : q = b.num /\ t = b.den
  BY DEF IsFraction
<1>3. p * d = n * s /\ q * d = m * t
  BY <1>1, <1>2 DEF Is
<1>4. PICK x \in Int, y \in Positive : x = p * t - q * s /\ y = s * t
  BY DEF Positive
<1>5. Minus(a, b) = Fraction(x, y)
  BY <1>1, <1>2, <1>4 DEF Minus
<1>6. x * d = (n - m) * y
  <2>1. (p * t - q * s) * d = (p * d) * t - (q * d) * s
    BY DEF Positive
  <2>2. (n * s) * t - (m * t) * s = (n - m) * (s * t)
    BY DEF Positive
  <2> QED BY <1>3, <1>4, <2>1, <2>2
<1>7. IsFraction(Fraction(x, y)) /\ Is(Fraction(x, y), x, y)
  BY FractionIs
<1>8. Is(Fraction(x, y), n - m, d)
  BY <1>6, <1>7, Transitive
<1> QED BY <1>5, <1>7, <1>8

(* A fraction times an integer.                                            *)
LEMMA TimesIs ==
    ASSUME NEW a, IsFraction(a), NEW n \in Int, NEW d \in Positive, Is(a, n, d), NEW k \in Int
    PROVE  IsFraction(Times(a, k)) /\ Is(Times(a, k), n * k, d)
<1>1. PICK p \in Int, s \in Positive : p = a.num /\ s = a.den
  BY DEF IsFraction
<1>2. p * d = n * s
  BY <1>1 DEF Is
<1>3. PICK x \in Int : x = p * k
  OBVIOUS
<1>4. Times(a, k) = Fraction(x, s)
  BY <1>1, <1>3 DEF Times
<1>5. x * d = (n * k) * s
  <2>1. (p * k) * d = (p * d) * k /\ (n * s) * k = (n * k) * s
    BY DEF Positive
  <2> QED BY <1>2, <1>3, <2>1
<1>6. IsFraction(Fraction(x, s)) /\ Is(Fraction(x, s), x, s)
  BY FractionIs
<1>7. Is(Fraction(x, s), n * k, d)
  BY <1>5, <1>6, Transitive
<1> QED BY <1>4, <1>6, <1>7

(* A fraction divided by a positive integer.                               *)
LEMMA OverIs ==
    ASSUME NEW a, IsFraction(a), NEW n \in Int, NEW d \in Positive, Is(a, n, d), NEW k \in Positive
    PROVE  IsFraction(Over(a, k)) /\ Is(Over(a, k), n, d * k)
<1>1. PICK p \in Int, s \in Positive : p = a.num /\ s = a.den
  BY DEF IsFraction
<1>2. p * d = n * s
  BY <1>1 DEF Is
<1>3. PICK y \in Positive, e \in Positive : y = s * k /\ e = d * k
  BY DEF Positive
<1>4. Over(a, k) = Fraction(p, y)
  BY <1>1, <1>3 DEF Over
<1>5. p * e = n * y
  <2>1. p * (d * k) = (p * d) * k /\ (n * s) * k = n * (s * k)
    BY DEF Positive
  <2> QED BY <1>2, <1>3, <2>1
<1>6. IsFraction(Fraction(p, y)) /\ Is(Fraction(p, y), p, y)
  BY FractionIs
<1>7. Is(Fraction(p, y), n, e)
  BY <1>5, <1>6, Transitive
<1> QED BY <1>3, <1>4, <1>6, <1>7

(* Comparing with a whole number.                                          *)
LEMMA AtMostIs ==
    ASSUME NEW a, IsFraction(a), NEW n \in Int, NEW d \in Positive, Is(a, n, d), NEW t \in Int
    PROVE  /\ AtMost(Whole(t), a) <=> t * d <= n
           /\ AtMost(a, Whole(t)) <=> n <= t * d
<1>1. PICK p \in Int, s \in Positive : p = a.num /\ s = a.den
  BY DEF IsFraction
<1>2. p * d = n * s
  BY <1>1 DEF Is
<1>3. /\ AtMost(Whole(t), a) <=> t * s <= p
      /\ AtMost(a, Whole(t)) <=> p <= t * s
  BY <1>1 DEF AtMost, Whole, Positive
<1>4. PICK x \in Int, y \in Int : x = t * s /\ y = t * d
  BY DEF Positive
<1>5. x * d = y * s
  BY <1>4 DEF Positive
<1>6. x <= p <=> x * d <= p * d
  BY DEF Positive
<1>7. y <= n <=> y * s <= n * s
  BY DEF Positive
<1>8. p <= x <=> p * d <= x * d
  BY DEF Positive
<1>9. n <= y <=> n * s <= y * s
  BY DEF Positive
<1> QED BY <1>2, <1>3, <1>4, <1>5, <1>6, <1>7, <1>8, <1>9

----------------------------------------------------------------------------
(* A position in the direction of a side: q > 0 when it is that side's.    *)
(* The open sums of the side and of the other are x/d and y/d; one of them *)
(* is zero, and the other is between the lowest and the highest price for  *)
(* every piece held.                                                       *)

lowest == Min(Prices)
highest == Max(Prices)

Open(q, x, y, d) ==
    /\ q <= 0 => x = 0
    /\ q >= 0 => y = 0
    /\ q >= 0 => (lowest * q) * d <= x /\ x <= (highest * q) * d
    /\ q <= 0 => (lowest * (-q)) * d <= y /\ y <= (highest * (-q)) * d

(* Every price is between the lowest and the highest.                      *)
LEMMA PriceRange ==
    /\ lowest \in Nat /\ highest \in Nat
    /\ \A p \in Prices : p \in Nat /\ lowest <= p /\ p <= highest
<1>1. Prices \in SUBSET Nat /\ Prices # {}
  BY EngineAssumption
<1>2. lowest \in Prices /\ \A p \in Prices : lowest <= p
  BY <1>1, MinIs DEF lowest
<1>3. \E x \in Prices : \A y \in Prices : x >= y
  <2>1. PICK x \in Prices : \A y \in Prices : y <= x
    BY EngineAssumption
  <2>2. \A y \in Prices : x >= y
    BY <1>1, <2>1
  <2> QED BY <2>2
<1>4. highest \in Prices /\ \A p \in Prices : highest >= p
  BY <1>3, Zenon DEF highest, Max
<1>5. \A p \in Prices : p \in Nat
  BY <1>1
<1>6. \A p \in Prices : p <= highest
  BY <1>4, <1>5
<1> QED BY <1>2, <1>4, <1>5, <1>6

(* More of the same side.                                                  *)
LEMMA OpenMore ==
    ASSUME NEW q \in Nat, NEW x \in Int, NEW y \in Int, NEW d \in Positive, Open(q, x, y, d),
           NEW price \in Prices, NEW n \in Positive
    PROVE  Open(q + n, x + (price * n) * d, y, d) /\ y = 0
<1>1. PICK lo \in Nat, hi \in Nat, p \in Nat : lo = lowest /\ hi = highest /\ p = price
  BY PriceRange
<1>2. lo <= p /\ p <= hi
  BY <1>1, PriceRange
<1>3. y = 0 /\ (lo * q) * d <= x /\ x <= (hi * q) * d
  BY <1>1 DEF Open
<1>4. PICK m \in Nat : m = n * d
  BY DEF Positive
<1>5. lo * m <= p * m /\ p * m <= hi * m
  BY <1>2
<1>6. /\ (lo * (q + n)) * d = (lo * q) * d + lo * (n * d)
      /\ (hi * (q + n)) * d = (hi * q) * d + hi * (n * d)
      /\ (p * n) * d = p * (n * d)
  BY DEF Positive
<1>7. /\ (lo * (q + n)) * d <= x + (p * n) * d
      /\ x + (p * n) * d <= (hi * (q + n)) * d
  BY <1>3, <1>4, <1>5, <1>6 DEF Positive
<1>8. q + n > 0
  BY DEF Positive
<1> QED BY <1>1, <1>3, <1>7, <1>8 DEF Open, Positive

(* A position that a fill has just opened.                                 *)
LEMMA OpenNew ==
    ASSUME NEW q \in Positive, NEW d \in Positive, NEW price \in Prices
    PROVE  Open(q, (price * q) * d, 0, d)
<1>1. PICK lo \in Nat, hi \in Nat, p \in Nat : lo = lowest /\ hi = highest /\ p = price
  BY PriceRange
<1>2. lo <= p /\ p <= hi
  BY <1>1, PriceRange
<1>3. PICK m \in Nat : m = q * d
  BY DEF Positive
<1>4. lo * m <= p * m /\ p * m <= hi * m
  BY <1>2
<1>5. (lo * q) * d = lo * (q * d) /\ (p * q) * d = p * (q * d) /\ (hi * q) * d = hi * (q * d)
  BY DEF Positive
<1>6. (lo * q) * d <= (p * q) * d /\ (p * q) * d <= (hi * q) * d
  BY <1>3, <1>4, <1>5
<1>7. q > 0
  BY DEF Positive
<1> QED BY <1>1, <1>6, <1>7 DEF Open, Positive

(* Less of the other side, at its average.                                 *)
LEMMA OpenLess ==
    ASSUME NEW a \in Positive, NEW b \in Positive, NEW x \in Int, NEW y \in Int, NEW d \in Positive,
           Open(-a, x, y, d)
    PROVE  Open(-b, 0, y * b, d * a) /\ x = 0
<1>1. PICK lo \in Nat, hi \in Nat : lo = lowest /\ hi = highest
  BY PriceRange
<1>2. x = 0 /\ (lo * a) * d <= y /\ y <= (hi * a) * d
  <2>1. -a <= 0 /\ -(-a) = a
    BY DEF Positive
  <2> QED BY <1>1, <2>1 DEF Open
<1>3. PICK u \in Int, v \in Int : u = (lo * a) * d /\ v = (hi * a) * d
  BY DEF Positive
<1>4. u * b <= y * b /\ y * b <= v * b
  BY <1>2, <1>3 DEF Positive
<1>5. ((lo * a) * d) * b = (lo * b) * (d * a) /\ ((hi * a) * d) * b = (hi * b) * (d * a)
  BY DEF Positive
<1>6. (lo * b) * (d * a) <= y * b /\ y * b <= (hi * b) * (d * a)
  BY <1>3, <1>4, <1>5
<1>7. -b < 0 /\ -(-b) = b
  BY DEF Positive
<1> QED BY <1>1, <1>2, <1>6, <1>7 DEF Open, Positive

(* What a fill does to the realized profit, for the three ways of closing. *)
LEMMA ReduceSum ==
    ASSUME NEW c \in Int, NEW d \in Int, NEW a \in Int, NEW y \in Int, NEW p \in Int, NEW n \in Int,
           NEW s \in {1, -1}
    PROVE  (c * d + s * (0 - y)) * a + (y - p * (d * a)) * (n * s)
             = (c - (s * p) * n) * (d * a) + s * (0 - y * (a - n))
<1>1. CASE s = 1
  BY <1>1
<1>2. CASE s = -1
  BY <1>2
<1> QED BY <1>1, <1>2

(* The same when the fill closes the whole position and opens the other.   *)
LEMMA FlipSum ==
    ASSUME NEW c \in Int, NEW d \in Int, NEW a \in Int, NEW y \in Int, NEW p \in Int, NEW n \in Int,
           NEW s \in {1, -1}
    PROVE  (c * d + s * (0 - y)) * a + (y - p * (d * a)) * (a * s)
             = (c - (s * p) * n) * (d * a) + s * ((p * (n - a)) * (d * a) - 0)
<1>1. CASE s = 1
  BY <1>1
<1>2. CASE s = -1
  BY <1>2
<1> QED BY <1>1, <1>2

----------------------------------------------------------------------------
(* The account of one ticker, seen from a side: what is realized is the    *)
(* cash and what the open position cost.                                   *)

Sum(a, n, d) == IsFraction(a) /\ Is(a, n, d)

Account(side, pos, ov, real, c, x, y, r, d) ==
    /\ pos \in Int /\ c \in Int /\ x \in Int /\ y \in Int /\ r \in Int /\ d \in Positive
    /\ ov = [s \in Sides |-> ov[s]]
    /\ Sum(ov[side], x, d) /\ Sum(ov[Opposite(side)], y, d) /\ Sum(real, r, d)
    /\ Open(pos * sideToValue(side), x, y, d)
    /\ r = c * d + sideToValue(side) * (x - y)

Balanced(pos, ov, real, c) ==
    \E x, y, r, d : Account("BUY", pos, ov, real, c, x, y, r, d)

(* From the other side the same account looks the other way around.        *)
LEMMA BothSides ==
    ASSUME NEW side \in Sides, NEW pos, NEW ov, NEW real, NEW c, NEW x, NEW y, NEW r, NEW d,
           Account(side, pos, ov, real, c, x, y, r, d)
    PROVE  Account(Opposite(side), pos, ov, real, c, y, x, r, d)
<1>1. PICK p \in Int, e \in Positive, u \in Int, v \in Int, f \in Int, t \in Int :
         p = pos /\ e = d /\ u = x /\ v = y /\ f = c /\ t = r
  BY DEF Account
<1>2. PICK s \in {1, -1} : s = sideToValue(side)
  BY DEF sideToValue
<1>3. sideToValue(Opposite(side)) = -s /\ Opposite(Opposite(side)) = side
  BY <1>2 DEF sideToValue, Opposite, Sides
<1>4. Open(p * s, u, v, e) /\ t = f * e + s * (u - v)
  BY <1>1, <1>2 DEF Account
<1>5. PICK q \in Int : q = p * s
  OBVIOUS
<1>6. p * (-s) = -q
  BY <1>5
<1>7. Open(-q, v, u, e)
  <2>1. Open(q, u, v, e)
    BY <1>4, <1>5
  <2>2. -(-q) = q /\ (-q <= 0 <=> q >= 0) /\ (-q >= 0 <=> q <= 0)
    OBVIOUS
  <2> QED BY <2>1, <2>2 DEF Open
<1>8. t = f * e + (-s) * (v - u)
  <2>1. s * (u - v) = (-s) * (v - u)
    OBVIOUS
  <2> QED BY <1>4, <2>1
<1>9. /\ ov = [i \in Sides |-> ov[i]]
      /\ Sum(ov[side], x, d) /\ Sum(ov[Opposite(side)], y, d) /\ Sum(real, r, d)
  BY DEF Account
<1> QED BY <1>1, <1>3, <1>6, <1>7, <1>8, <1>9 DEF Account

(* A balanced account, from any side.                                      *)
LEMMA BalancedFrom ==
    ASSUME NEW side \in Sides, NEW pos, NEW ov, NEW real, NEW c
    PROVE  Balanced(pos, ov, real, c) <=>
             \E x, y, r, d : Account(side, pos, ov, real, c, x, y, r, d)
<1>1. CASE side = "BUY"
  BY <1>1 DEF Balanced
<1>2. CASE side = "SELL"
  <2>1. "BUY" \in Sides /\ "SELL" \in Sides /\ Opposite("BUY") = "SELL" /\ Opposite("SELL") = "BUY"
    BY DEF Sides, Opposite
  <2>2. ASSUME NEW x, NEW y, NEW r, NEW d, Account("BUY", pos, ov, real, c, x, y, r, d)
        PROVE  Account("SELL", pos, ov, real, c, y, x, r, d)
    BY <2>1, <2>2, BothSides
  <2>3. ASSUME NEW x, NEW y, NEW r, NEW d, Account("SELL", pos, ov, real, c, x, y, r, d)
        PROVE  Account("BUY", pos, ov, real, c, y, x, r, d)
    BY <2>1, <2>3, BothSides
  <2> QED BY <1>2, <2>2, <2>3 DEF Balanced
<1> QED BY <1>1, <1>2 DEF Sides

(* Zero, as a sum.                                                         *)
LEMMA ZeroSum ==
    ASSUME NEW d \in Positive
    PROVE  Sum(Whole(0), 0, d)
<1>1. IsFraction(Whole(0)) /\ Is(Whole(0), 0 * d, d)
  BY WholeIs
<1>2. 0 * d = 0
  BY DEF Positive
<1> QED BY <1>1, <1>2 DEF Sum

(* A fill of the position's own side, or of a flat position.               *)
LEMMA FillOpens ==
    ASSUME NEW old, NEW side \in Sides, NEW price \in Prices, NEW qty \in Positive, NEW c,
           NEW x, NEW y, NEW r, NEW d, NEW new, NEW sv, sv = sideToValue(side),
           Account(side, old.position, old.open_vwap, old.real_pnl, c, x, y, r, d),
           old.position * sv >= 0, new = old.position + sv * qty
    PROVE  Account(side, new, OpenVwap(old, side, price, qty),
                   Plus(old.real_pnl, Realized(old, side, price, qty)), c - sv * price * qty,
                   x + (price * qty) * d, 0, r, d)
<1>1. sv \in {1, -1}
  BY DEF sideToValue
<1>2. PICK p \in Nat : p = price
  BY PriceRange
<1>3. PICK pos \in Int : pos = old.position
  BY DEF Account
<1>4. d \in Positive /\ x \in Int /\ y \in Int /\ r \in Int /\ c \in Int
  BY DEF Account
<1>5. PICK q \in Nat : q = pos * sv
  BY <1>1, <1>3
<1>6. new * sv = q + qty /\ new \in Int /\ new # 0
  <2>1. CASE sv = 1
    BY <1>3, <1>5, <2>1 DEF Positive
  <2>2. CASE sv = -1
    BY <1>3, <1>5, <2>2 DEF Positive
  <2> QED BY <1>1, <2>1, <2>2
<1>7. Open(q, x, y, d)
  BY <1>3, <1>5 DEF Account
<1>8. Open(q + qty, x + (p * qty) * d, y, d) /\ y = 0
  BY <1>2, <1>4, <1>7, OpenMore
<1> DEFINE ov == old.open_vwap
           ov2 == OpenVwap(old, side, price, qty)
<1>9. ov2 = [ov EXCEPT ![side] = Plus(ov[side], Whole(p * qty))]
  BY <1>2, <1>6 DEF OpenVwap
<1>10. /\ ov = [s \in Sides |-> ov[s]]
       /\ Sum(ov[side], x, d) /\ Sum(ov[Opposite(side)], y, d) /\ Sum(old.real_pnl, r, d)
  BY DEF Account
<1>11. Opposite(side) # side /\ Opposite(side) \in Sides
  BY DEF Opposite, Sides
<1> HIDE DEF ov, ov2
<1>12. /\ ov2 = [s \in Sides |-> ov2[s]] /\ ov2[Opposite(side)] = ov[Opposite(side)]
       /\ ov2[side] = Plus(ov[side], Whole(p * qty))
  BY <1>9, <1>10, <1>11
<1>13. Sum(ov2[side], x + (p * qty) * d, d)
  <2>1. PICK m \in Int : m = p * qty
    BY DEF Positive
  <2>2. IsFraction(Whole(m)) /\ Is(Whole(m), m * d, d)
    BY <1>4, WholeIs
  <2>3. m * d \in Int
    BY <1>4 DEF Positive
  <2>4. IsFraction(Plus(ov[side], Whole(m))) /\ Is(Plus(ov[side], Whole(m)), x + m * d, d)
    BY <1>4, <1>10, <2>2, <2>3, PlusIs DEF Sum
  <2> QED BY <1>12, <2>1, <2>4 DEF Sum
<1>14. Sum(Plus(old.real_pnl, Realized(old, side, price, qty)), r, d)
  <2>1. Realized(old, side, price, qty) = Whole(0)
    BY DEF Realized
  <2>2. Sum(Whole(0), 0, d)
    BY <1>4, ZeroSum
  <2>3. /\ IsFraction(Plus(old.real_pnl, Whole(0))) /\ Is(Plus(old.real_pnl, Whole(0)), r + 0, d)
    BY <1>4, <1>10, <2>2, PlusIs DEF Sum
  <2>4. r + 0 = r
    BY <1>4
  <2> QED BY <2>1, <2>3, <2>4 DEF Sum
<1>15. r = (c - sv * p * qty) * d + sv * ((x + (p * qty) * d) - 0)
  <2>1. r = c * d + sv * (x - 0)
    BY <1>8 DEF Account
  <2>2. CASE sv = 1
    BY <1>4, <2>1, <2>2 DEF Positive
  <2>3. CASE sv = -1
    BY <1>4, <2>1, <2>3 DEF Positive
  <2> QED BY <1>1, <2>2, <2>3
<1>16. c - sv * p * qty \in Int /\ x + (p * qty) * d \in Int
  BY <1>1, <1>4 DEF Positive
<1>17. PICK c2 \in Int, x2 \in Int : c2 = c - sv * p * qty /\ x2 = x + (p * qty) * d
  BY <1>16
<1>18. PICK real2 : real2 = Plus(old.real_pnl, Realized(old, side, price, qty))
  OBVIOUS
<1>19. Account(side, new, ov2, real2, c2, x2, 0, r, d)
  <2>1. Open(new * sideToValue(side), x2, 0, d)
    BY <1>6, <1>8, <1>17
  <2>2. Sum(ov2[side], x2, d) /\ Sum(ov2[Opposite(side)], 0, d) /\ Sum(real2, r, d)
    BY <1>8, <1>10, <1>12, <1>13, <1>14, <1>17, <1>18
  <2>3. r = c2 * d + sideToValue(side) * (x2 - 0)
    <3>1. r = c2 * d + sv * (x2 - 0)
      <4>1. c2 * d = (c - sv * p * qty) * d
        BY ONLY <1>17, Zenon
      <4>2. sv * (x2 - 0) = sv * ((x + (p * qty) * d) - 0)
        BY ONLY <1>17, Zenon
      <4> QED BY ONLY <1>15, <4>1, <4>2, Zenon
    <3> QED BY ONLY <3>1, sv = sideToValue(side)
  <2> QED BY <1>4, <1>6, <1>12, <2>1, <2>2, <2>3 DEF Account
<1> QED BY ONLY <1>2, <1>17, <1>18, <1>19 DEF ov2

(* A fill of the other side, of which a part or all closes: what it        *)
(* realizes.  a is what was held, k what is closed.                        *)
LEMMA ClosedSum ==
    ASSUME NEW ov, NEW real, NEW p \in Int, NEW y \in Int, NEW r \in Int, NEW d \in Positive,
           NEW a \in Positive, NEW k \in Int, Sum(ov, y, d), Sum(real, r, d)
    PROVE  /\ Sum(Over(ov, a), y, d * a)
           /\ Sum(Plus(real, Times(Minus(Over(ov, a), Whole(p)), k)),
                  r * a + (y - p * (d * a)) * k, d * a)
<1>1. PICK e \in Positive : e = d * a
  BY DEF Positive
<1>2. PICK avg : avg = Over(ov, a)
  OBVIOUS
<1>3. Sum(avg, y, e)
  BY <1>1, <1>2, OverIs DEF Sum
<1>4. Sum(Whole(p), p * e, e) /\ p * e \in Int
  <2>1. p * e \in Int
    BY DEF Positive
  <2> QED BY <2>1, WholeIs DEF Sum
<1>5. PICK diff : diff = Minus(avg, Whole(p))
  OBVIOUS
<1>6. Sum(diff, y - p * e, e) /\ y - p * e \in Int
  <2>1. y - p * e \in Int
    BY <1>4
  <2>2. IsFraction(Minus(avg, Whole(p))) /\ Is(Minus(avg, Whole(p)), y - p * e, e)
    BY <1>3, <1>4, MinusIs DEF Sum
  <2> QED BY <1>5, <2>1, <2>2 DEF Sum
<1>7. Sum(Times(diff, k), (y - p * e) * k, e) /\ (y - p * e) * k \in Int
  <2>1. PICK m \in Int : m = y - p * e
    BY <1>6
  <2>2. IsFraction(Times(diff, k)) /\ Is(Times(diff, k), m * k, e)
    BY <1>6, <2>1, TimesIs DEF Sum
  <2>3. m * k \in Int
    OBVIOUS
  <2> QED BY <2>1, <2>2, <2>3 DEF Sum
<1>8. Sum(real, r * a, e) /\ r * a \in Int
  BY <1>1, Extended DEF Sum, Positive
<1>9. Sum(Plus(real, Times(diff, k)), r * a + (y - p * e) * k, e)
  BY <1>7, <1>8, PlusIs DEF Sum
<1> QED BY <1>1, <1>2, <1>3, <1>5, <1>9

(* A fill against the position reduces it, closes it or flips it.          *)
LEMMA FillCloses ==
    ASSUME NEW old, NEW side \in Sides, NEW price \in Prices, NEW qty \in Positive, NEW c,
           NEW x, NEW y, NEW r, NEW d, NEW new, NEW sv, sv = sideToValue(side),
           Account(side, old.position, old.open_vwap, old.real_pnl, c, x, y, r, d),
           ~(old.position * sv >= 0), new = old.position + sv * qty
    PROVE  \E x2, y2, r2, d2 :
              Account(side, new, OpenVwap(old, side, price, qty),
                      Plus(old.real_pnl, Realized(old, side, price, qty)), c - sv * price * qty,
                      x2, y2, r2, d2)
<1>1. sv \in {1, -1}
  BY DEF sideToValue
<1>2. PICK p \in Nat : p = price
  BY PriceRange
<1>3. PICK pos \in Int : pos = old.position
  BY DEF Account
<1>4. d \in Positive /\ x \in Int /\ y \in Int /\ r \in Int /\ c \in Int
  BY DEF Account
<1>5. PICK a \in Positive : a = -(pos * sv) /\ a = Abs(pos)
  <2>1. CASE sv = 1
    BY <1>3, <2>1 DEF Positive, Abs
  <2>2. CASE sv = -1
    BY <1>3, <2>2 DEF Positive, Abs
  <2> QED BY <1>1, <2>1, <2>2
<1>6. /\ new \in Int /\ new * sv = qty - a
      /\ new = 0 <=> qty = a
      /\ new * pos < 0 <=> qty > a
      /\ qty > a => Abs(new) = qty - a
      /\ qty < a => Abs(new) = a - qty
  <2>1. CASE sv = 1
    <3>1. pos = -a /\ new = qty - a
      BY <1>3, <1>5, <2>1 DEF Positive
    <3>2. new * pos = (a - qty) * a
      <4>1. (qty - a) * (-a) = (a - qty) * a
        BY DEF Positive
      <4> QED BY <3>1, <4>1
    <3>3. (a - qty) * a < 0 <=> a - qty < 0
      BY DEF Positive
    <3> QED BY <2>1, <3>1, <3>2, <3>3 DEF Abs, Positive
  <2>2. CASE sv = -1
    <3>1. pos = a /\ new = a - qty
      BY <1>3, <1>5, <2>2 DEF Positive
    <3>2. new * pos = (a - qty) * a
      BY <3>1 DEF Positive
    <3>3. (a - qty) * a < 0 <=> a - qty < 0
      BY DEF Positive
    <3> QED BY <2>2, <3>1, <3>2, <3>3 DEF Abs, Positive
  <2> QED BY <1>1, <2>1, <2>2
<1>7. Open(-a, x, y, d)
  <2>1. pos * sv = -a
    BY <1>1, <1>5 DEF Positive
  <2> QED BY <1>3, <2>1 DEF Account
<1>8. x = 0
  BY <1>4, <1>7 DEF Open, Positive
<1> DEFINE ov == old.open_vwap
           oi == Opposite(side)
           ov2 == OpenVwap(old, side, price, qty)
<1>9. /\ ov = [s \in Sides |-> ov[s]]
      /\ Sum(ov[side], x, d) /\ Sum(ov[oi], y, d) /\ Sum(old.real_pnl, r, d)
  BY DEF Account
<1>10. oi # side /\ oi \in Sides
  BY DEF Opposite, Sides
<1>11. PICK k \in Int : k = Least(qty, a) * sv
  BY <1>1 DEF Least, Positive
<1>12. Realized(old, side, price, qty) = Times(Minus(Over(ov[oi], a), Whole(p)), k)
  BY <1>2, <1>3, <1>5, <1>11 DEF Realized
<1>13. PICK real2 : real2 = Plus(old.real_pnl, Realized(old, side, price, qty))
  OBVIOUS
<1>14. PICK e \in Positive : e = d * a
  BY <1>4 DEF Positive
<1>15. Sum(Over(ov[oi], a), y, e) /\ Sum(real2, r * a + (y - p * e) * k, e)
  <2>1. PICK v : v = ov[oi]
    OBVIOUS
  <2>2. /\ Sum(Over(v, a), y, d * a)
        /\ Sum(Plus(old.real_pnl, Times(Minus(Over(v, a), Whole(p)), k)),
               r * a + (y - p * (d * a)) * k, d * a)
    BY <1>4, <1>9, <2>1, ClosedSum
  <2> QED BY <1>12, <1>13, <1>14, <2>1, <2>2
<1>16. r = c * d + sv * (0 - y)
  BY <1>8 DEF Account
<1>17. PICK c2 \in Int : c2 = c - sv * p * qty
  BY <1>1, <1>4 DEF Positive
<1>18. PICK r2 \in Int : r2 = r * a + (y - p * e) * k
  BY <1>4 DEF Positive
<1> DEFINE Result(x2, y2) == /\ ov2 = [s \in Sides |-> ov2[s]]
                             /\ Sum(ov2[side], x2, e) /\ Sum(ov2[oi], y2, e)
                             /\ Open(qty - a, x2, y2, e)
                             /\ r2 = c2 * e + sv * (x2 - y2)
<1>a. ASSUME NEW x2 \in Int, NEW y2 \in Int, Result(x2, y2)
      PROVE  Account(side, new, ov2, real2, c2, x2, y2, r2, e)
  <2> HIDE DEF ov2
  <2>1. Sum(real2, r2, e)
    BY <1>15, <1>18
  <2>2. Open(new * sideToValue(side), x2, y2, e)
    BY ONLY <1>6, <1>a, sv = sideToValue(side), Zenon
  <2>3. r2 = c2 * e + sideToValue(side) * (x2 - y2)
    BY ONLY <1>a, sv = sideToValue(side), Zenon
  <2> QED BY ONLY <1>6, <1>17, <1>a, <2>1, <2>2, <2>3, x2 \in Int, y2 \in Int, r2 \in Int,
                  e \in Positive, c2 \in Int DEF Account, oi
<1> SUFFICES \E x2 \in Int, y2 \in Int : Result(x2, y2)
  <2> HIDE DEF ov2, Result
  <2>1. PICK x2 \in Int, y2 \in Int : Result(x2, y2)
    OBVIOUS
  <2>2. Account(side, new, ov2, real2, c2, x2, y2, r2, e)
    BY <1>a, <2>1
  <2>3. \E u, v, w, z : Account(side, new, ov2, real2, c2, u, v, w, z)
    BY <2>2, Zenon
  <2> QED BY ONLY <1>2, <1>13, <1>17, <2>3 DEF ov2
<1>19. r * a + (y - p * e) * k = (c * d + sv * (0 - y)) * a + (y - p * (d * a)) * k
  BY <1>14, <1>16
<1>20. sv * p * qty = (sv * p) * qty
  OBVIOUS
<1>21. CASE qty >= a
  <2>1. k = a * sv
    BY <1>11, <1>21 DEF Least, Positive
  <2>2. PICK q \in Nat : q = qty - a
    BY <1>21 DEF Positive
  <2>3. PICK x2 \in Int : x2 = (p * q) * e
    BY DEF Positive
  <2>4. r2 = c2 * e + sv * (x2 - 0)
    <3>1. (c * d + sv * (0 - y)) * a + (y - p * (d * a)) * (a * sv)
             = (c - (sv * p) * qty) * (d * a) + sv * ((p * (qty - a)) * (d * a) - 0)
      <4>1. c \in Int /\ d \in Int /\ a \in Int /\ y \in Int /\ p \in Int /\ qty \in Int
        BY <1>4 DEF Positive
      <4> QED BY ONLY <4>1, <1>1, FlipSum
    <3> QED BY ONLY <1>14, <1>17, <1>18, <1>19, <2>1, <2>2, <2>3, <3>1
  <2>5. CASE qty = a
    <3>1. q = 0 /\ x2 = 0
      BY <2>2, <2>3, <2>5 DEF Positive
    <3>2. ov2 = Flat
      BY <1>6, <2>5 DEF OpenVwap
    <3>3. Flat = [s \in Sides |-> Whole(0)] /\ Sum(Whole(0), 0, e)
      BY ZeroSum DEF Flat
    <3>4. Open(0, 0, 0, e)
      <4>1. lowest \in Nat /\ highest \in Nat
        BY PriceRange
      <4> QED BY <4>1 DEF Open, Positive
    <3> HIDE DEF ov2
    <3>5. /\ ov2 = [s \in Sides |-> ov2[s]] /\ Sum(ov2[side], 0, e) /\ Sum(ov2[oi], 0, e)
      BY <1>10, <3>2, <3>3
    <3>6. Open(qty - a, 0, 0, e)
      BY <2>2, <3>1, <3>4
    <3>7. r2 = c2 * e + sv * (0 - 0)
      BY ONLY <2>4, <3>1
    <3> QED BY <3>5, <3>6, <3>7
  <2>6. CASE qty # a
    <3>1. q \in Positive
      BY <2>2, <2>6 DEF Positive
    <3>2. ov2 = [Flat EXCEPT ![side] = Whole(p * q)]
      <4>1. /\ ~(new = 0) /\ ~(old.position * sideToValue(side) >= 0)
            /\ new * old.position < 0 /\ Abs(new) = q
        BY <1>3, <1>6, <1>21, <2>2, <2>6 DEF Positive
      <4> QED BY <1>2, <4>1 DEF OpenVwap
    <3>3. PICK m \in Int : m = p * q
      BY <3>1 DEF Positive
    <3>4. Sum(Whole(m), m * e, e) /\ Sum(Whole(0), 0, e)
      BY WholeIs, ZeroSum DEF Sum
    <3> HIDE DEF ov2
    <3>5. ov2 = [s \in Sides |-> ov2[s]] /\ ov2[side] = Whole(m) /\ ov2[oi] = Whole(0)
      BY <1>10, <3>2, <3>3 DEF Flat
    <3>6. Open(q, (price * q) * e, 0, e)
      BY <3>1, OpenNew
    <3>7. Open(qty - a, x2, 0, e) /\ Sum(ov2[side], x2, e) /\ Sum(ov2[oi], 0, e)
      BY ONLY <1>2, <2>2, <2>3, <3>3, <3>4, <3>5, <3>6
    <3> QED BY <2>4, <3>5, <3>7
  <2> QED BY <2>5, <2>6
<1>22. CASE qty < a
  <2>1. k = qty * sv
    BY <1>11, <1>22 DEF Least, Positive
  <2>2. PICK b \in Positive : b = a - qty
    BY <1>22 DEF Positive
  <2>3. PICK y2 \in Int : y2 = y * b
    BY <1>4 DEF Positive
  <2>4. r2 = c2 * e + sv * (0 - y2)
    <3>1. (c * d + sv * (0 - y)) * a + (y - p * (d * a)) * (qty * sv)
             = (c - (sv * p) * qty) * (d * a) + sv * (0 - y * (a - qty))
      <4>1. c \in Int /\ d \in Int /\ a \in Int /\ y \in Int /\ p \in Int /\ qty \in Int
        BY <1>4 DEF Positive
      <4> QED BY ONLY <4>1, <1>1, ReduceSum
    <3> QED BY ONLY <1>14, <1>17, <1>18, <1>19, <2>1, <2>2, <2>3, <3>1
  <2>5. Open(-b, 0, y * b, d * a)
    BY <1>4, <1>7, OpenLess
  <2>6. Open(qty - a, 0, y2, e)
    <3>1. qty - a = -b
      BY <2>2 DEF Positive
    <3> QED BY ONLY <1>14, <2>3, <2>5, <3>1
  <2>7. ov2 = [ov EXCEPT ![oi] = Times(Over(ov[oi], a), b)]
    <3>1. /\ ~(new = 0) /\ ~(old.position * sideToValue(side) >= 0)
          /\ ~(new * old.position < 0) /\ Abs(new) = b /\ Abs(old.position) = a
      BY <1>3, <1>5, <1>6, <1>22, <2>2 DEF Positive
    <3> QED BY <3>1 DEF OpenVwap
  <2>8. Sum(Times(Over(ov[oi], a), b), y * b, e)
    <3>1. b \in Int
      BY DEF Positive
    <3> QED BY <1>4, <1>15, <3>1, TimesIs DEF Sum
  <2> HIDE DEF ov2, ov, oi
  <2>9. ov2 = [s \in Sides |-> ov2[s]] /\ ov2[side] = ov[side]
        /\ ov2[oi] = Times(Over(ov[oi], a), b)
    BY <1>9, <1>10, <2>7
  <2>10. Sum(ov2[side], 0, e)
    <3>1. Is(ov[side], 0 * a, d * a) /\ IsFraction(ov[side])
      BY <1>4, <1>8, <1>9, Extended DEF Sum
    <3>2. 0 * a = 0
      BY DEF Positive
    <3> QED BY <1>14, <2>9, <3>1, <3>2 DEF Sum
  <2>11. Sum(ov2[oi], y2, e)
    BY <2>3, <2>8, <2>9
  <2> QED BY <2>4, <2>6, <2>9, <2>10, <2>11
<1> QED BY <1>21, <1>22 DEF Positive

(* A fill keeps the account balanced, whichever way it moves the position. *)
LEMMA FillBalances ==
    ASSUME NEW old, NEW side \in Sides, NEW price \in Prices, NEW qty \in Positive, NEW c,
           NEW new, new = old.position + sideToValue(side) * qty,
           Balanced(old.position, old.open_vwap, old.real_pnl, c)
    PROVE  Balanced(new, OpenVwap(old, side, price, qty),
                    Plus(old.real_pnl, Realized(old, side, price, qty)),
                    c - sideToValue(side) * price * qty)
<1>1. PICK x, y, r, d : Account(side, old.position, old.open_vwap, old.real_pnl, c, x, y, r, d)
  BY BalancedFrom
<1>2. PICK sv : sv = sideToValue(side)
  OBVIOUS
<1>3. new = old.position + sv * qty
  BY ONLY <1>2, new = old.position + sideToValue(side) * qty
<1>4. \E x2, y2, r2, d2 :
         Account(side, new, OpenVwap(old, side, price, qty),
                 Plus(old.real_pnl, Realized(old, side, price, qty)), c - sv * price * qty,
                 x2, y2, r2, d2)
  <2>1. CASE old.position * sv >= 0
    <3>1. Account(side, new, OpenVwap(old, side, price, qty),
                  Plus(old.real_pnl, Realized(old, side, price, qty)), c - sv * price * qty,
                  x + (price * qty) * d, 0, r, d)
      BY <1>1, <1>2, <1>3, <2>1, FillOpens
    <3> QED BY ONLY <3>1, Zenon
  <2>2. CASE ~(old.position * sv >= 0)
    BY <1>1, <1>2, <1>3, <2>2, FillCloses
  <2> QED BY <2>1, <2>2
<1>5. Balanced(new, OpenVwap(old, side, price, qty),
               Plus(old.real_pnl, Realized(old, side, price, qty)), c - sv * price * qty)
  BY <1>4, BalancedFrom
<1> QED BY ONLY <1>2, <1>5

----------------------------------------------------------------------------
(* Valuations.                                                             *)

(* The realized profit and that of closing at m/e add up to the cash so.   *)
LEMMA ValueSum ==
    ASSUME NEW c \in Int, NEW d \in Int, NEW a \in Int, NEW x \in Int, NEW m \in Int, NEW e \in Int,
           NEW s \in {1, -1}
    PROVE  (c * d + s * (x - 0)) * (a * e) + (s * (m * (d * a) - x * e)) * a
             = c * ((d * a) * e) + (m * (s * a)) * (d * a)
<1>1. CASE s = 1
  BY <1>1
<1>2. CASE s = -1
  BY <1>2
<1> QED BY <1>1, <1>2

(* The profit at a price is what closing the position at it would leave.   *)
LEMMA Valued ==
    ASSUME NEW pos, NEW ov, NEW real, NEW c, Balanced(pos, ov, real, c), pos # 0,
           NEW price, IsFraction(price)
    PROVE  Plus(real, Unrealized(pos, ov, price)) = Plus(Whole(c), Times(price, pos))
<1>1. pos \in Int /\ c \in Int
  BY DEF Balanced, Account
<1>2. PICK side \in Sides : side = IF pos > 0 THEN "BUY" ELSE "SELL"
  BY DEF Sides
<1>3. PICK s \in {1, -1} : s = sideToValue(side)
  BY DEF sideToValue
<1>4. PICK a \in Positive : a = Abs(pos) /\ pos = s * a /\ pos * s = a
  BY <1>1, <1>2, <1>3 DEF Abs, Positive, sideToValue
<1>5. PICK x, y, r, d : Account(side, pos, ov, real, c, x, y, r, d)
  BY BalancedFrom
<1>6. x \in Int /\ r \in Int /\ d \in Positive /\ Sum(ov[side], x, d) /\ Sum(real, r, d)
  BY <1>5 DEF Account
<1>7. r = c * d + s * (x - 0)
  <2>1. Open(a, x, y, d) /\ y \in Int /\ r = c * d + s * (x - y)
    BY ONLY <1>3, <1>4, <1>5 DEF Account
  <2>2. y = 0
    BY <2>1 DEF Open, Positive
  <2> QED BY ONLY <2>1, <2>2
<1>8. PICK m \in Int, e \in Positive : Is(price, m, e)
  BY FractionParts
<1>9. PICK D \in Positive, da \in Positive : da = d * a /\ D = da * e
  <2>1. d * a \in Positive
    BY <1>6 DEF Positive
  <2>2. (d * a) * e \in Positive
    BY <2>1 DEF Positive
  <2> QED BY <2>1, <2>2
<1>10. PICK avg : avg = Over(ov[side], a)
  OBVIOUS
<1>11. Sum(avg, x * e, D) /\ x * e \in Int
  <2>1. IsFraction(avg) /\ Is(avg, x, da)
    BY <1>6, <1>9, <1>10, OverIs DEF Sum
  <2>2. Is(avg, x * e, da * e)
    BY <1>6, <2>1, Extended
  <2>3. x * e \in Int
    BY <1>6 DEF Positive
  <2> QED BY <1>9, <2>1, <2>2, <2>3 DEF Sum
<1>12. Sum(price, m * da, D) /\ m * da \in Int
  <2>1. Is(price, m * da, e * da)
    BY <1>8, Extended
  <2>2. e * da = D /\ m * da \in Int
    BY <1>9 DEF Positive
  <2> QED BY <2>1, <2>2 DEF Sum
<1>13. PICK diff : diff = IF pos > 0 THEN Minus(price, avg) ELSE Minus(avg, price)
  OBVIOUS
<1>14. PICK w \in Int : w = s * (m * da - x * e) /\ Sum(diff, w, D)
  <2>1. CASE pos > 0
    <3>1. IsFraction(Minus(price, avg)) /\ Is(Minus(price, avg), m * da - x * e, D)
      BY <1>11, <1>12, MinusIs DEF Sum
    <3>2. s = 1
      BY <1>2, <1>3, <2>1 DEF sideToValue
    <3>3. m * da - x * e = s * (m * da - x * e) /\ m * da - x * e \in Int
      BY <1>11, <1>12, <3>2
    <3> QED BY <1>13, <2>1, <3>1, <3>3 DEF Sum
  <2>2. CASE ~(pos > 0)
    <3>1. IsFraction(Minus(avg, price)) /\ Is(Minus(avg, price), x * e - m * da, D)
      BY <1>11, <1>12, MinusIs DEF Sum
    <3>2. s = -1
      BY <1>2, <1>3, <2>2 DEF sideToValue
    <3>3. x * e - m * da = s * (m * da - x * e) /\ x * e - m * da \in Int
      BY <1>11, <1>12, <3>2
    <3> QED BY <1>13, <2>2, <3>1, <3>3 DEF Sum
  <2> QED BY <2>1, <2>2
<1>15. Unrealized(pos, ov, price) = Times(diff, a)
  BY <1>2, <1>4, <1>10, <1>13 DEF Unrealized
<1>16. Sum(Times(diff, a), w * a, D) /\ w * a \in Int
  <2>1. a \in Int /\ w * a \in Int
    BY DEF Positive
  <2> QED BY <1>14, <2>1, TimesIs DEF Sum
<1>17. Sum(real, r * (a * e), D) /\ r * (a * e) \in Int
  <2>1. PICK k \in Positive : k = a * e
    BY DEF Positive
  <2>2. Is(real, r * k, d * k)
    BY <1>6, Extended DEF Sum
  <2>3. d * (a * e) = (d * a) * e /\ r * k \in Int
    BY <1>6 DEF Positive
  <2> QED BY <1>6, <1>9, <2>1, <2>2, <2>3 DEF Sum
<1>18. Sum(Plus(real, Times(diff, a)), r * (a * e) + w * a, D)
  BY <1>16, <1>17, PlusIs DEF Sum
<1>19. Sum(Whole(c), c * D, D) /\ c * D \in Int
  <2>1. c * D \in Int
    BY <1>1 DEF Positive
  <2> QED BY <1>1, <2>1, WholeIs DEF Sum
<1>20. Sum(Times(price, pos), (m * pos) * da, D) /\ (m * pos) * da \in Int
  <2>1. PICK k \in Int : k = m * pos
    BY <1>1
  <2>2. IsFraction(Times(price, pos)) /\ Is(Times(price, pos), k, e)
    BY <1>1, <1>8, <2>1, TimesIs
  <2>3. Is(Times(price, pos), k * da, e * da)
    BY <2>2, Extended
  <2>4. e * da = D /\ k * da \in Int
    BY <1>9 DEF Positive
  <2> QED BY <2>1, <2>2, <2>3, <2>4 DEF Sum
<1>21. Sum(Plus(Whole(c), Times(price, pos)), c * D + (m * pos) * da, D)
  BY <1>19, <1>20, PlusIs DEF Sum
<1>22. r * (a * e) + w * a = c * D + (m * pos) * da
  <2>1. (c * d + s * (x - 0)) * (a * e) + (s * (m * (d * a) - x * e)) * a
           = c * ((d * a) * e) + (m * (s * a)) * (d * a)
    <3>1. c \in Int /\ d \in Int /\ a \in Int /\ x \in Int /\ m \in Int /\ e \in Int
      BY <1>1, <1>6 DEF Positive
    <3> QED BY <3>1, ValueSum
  <2> QED BY ONLY <1>4, <1>7, <1>9, <1>14, <2>1, Zenon
<1>23. r * (a * e) + w * a \in Int
  BY <1>16, <1>17
<1>24. Sum(Plus(Whole(c), Times(price, pos)), r * (a * e) + w * a, D)
  BY ONLY <1>21, <1>22
<1>25. Plus(real, Times(diff, a)) = Plus(Whole(c), Times(price, pos))
  BY <1>18, <1>23, <1>24, FractionUnique DEF Sum
<1> QED BY <1>15, <1>25

(* Without a position the price does not matter.                           *)
LEMMA ValuedFlat ==
    ASSUME NEW ov, NEW real, NEW c, Balanced(0, ov, real, c), NEW price, IsFraction(price)
    PROVE  Plus(real, Whole(0)) = Plus(Whole(c), Times(price, 0))
<1>1. PICK x, y, r, d : Account("BUY", 0, ov, real, c, x, y, r, d)
  BY DEF Balanced
<1>2. c \in Int /\ r \in Int /\ d \in Positive /\ Sum(real, r, d)
  BY <1>1 DEF Account
<1>3. r = c * d
  <2>1. Open(0, x, y, d) /\ x \in Int /\ y \in Int /\ r = c * d + 1 * (x - y)
    BY <1>1 DEF Account, sideToValue
  <2>2. x = 0 /\ y = 0
    BY <2>1 DEF Open
  <2>3. c * d \in Int
    BY <1>2 DEF Positive
  <2> QED BY <2>1, <2>2, <2>3
<1>4. Sum(Whole(0), 0, d)
  BY <1>2, ZeroSum
<1>5. Sum(Whole(c), r, d)
  BY <1>2, <1>3, WholeIs DEF Sum
<1>6. PICK m \in Int, e \in Positive : Is(price, m, e)
  BY FractionParts
<1>7. Sum(Times(price, 0), 0, d)
  <2>1. IsFraction(Times(price, 0)) /\ Is(Times(price, 0), m * 0, e)
    BY <1>6, TimesIs
  <2>2. m * 0 = 0 /\ 0 * d = 0 * e
    BY <1>2 DEF Positive
  <2>3. Is(Times(price, 0), 0, d)
    BY <1>2, <2>1, <2>2, Transitive
  <2> QED BY <2>1, <2>3 DEF Sum
<1>8. Sum(Plus(real, Whole(0)), r + 0, d)
  BY <1>2, <1>4, PlusIs DEF Sum
<1>9. Sum(Plus(Whole(c), Times(price, 0)), r + 0, d)
  BY <1>2, <1>5, <1>7, PlusIs DEF Sum
<1> QED BY <1>2, <1>8, <1>9, FractionUnique DEF Sum

----------------------------------------------------------------------------
(* The inductive invariant.                                                *)

IsInfo(i) ==
    i = [position |-> i.position, volume |-> i.volume, open_vwap |-> i.open_vwap,
         real_pnl |-> i.real_pnl, unreal_pnl |-> i.unreal_pnl, total_pnl |-> i.total_pnl]

\* A PositionInfo with its cash and the price m of its last valuation.
InfoInv(i, c, m) ==
    /\ IsInfo(i) /\ IsFraction(m)
    /\ Balanced(i.position, i.open_vwap, i.real_pnl, c)
    /\ i.total_pnl = Plus(Whole(c), Times(m, i.position))
MarkInv(i, m, b) == TwoSided(b) /\ i.position # 0 => m = Mid(b)

TypeInv ==
    /\ bbo \in [Tickers -> BBOs \cup {NoBBO}]
    /\ info = [t \in Tickers |-> info[t]] /\ cash = [t \in Tickers |-> cash[t]]
    /\ mark = [t \in Tickers |-> mark[t]]

IInv ==
    /\ TypeInv /\ QuotesFollowTheBook
    /\ \A t \in Tickers : InfoInv(info[t], cash[t], mark[t]) /\ MarkInv(info[t], mark[t], bbo[t])

(* A two-sided book has a mid price, and it is not crossed.                *)
LEMMA BookFacts ==
    ASSUME NEW b \in BBOs \cup {NoBBO}, TwoSided(b)
    PROVE  /\ b.bid_price \in Nat /\ b.ask_price \in Nat /\ b.bid_qty \in Nat /\ b.ask_qty \in Nat
           /\ b.bid_price < b.ask_price
           /\ IsFraction(Mid(b))
<1>1. b # NoBBO
  BY DEF TwoSided, NoBBO
<1>2. b \in BBOs
  BY <1>1
<1>3. /\ b.bid_price \in Nat \cup {NoPrice} /\ b.ask_price \in Nat \cup {NoPrice}
      /\ b.bid_qty \in Nat /\ b.ask_qty \in Nat /\ b.bid_price < b.ask_price
  BY <1>2, EngineAssumption
<1>4. b.bid_price \in Nat /\ b.ask_price \in Nat
  BY <1>3 DEF TwoSided
<1>5. b.bid_price + b.ask_price \in Int /\ 2 \in Positive
  BY <1>4 DEF Positive
<1>6. IsFraction(Mid(b))
  BY <1>5, FractionIs DEF Mid
<1> QED BY <1>3, <1>4, <1>6

(* A fill, valued at its own price.                                        *)
LEMMA FillKeepsInfo ==
    ASSUME NEW i, NEW c, NEW m, InfoInv(i, c, m), NEW side \in Sides, NEW price \in Prices,
           NEW qty \in Positive, NEW j, j = addFill(i, side, price, qty)
    PROVE  InfoInv(j, c - sideToValue(side) * price * qty, Whole(price))
<1>1. Balanced(i.position, i.open_vwap, i.real_pnl, c)
  BY DEF InfoInv
<1>2. PICK new : new = i.position + sideToValue(side) * qty
  OBVIOUS
<1>3. PICK ov : ov = OpenVwap(i, side, price, qty)
  OBVIOUS
<1>4. PICK real : real = Plus(i.real_pnl, Realized(i, side, price, qty))
  OBVIOUS
<1>5. PICK unreal : unreal = IF new = 0 THEN Whole(0) ELSE Unrealized(new, ov, Whole(price))
  OBVIOUS
<1>6. PICK c2 : c2 = c - sideToValue(side) * price * qty
  OBVIOUS
<1>7. j = [position |-> new, volume |-> i.volume + qty, open_vwap |-> ov, real_pnl |-> real,
           unreal_pnl |-> unreal, total_pnl |-> Plus(real, unreal)]
  BY ONLY <1>2, <1>3, <1>4, <1>5, j = addFill(i, side, price, qty), Zenon DEF addFill
<1>8. /\ IsInfo(j) /\ j.position = new /\ j.open_vwap = ov /\ j.real_pnl = real
      /\ j.total_pnl = Plus(real, unreal)
  BY ONLY <1>7 DEF IsInfo
<1>9. Balanced(new, ov, real, c2)
  <2>1. Balanced(new, OpenVwap(i, side, price, qty),
                 Plus(i.real_pnl, Realized(i, side, price, qty)),
                 c - sideToValue(side) * price * qty)
    BY <1>1, <1>2, FillBalances
  <2> QED BY ONLY <1>3, <1>4, <1>6, <2>1, Zenon
<1>10. IsFraction(Whole(price))
  <2>1. price \in Int /\ 1 \in Positive
    BY PriceRange DEF Positive
  <2> QED BY <2>1, WholeIs
<1>11. Plus(real, unreal) = Plus(Whole(c2), Times(Whole(price), new))
  <2>1. CASE new = 0
    <3>1. Plus(real, Whole(0)) = Plus(Whole(c2), Times(Whole(price), 0))
      BY <1>9, <1>10, <2>1, ValuedFlat
    <3> QED BY ONLY <1>5, <2>1, <3>1, Zenon
  <2>2. CASE new # 0
    <3>1. Plus(real, Unrealized(new, ov, Whole(price))) = Plus(Whole(c2), Times(Whole(price), new))
      BY <1>9, <1>10, <2>2, Valued
    <3> QED BY ONLY <1>5, <2>2, <3>1, Zenon
  <2> QED BY <2>1, <2>2
<1>12. InfoInv(j, c2, Whole(price))
  BY ONLY <1>8, <1>9, <1>10, <1>11, Zenon DEF InfoInv
<1> QED BY ONLY <1>6, <1>12

(* A valuation at the book.                                                *)
LEMMA BookValues ==
    ASSUME NEW i, NEW c, NEW m, InfoInv(i, c, m), NEW b \in BBOs \cup {NoBBO},
           NEW j, j = updateBBO(i, b), NEW m2, m2 = IF Values(i.position, b) THEN Mid(b) ELSE m
    PROVE  InfoInv(j, c, m2) /\ MarkInv(j, m2, b)
<1>1. CASE Values(i.position, b)
  <2>1. TwoSided(b) /\ i.position # 0
    BY <1>1 DEF Values, TwoSided
  <2>2. IsFraction(Mid(b)) /\ m2 = Mid(b)
    BY <1>1, <2>1, BookFacts
  <2>3. PICK unreal : unreal = Unrealized(i.position, i.open_vwap, Mid(b))
    OBVIOUS
  <2>4. j = [i EXCEPT !.unreal_pnl = unreal, !.total_pnl = Plus(i.real_pnl, unreal)]
    BY ONLY <1>1, <2>3, j = updateBBO(i, b), Zenon DEF updateBBO
  <2>5. IsInfo(i)
    BY DEF InfoInv
  <2>6. IsInfo(j) /\ j.position = i.position /\ j.open_vwap = i.open_vwap
        /\ j.real_pnl = i.real_pnl /\ j.total_pnl = Plus(i.real_pnl, unreal)
    BY ONLY <2>4, <2>5 DEF IsInfo
  <2>7. Balanced(i.position, i.open_vwap, i.real_pnl, c)
    BY DEF InfoInv
  <2>8. Plus(i.real_pnl, unreal) = Plus(Whole(c), Times(Mid(b), i.position))
    BY <2>1, <2>2, <2>3, <2>7, Valued
  <2>9. InfoInv(j, c, m2)
    BY ONLY <2>2, <2>6, <2>7, <2>8, Zenon DEF InfoInv
  <2>10. MarkInv(j, m2, b)
    BY ONLY <2>2, Zenon DEF MarkInv
  <2> QED BY <2>9, <2>10
<1>2. CASE ~Values(i.position, b)
  <2>1. j = i /\ m2 = m
    BY <1>2 DEF updateBBO
  <2>2. ~(TwoSided(b) /\ i.position # 0)
    BY <1>2 DEF Values, TwoSided
  <2> QED BY <2>1, <2>2 DEF MarkInv
<1> QED BY <1>1, <1>2

----------------------------------------------------------------------------
(* The strategies.                                                         *)

\* What QuotesFollowTheBook says of a quote q and its book b.
Joins(b, qty) ==
    (b.ask_price - b.bid_price) * qty >= threshold * (b.bid_qty + b.ask_qty)
Follows(q, b) ==
    /\ TwoSided(b)
    /\ q.algo = "MAKER" =>
          /\ q.bid_price = IF Joins(b, b.bid_qty) THEN b.bid_price ELSE b.bid_price - 1
          /\ q.ask_price = IF Joins(b, b.ask_qty) THEN b.ask_price ELSE b.ask_price + 1
          /\ q.bid_price < q.ask_price
    /\ q.algo = "TAKER" =>
          \/ /\ q.bid_price = b.ask_price /\ q.ask_price = NoPrice
             /\ q.qty >= threshold * b.ask_qty
          \/ /\ q.ask_price = b.bid_price /\ q.bid_price = NoPrice
             /\ q.qty >= threshold * b.bid_qty

(* QuotesFollowTheBook, by its parts.                                      *)
LEMMA QuotesAre == QuotesFollowTheBook <=> (quote # NoQuote => Follows(quote, bbo[quote.ticker]))
BY Zenon DEF QuotesFollowTheBook, Follows, Joins

(* A market maker given the signal of a book quotes as it calls for.       *)
LEMMA MakerFollows ==
    ASSUME NEW b \in BBOs \cup {NoBBO}, NEW ticker, NEW q, NEW fair,
           fair = onOrderBookUpdate(b), q = MarketMaker(ticker, b, fair), q # NoQuote
    PROVE  q.ticker = ticker /\ Follows(q, b)
<1>1. TwoSided(b) /\ fair # Feature_INVALID /\ algo = "MAKER"
  BY DEF MarketMaker, Quotable
<1>2. PICK bp \in Nat, ap \in Nat, bq \in Nat, aq \in Nat :
         bp = b.bid_price /\ ap = b.ask_price /\ bq = b.bid_qty /\ aq = b.ask_qty
  BY <1>1, BookFacts
<1>3. bp < ap
  BY <1>1, <1>2, BookFacts
<1>4. PICK d \in Positive : d = bq + aq /\ fair = Fraction(bp * aq + ap * bq, d)
  BY <1>1, <1>2 DEF onOrderBookUpdate, Positive
<1>5. PICK n \in Int : n = bp * aq + ap * bq
  OBVIOUS
<1>6. Sum(fair, n, d)
  BY <1>4, <1>5, FractionIs DEF Sum
<1>7. PICK th \in Nat : th = threshold
  BY EngineAssumption
<1>8. Sum(Whole(bp), bp * d, d) /\ Sum(Whole(ap), ap * d, d) /\ bp * d \in Int /\ ap * d \in Int
  <2>1. bp * d \in Int /\ ap * d \in Int /\ bp \in Int /\ ap \in Int
    BY DEF Positive
  <2> QED BY <2>1, WholeIs DEF Sum
<1>9. /\ Sum(Minus(fair, Whole(bp)), n - bp * d, d) /\ n - bp * d \in Int
      /\ Sum(Minus(Whole(ap), fair), ap * d - n, d) /\ ap * d - n \in Int
  BY <1>6, <1>8, MinusIs DEF Sum
<1>10. n - bp * d = (ap - bp) * bq /\ ap * d - n = (ap - bp) * aq
  <2>1. /\ (bp * aq + ap * bq) - bp * (bq + aq) = (ap - bp) * bq
        /\ ap * (bq + aq) - (bp * aq + ap * bq) = (ap - bp) * aq
    OBVIOUS
  <2> QED BY ONLY <1>4, <1>5, <2>1, Zenon
<1>11. /\ AtMost(Whole(th), Minus(fair, Whole(bp))) <=> th * d <= n - bp * d
       /\ AtMost(Whole(th), Minus(Whole(ap), fair)) <=> th * d <= ap * d - n
  BY <1>9, AtMostIs DEF Sum
<1>12. /\ AtMost(Whole(th), Minus(fair, Whole(bp))) <=> Joins(b, bq)
       /\ AtMost(Whole(th), Minus(Whole(ap), fair)) <=> Joins(b, aq)
  <2>1. /\ Joins(b, bq) <=> (ap - bp) * bq >= th * d
        /\ Joins(b, aq) <=> (ap - bp) * aq >= th * d
    BY ONLY <1>2, <1>4, <1>7, Zenon DEF Joins
  <2>2. th * d \in Int /\ (ap - bp) * bq \in Int /\ (ap - bp) * aq \in Int
    BY DEF Positive
  <2> QED BY <1>10, <1>11, <2>1, <2>2
<1>13. q = [ticker |-> ticker, algo |-> algo,
            bid_price |-> bp - (IF AtMost(Whole(th), Minus(fair, Whole(bp))) THEN 0 ELSE 1),
            ask_price |-> ap + (IF AtMost(Whole(th), Minus(Whole(ap), fair)) THEN 0 ELSE 1)]
  BY <1>1, <1>2, <1>7 DEF MarketMaker, Quotable
<1>14. /\ q.ticker = ticker /\ q.algo = "MAKER"
       /\ q.bid_price = bp - (IF Joins(b, bq) THEN 0 ELSE 1)
       /\ q.ask_price = ap + (IF Joins(b, aq) THEN 0 ELSE 1)
  BY ONLY <1>1, <1>12, <1>13
<1>15. /\ q.bid_price = IF Joins(b, bq) THEN bp ELSE bp - 1
       /\ q.ask_price = IF Joins(b, aq) THEN ap ELSE ap + 1
       /\ q.bid_price < q.ask_price
  BY <1>3, <1>14
<1> QED BY ONLY <1>1, <1>2, <1>14, <1>15 DEF Follows

(* A liquidity taker given the ratio of a trade follows only a large one.  *)
LEMMA TakerFollows ==
    ASSUME NEW b \in BBOs \cup {NoBBO}, NEW ticker, NEW side, NEW qty \in Positive, NEW q, NEW ratio,
           ratio = onTradeUpdate(b, side, qty), q = LiquidityTaker(ticker, b, side, qty, ratio),
           q # NoQuote
    PROVE  q.ticker = ticker /\ Follows(q, b)
<1>1. TwoSided(b) /\ algo = "TAKER" /\ AtMost(Whole(threshold), ratio)
  BY DEF LiquidityTaker, Quotable
<1>2. b.ask_qty \in Nat /\ b.bid_qty \in Nat
  BY <1>1, BookFacts
<1>3. PICK hit \in Nat : hit = IF side = "BUY" THEN b.ask_qty ELSE b.bid_qty
  BY <1>2
<1>4. PICK th \in Nat : th = threshold
  BY EngineAssumption
<1>5. qty >= th * hit
  <2>1. CASE hit = 0
    BY <2>1 DEF Positive
  <2>2. CASE hit # 0
    <3>1. hit \in Positive /\ qty \in Int
      BY <2>2 DEF Positive
    <3>2. ratio = Fraction(qty, hit)
      BY <1>1, <1>3, <2>2 DEF onTradeUpdate
    <3>3. IsFraction(ratio) /\ Is(ratio, qty, hit)
      BY <3>1, <3>2, FractionIs
    <3>4. AtMost(Whole(th), ratio) <=> th * hit <= qty
      BY <3>1, <3>3, AtMostIs
    <3> QED BY <1>1, <1>4, <3>4 DEF Positive
  <2> QED BY <2>1, <2>2
<1>6. q = [ticker |-> ticker, algo |-> algo, qty |-> qty,
           bid_price |-> IF side = "BUY" THEN b.ask_price ELSE NoPrice,
           ask_price |-> IF side = "BUY" THEN NoPrice ELSE b.bid_price]
  BY DEF LiquidityTaker
<1>7. /\ q.ticker = ticker /\ q.algo = "TAKER" /\ q.qty = qty
      /\ q.bid_price = IF side = "BUY" THEN b.ask_price ELSE NoPrice
      /\ q.ask_price = IF side = "BUY" THEN NoPrice ELSE b.bid_price
  BY ONLY <1>1, <1>6
<1> QED BY ONLY <1>1, <1>3, <1>4, <1>5, <1>7 DEF Follows

(* The same after a step.                                                  *)
LEMMA QuotesWillBe ==
    QuotesFollowTheBook' <=> (quote' # NoQuote => Follows(quote', bbo'[quote'.ticker]))
BY Zenon DEF QuotesFollowTheBook, Follows, Joins

----------------------------------------------------------------------------
(* The invariant is inductive.                                             *)

(* Nothing is owed on a position that was never opened.                    *)
LEMMA NoPositionBalanced ==
    /\ InfoInv(NoPosition, 0, Whole(0))
    /\ \A b : MarkInv(NoPosition, Whole(0), b)
<1>1. /\ NoPosition.position = 0 /\ NoPosition.open_vwap = Flat /\ NoPosition.real_pnl = Whole(0)
      /\ NoPosition.total_pnl = Whole(0) /\ IsInfo(NoPosition)
  BY DEF NoPosition, IsInfo
<1>2. 1 \in Positive /\ 0 \in Int
  BY DEF Positive
<1>3. Sum(Whole(0), 0, 1) /\ IsFraction(Whole(0))
  BY <1>2, ZeroSum DEF Sum
<1>4. Open(0, 0, 0, 1)
  BY PriceRange DEF Open
<1>5. Flat = [s \in Sides |-> Flat[s]] /\ Flat["BUY"] = Whole(0) /\ Flat[Opposite("BUY")] = Whole(0)
  BY DEF Flat, Sides, Opposite
<1>6. 0 * sideToValue("BUY") = 0 /\ 0 = 0 * 1 + sideToValue("BUY") * (0 - 0)
  BY DEF sideToValue
<1>7. Account("BUY", 0, Flat, Whole(0), 0, 0, 0, 0, 1)
  BY ONLY <1>2, <1>3, <1>4, <1>5, <1>6, Zenon DEF Account
<1>8. Balanced(0, Flat, Whole(0), 0)
  BY ONLY <1>7, Zenon DEF Balanced
<1>9. Whole(0) = Plus(Whole(0), Times(Whole(0), 0))
  <2>1. IsFraction(Plus(Whole(0), Whole(0))) /\ Is(Plus(Whole(0), Whole(0)), 0 + 0, 1)
    BY <1>2, <1>3, PlusIs DEF Sum
  <2>2. Plus(Whole(0), Whole(0)) = Whole(0)
    BY <1>2, <1>3, <2>1, FractionUnique DEF Sum
  <2>3. Plus(Whole(0), Whole(0)) = Plus(Whole(0), Times(Whole(0), 0))
    BY <1>3, <1>8, ValuedFlat
  <2> QED BY ONLY <2>2, <2>3, Zenon
<1>10. InfoInv(NoPosition, 0, Whole(0))
  BY ONLY <1>1, <1>3, <1>8, <1>9, Zenon DEF InfoInv
<1>11. \A b : MarkInv(NoPosition, Whole(0), b)
  BY ONLY <1>1, Zenon DEF MarkInv
<1> QED BY <1>10, <1>11

(* It holds before anything is traded.                                     *)
LEMMA InvInit == Init => IInv
<1> SUFFICES ASSUME Init PROVE IInv
  OBVIOUS
<1>1. TypeInv
  BY DEF Init, TypeInv
<1>2. QuotesFollowTheBook
  BY QuotesAre DEF Init
<1>3. ASSUME NEW t \in Tickers
      PROVE  InfoInv(info[t], cash[t], mark[t]) /\ MarkInv(info[t], mark[t], bbo[t])
  <2>1. info[t] = NoPosition /\ cash[t] = 0 /\ mark[t] = Whole(0)
    BY DEF Init
  <2> QED BY ONLY <2>1, NoPositionBalanced, Zenon
<1> QED BY <1>1, <1>2, <1>3 DEF IInv

(* What a step does to the position of one ticker, the others unchanged.   *)
LEMMA OneTicker ==
    ASSUME IInv, NEW ticker \in Tickers,
           \A t \in Tickers \ {ticker} :
               info'[t] = info[t] /\ cash'[t] = cash[t] /\ mark'[t] = mark[t] /\ bbo'[t] = bbo[t],
           InfoInv(info'[ticker], cash'[ticker], mark'[ticker]),
           MarkInv(info'[ticker], mark'[ticker], bbo'[ticker])
    PROVE  \A t \in Tickers : InfoInv(info'[t], cash'[t], mark'[t]) /\ MarkInv(info'[t], mark'[t], bbo'[t])
<1> TAKE t \in Tickers
<1>1. CASE t = ticker
  BY ONLY <1>1, InfoInv(info'[ticker], cash'[ticker], mark'[ticker]),
          MarkInv(info'[ticker], mark'[ticker], bbo'[ticker]), Zenon
<1>2. CASE t # ticker
  <2>1. info'[t] = info[t] /\ cash'[t] = cash[t] /\ mark'[t] = mark[t] /\ bbo'[t] = bbo[t]
    BY <1>2
  <2>2. InfoInv(info[t], cash[t], mark[t]) /\ MarkInv(info[t], mark[t], bbo[t])
    BY DEF IInv
  <2> QED BY ONLY <2>1, <2>2, Zenon
<1> QED BY <1>1, <1>2

(* The primed invariant, by its parts.                                     *)
LEMMA InvAfter ==
    ASSUME TypeInv', quote' # NoQuote => Follows(quote', bbo'[quote'.ticker]),
           \A t \in Tickers : InfoInv(info'[t], cash'[t], mark'[t]) /\ MarkInv(info'[t], mark'[t], bbo'[t])
    PROVE  IInv'
<1>1. QuotesFollowTheBook'
  BY QuotesWillBe
<1>2. (\A t \in Tickers : InfoInv(info[t], cash[t], mark[t]) /\ MarkInv(info[t], mark[t], bbo[t]))'
  OBVIOUS
<1> QED BY <1>1, <1>2, Zenon DEF IInv

(* A fill is booked, valued at its price and then at the book.             *)
LEMMA ResponseKeeps ==
    ASSUME IInv, NEW ticker \in Tickers, NEW side \in Sides, NEW price \in Prices,
           NEW qty \in Positive, handleResponse(ticker, side, price, qty)
    PROVE  IInv'
<1>1. PICK filled : filled = addFill(info[ticker], side, price, qty)
  OBVIOUS
<1>2. PICK c : c = cash[ticker] - sideToValue(side) * price * qty
  OBVIOUS
<1>3. /\ info' = [info EXCEPT ![ticker] = updateBBO(filled, bbo[ticker])]
      /\ cash' = [cash EXCEPT ![ticker] = c]
      /\ mark' = [mark EXCEPT ![ticker] = IF Values(filled.position, bbo[ticker]) THEN Mid(bbo[ticker])
                                          ELSE Whole(price)]
      /\ quote' = NoQuote /\ bbo' = bbo
  BY <1>1, <1>2, Zenon DEF handleResponse
<1>4. TypeInv /\ bbo[ticker] \in BBOs \cup {NoBBO} /\ InfoInv(info[ticker], cash[ticker], mark[ticker])
  BY DEF IInv, TypeInv
<1>5. InfoInv(filled, c, Whole(price))
  <2>1. InfoInv(filled, cash[ticker] - sideToValue(side) * price * qty, Whole(price))
    BY <1>1, <1>4, FillKeepsInfo
  <2> QED BY ONLY <1>2, <2>1
<1>6. PICK j : j = updateBBO(filled, bbo[ticker])
  OBVIOUS
<1>7. PICK m : m = IF Values(filled.position, bbo[ticker]) THEN Mid(bbo[ticker]) ELSE Whole(price)
  OBVIOUS
<1>8. InfoInv(j, c, m) /\ MarkInv(j, m, bbo[ticker])
  BY <1>4, <1>5, <1>6, <1>7, BookValues
<1>9. info' = [info EXCEPT ![ticker] = j] /\ mark' = [mark EXCEPT ![ticker] = m]
  BY ONLY <1>3, <1>6, <1>7, Zenon
<1>10. /\ info'[ticker] = j /\ cash'[ticker] = c /\ mark'[ticker] = m /\ bbo'[ticker] = bbo[ticker]
       /\ \A t \in Tickers \ {ticker} :
            info'[t] = info[t] /\ cash'[t] = cash[t] /\ mark'[t] = mark[t] /\ bbo'[t] = bbo[t]
       /\ TypeInv'
  BY <1>3, <1>4, <1>9 DEF TypeInv
<1>11. \A t \in Tickers : InfoInv(info'[t], cash'[t], mark'[t]) /\ MarkInv(info'[t], mark'[t], bbo'[t])
  <2>1. /\ InfoInv(info'[ticker], cash'[ticker], mark'[ticker])
        /\ MarkInv(info'[ticker], mark'[ticker], bbo'[ticker])
    BY ONLY <1>8, <1>10, Zenon
  <2> QED BY <1>10, <2>1, OneTicker
<1> QED BY <1>3, <1>10, <1>11, InvAfter

(* A book update values the position, and the maker sees the new signal.   *)
LEMMA BookUpdateKeeps ==
    ASSUME IInv, NEW ticker \in Tickers, NEW shown \in BBOs \cup {NoBBO},
           handleBookUpdate(ticker, shown)
    PROVE  IInv'
<1>1. PICK j : j = updateBBO(info[ticker], shown)
  OBVIOUS
<1>2. PICK m : m = IF Values(info[ticker].position, shown) THEN Mid(shown) ELSE mark[ticker]
  OBVIOUS
<1>3. /\ bbo' = [bbo EXCEPT ![ticker] = shown] /\ info' = [info EXCEPT ![ticker] = j]
      /\ mark' = [mark EXCEPT ![ticker] = m] /\ cash' = cash
      /\ mkt_price' = onOrderBookUpdate(shown) /\ quote' = MarketMaker(ticker, shown, mkt_price')
  BY <1>1, <1>2, Zenon DEF handleBookUpdate
<1>4. TypeInv /\ InfoInv(info[ticker], cash[ticker], mark[ticker])
  BY DEF IInv
<1>5. InfoInv(j, cash[ticker], m) /\ MarkInv(j, m, shown)
  BY <1>1, <1>2, <1>4, BookValues
<1>6. /\ info'[ticker] = j /\ cash'[ticker] = cash[ticker] /\ mark'[ticker] = m /\ bbo'[ticker] = shown
      /\ \A t \in Tickers \ {ticker} :
            info'[t] = info[t] /\ cash'[t] = cash[t] /\ mark'[t] = mark[t] /\ bbo'[t] = bbo[t]
      /\ TypeInv'
  BY <1>3, <1>4 DEF TypeInv
<1>7. \A t \in Tickers : InfoInv(info'[t], cash'[t], mark'[t]) /\ MarkInv(info'[t], mark'[t], bbo'[t])
  <2>1. /\ InfoInv(info'[ticker], cash'[ticker], mark'[ticker])
        /\ MarkInv(info'[ticker], mark'[ticker], bbo'[ticker])
    BY ONLY <1>5, <1>6, Zenon
  <2> QED BY <1>6, <2>1, OneTicker
<1>8. quote' # NoQuote => Follows(quote', bbo'[quote'.ticker])
  <2>1. PICK q, fair : q = quote' /\ fair = mkt_price'
    OBVIOUS
  <2>2. fair = onOrderBookUpdate(shown) /\ q = MarketMaker(ticker, shown, fair)
    BY ONLY <1>3, <2>1, Zenon
  <2>3. q # NoQuote => q.ticker = ticker /\ Follows(q, shown)
    BY <2>2, MakerFollows
  <2> QED BY ONLY <1>6, <2>1, <2>3, Zenon
<1> QED BY <1>6, <1>7, <1>8, InvAfter

(* A trade leaves books and positions, and the taker sees the new signal.  *)
LEMMA TradeKeeps ==
    ASSUME IInv, NEW ticker \in Tickers, NEW side \in Sides, NEW qty \in Positive,
           handleTrade(ticker, side, qty)
    PROVE  IInv'
<1>1. bbo' = bbo /\ info' = info /\ cash' = cash /\ mark' = mark
  BY DEF handleTrade, positions
<1>2. TypeInv /\ bbo[ticker] \in BBOs \cup {NoBBO}
  BY DEF IInv, TypeInv
<1>3. TypeInv'
  BY <1>1, <1>2 DEF TypeInv
<1>4. \A t \in Tickers : InfoInv(info'[t], cash'[t], mark'[t]) /\ MarkInv(info'[t], mark'[t], bbo'[t])
  BY <1>1, Zenon DEF IInv
<1>5. quote' # NoQuote => Follows(quote', bbo'[quote'.ticker])
  <2>0. PICK b \in BBOs \cup {NoBBO} : b = bbo[ticker]
    BY <1>2
  <2>1. PICK q, ratio : q = quote' /\ ratio = agg_trade_qty_ratio'
    OBVIOUS
  <2>2. ratio = onTradeUpdate(b, side, qty) /\ q = LiquidityTaker(ticker, b, side, qty, ratio)
    BY <2>0, <2>1, Zenon DEF handleTrade
  <2>3. q # NoQuote => q.ticker = ticker /\ Follows(q, b)
    BY <2>2, TakerFollows
  <2> QED BY ONLY <1>1, <2>0, <2>1, <2>3, Zenon
<1> QED BY <1>3, <1>4, <1>5, InvAfter

(* A CLEAR empties every book; there is nothing to value a position at.    *)
LEMMA UnknownKeeps ==
    ASSUME IInv, NEW type, handleUnknown(type)
    PROVE  IInv'
<1>1. /\ info' = info /\ cash' = cash /\ mark' = mark /\ quote' = NoQuote
      /\ bbo' = bbo \/ bbo' = [t \in Tickers |-> NoBBO]
  BY DEF handleUnknown, positions
<1>2. TypeInv
  BY DEF IInv
<1>3. TypeInv'
  BY <1>1, <1>2 DEF TypeInv
<1>4. \A t \in Tickers : InfoInv(info'[t], cash'[t], mark'[t])
  BY <1>1, Zenon DEF IInv
<1>5. \A t \in Tickers : MarkInv(info'[t], mark'[t], bbo'[t])
  <2>1. CASE bbo' = bbo
    BY <1>1, <2>1, Zenon DEF IInv
  <2>2. CASE bbo' = [t \in Tickers |-> NoBBO]
    <3>1. \A t \in Tickers : bbo'[t] = NoBBO
      BY <2>2
    <3>2. ~TwoSided(NoBBO)
      BY DEF TwoSided, NoBBO
    <3> QED BY ONLY <3>1, <3>2, Zenon DEF MarkInv
  <2> QED BY <1>1, <2>1, <2>2
<1> QED BY <1>1, <1>3, <1>4, <1>5, InvAfter

(* A step that changes neither books nor positions, and quotes nothing.    *)
LEMMA NothingKeeps ==
    ASSUME IInv, UNCHANGED <<bbo, positions>>, quote' \in {NoQuote, quote}
    PROVE  IInv'
<1>1. bbo' = bbo /\ info' = info /\ cash' = cash /\ mark' = mark
  BY DEF positions
<1>2. TypeInv'
  <2>1. TypeInv
    BY DEF IInv
  <2> QED BY <1>1, <2>1 DEF TypeInv
<1>3. \A t \in Tickers : InfoInv(info'[t], cash'[t], mark'[t]) /\ MarkInv(info'[t], mark'[t], bbo'[t])
  BY <1>1, Zenon DEF IInv
<1>4. quote' # NoQuote => Follows(quote', bbo'[quote'.ticker])
  <2>1. quote # NoQuote => Follows(quote, bbo[quote.ticker])
    BY QuotesAre DEF IInv
  <2>2. quote' = NoQuote \/ quote' = quote
    OBVIOUS
  <2> QED BY ONLY <1>1, <2>1, <2>2, Zenon
<1> QED BY <1>2, <1>3, <1>4, InvAfter

(* Every step keeps the invariant.                                         *)
LEMMA InvNext == IInv /\ [Next]_vars => IInv'
<1> SUFFICES ASSUME IInv, [Next]_vars PROVE IInv'
  OBVIOUS
<1>1. {"BUY", "SELL"} = Sides /\ Quantities \subseteq Positive /\ Traded \subseteq Tickers
  BY EngineAssumption DEF Sides, Positive
<1>2. CASE Responses
  <2>1. PICK ticker \in TickerIds, side \in {"BUY", "SELL"}, price \in Prices, qty \in Quantities :
           \/ ticker \in Traded /\ handleResponse(ticker, side, price, qty)
           \/ ticker \notin Tickers /\ quote' = NoQuote
              /\ UNCHANGED <<bbo, positions, signals, algo>>
    BY <1>2, Zenon DEF Responses
  <2>2. CASE ticker \in Traded /\ handleResponse(ticker, side, price, qty)
    <3>1. ticker \in Tickers /\ side \in Sides /\ qty \in Positive
      BY <1>1, <2>2
    <3> QED BY <2>2, <3>1, ResponseKeeps
  <2>3. CASE quote' = NoQuote /\ UNCHANGED <<bbo, positions, signals, algo>>
    BY <2>3, NothingKeeps
  <2> QED BY <2>1, <2>2, <2>3
<1>3. CASE MarketUpdates
  <2>1. PICK ticker \in TickerIds :
           \/ /\ ticker \in Tickers
              /\ \/ \E shown \in BBOs \cup {NoBBO} : handleBookUpdate(ticker, shown)
                 \/ \E side \in {"BUY", "SELL"}, qty \in Quantities : handleTrade(ticker, side, qty)
           \/ ticker \notin Tickers /\ \E type \in {"CLEAR", "ADD"} : handleUnknown(type)
    BY <1>3, Zenon DEF MarketUpdates
  <2>2. ASSUME ticker \in Tickers, NEW shown \in BBOs \cup {NoBBO}, handleBookUpdate(ticker, shown)
        PROVE  IInv'
    BY <2>2, BookUpdateKeeps
  <2>3. ASSUME ticker \in Tickers, NEW side \in {"BUY", "SELL"}, NEW qty \in Quantities,
               handleTrade(ticker, side, qty)
        PROVE  IInv'
    BY <1>1, <2>3, TradeKeeps
  <2>4. ASSUME NEW type \in {"CLEAR", "ADD"}, handleUnknown(type)
        PROVE  IInv'
    BY <2>4, UnknownKeeps
  <2> QED BY <2>1, <2>2, <2>3, <2>4
<1>4. CASE \E type \in {"MAKER", "TAKER"} : Install(type)
  BY <1>4, NothingKeeps DEF Install
<1>5. CASE UNCHANGED vars
  <2>1. UNCHANGED <<bbo, positions>> /\ quote' = quote
    BY <1>5 DEF vars, positions
  <2> QED BY <2>1, NothingKeeps
<1> QED BY <1>2, <1>3, <1>4, <1>5 DEF Next

(* The invariant holds in every state.                                     *)
LEMMA InvHolds == Spec => []IInv
BY InvInit, InvNext, PTL DEF Spec

----------------------------------------------------------------------------
(* What the invariant gives.                                               *)

(* A balanced account keeps open what is held, and nothing else.           *)
LEMMA BalancedIsOpen ==
    ASSUME NEW pos, NEW ov, NEW real, NEW c, Balanced(pos, ov, real, c),
           NEW side, side = IF pos > 0 THEN "BUY" ELSE "SELL"
    PROVE  /\ ov[Opposite(side)] = Whole(0)
           /\ AtMost(Whole(Abs(pos) * Min(Prices)), ov[side])
           /\ AtMost(ov[side], Whole(Abs(pos) * Max(Prices)))
<1>1. side \in Sides
  BY DEF Sides
<1>2. PICK x, y, r, d : Account(side, pos, ov, real, c, x, y, r, d)
  BY <1>1, BalancedFrom
<1>3. /\ pos \in Int /\ x \in Int /\ y \in Int /\ d \in Positive
      /\ Sum(ov[side], x, d) /\ Sum(ov[Opposite(side)], y, d)
      /\ Open(pos * sideToValue(side), x, y, d)
  BY <1>2 DEF Account
<1>4. PICK held \in Nat : held = Abs(pos) /\ held = pos * sideToValue(side)
  BY <1>3 DEF Abs, sideToValue
<1>5. PICK lo \in Nat, hi \in Nat : lo = lowest /\ hi = highest
  BY PriceRange
<1>6. y = 0 /\ (lo * held) * d <= x /\ x <= (hi * held) * d
  BY <1>3, <1>4, <1>5 DEF Open
<1>7. ov[Opposite(side)] = Whole(0)
  <2>1. Sum(ov[Opposite(side)], 0, d)
    BY ONLY <1>3, <1>6, Zenon
  <2>2. Sum(Whole(0), 0, d)
    BY <1>3, ZeroSum
  <2> QED BY <1>3, <2>1, <2>2, FractionUnique DEF Sum
<1>8. PICK low \in Int, high \in Int : low = held * lo /\ high = held * hi
  OBVIOUS
<1>9. low * d <= x /\ x <= high * d
  <2>1. held * lo = lo * held /\ held * hi = hi * held
    OBVIOUS
  <2> QED BY ONLY <1>6, <1>8, <2>1
<1>10. AtMost(Whole(low), ov[side]) /\ AtMost(ov[side], Whole(high))
  BY <1>3, <1>9, AtMostIs DEF Sum
<1>11. low = Abs(pos) * Min(Prices) /\ high = Abs(pos) * Max(Prices)
  BY ONLY <1>4, <1>5, <1>8 DEF lowest, highest
<1> QED BY ONLY <1>7, <1>10, <1>11, Zenon

(* The four properties follow from the invariant.                          *)
LEMMA InvGives ==
    IInv => MarkedToMarket /\ OpenVwapIsThePosition /\ ValuedAtTheBook /\ QuotesFollowTheBook
<1> SUFFICES ASSUME IInv
             PROVE  MarkedToMarket /\ OpenVwapIsThePosition /\ ValuedAtTheBook /\ QuotesFollowTheBook
  OBVIOUS
<1>1. MarkedToMarket
  BY Zenon DEF IInv, InfoInv, MarkedToMarket
<1>2. OpenVwapIsThePosition
  <2>1. ASSUME NEW t \in Tickers, NEW side, side = IF info[t].position > 0 THEN "BUY" ELSE "SELL"
        PROVE  /\ info[t].open_vwap[Opposite(side)] = Whole(0)
               /\ AtMost(Whole(Abs(info[t].position) * Min(Prices)), info[t].open_vwap[side])
               /\ AtMost(info[t].open_vwap[side], Whole(Abs(info[t].position) * Max(Prices)))
    <3>1. Balanced(info[t].position, info[t].open_vwap, info[t].real_pnl, cash[t])
      BY DEF IInv, InfoInv
    <3> QED BY ONLY <2>1, <3>1, BalancedIsOpen
  <2> QED BY <2>1, Zenon DEF OpenVwapIsThePosition
<1>3. ValuedAtTheBook
  BY Zenon DEF IInv, InfoInv, MarkInv, ValuedAtTheBook
<1>4. QuotesFollowTheBook
  BY DEF IInv
<1> QED BY <1>1, <1>2, <1>3, <1>4

(* total_pnl_, computed from averages by addFill and updateBBO             *)
(* (position_keeper.h), is the money received less the money paid plus the *)
(* position at the price of its last valuation, whatever the fills were.   *)
THEOREM ProfitIsMarkedToMarket == Spec => []MarkedToMarket
BY InvHolds, InvGives, PTL

(* Of the two open sums that addFill keeps (open_vwap_), the one of the    *)
(* side not held is zero, and the other averages to a price between the    *)
(* lowest and the highest of those at which there may be fills.            *)
THEOREM OpenSumsAreThePosition == Spec => []OpenVwapIsThePosition
BY InvHolds, InvGives, PTL

(* While a book has two sides, the profit that the risk manager reads is   *)
(* that of this book: handleResponse and handleMarketUpdate                *)
(* (trade_engine.cpp) leave no older valuation.                            *)
THEOREM ProfitIsOfTheBook == Spec => []ValuedAtTheBook
BY InvHolds, InvGives, PTL

(* A quote of the market maker or of the liquidity taker is about a        *)
(* two-sided book, and is what its signal for this very book calls for,    *)
(* although one FeatureEngine serves every instrument.                     *)
THEOREM QuotesAreOfTheBook == Spec => []QuotesFollowTheBook
BY InvHolds, InvGives, PTL

=============================================================================
