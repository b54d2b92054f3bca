-------------------------- MODULE PriceImpactProofs ---------------------------
(***************************************************************************)
(* The estimate of a price impact is exact and gives up only if it must,   *)
(* proved for routes of any length, words of any width and all prices.     *)
(***************************************************************************)
EXTENDS PriceImpactInvariant, TLAPS, FiniteSetTheorems, WellFoundedInduction

-----------------------------------------------------------------------------
(***************************************************************************)
(* Numbers, and induction by a set of them.                                *)
(***************************************************************************)
LEMMA Division ==
  ASSUME NEW a \in Nat, NEW b \in Nat \ {0}
  PROVE  /\ a \div b \in Nat /\ a % b \in 0..b - 1
         /\ a = b * (a \div b) + (a % b)
  OBVIOUS

LEMMA Monotone ==
  ASSUME NEW a \in Nat, NEW b \in Int, NEW c \in Int, b <= c
  PROVE  a * b <= a * c
  OBVIOUS

LEMMA Cancel ==
  ASSUME NEW a \in Nat \ {0}, NEW b \in Int, NEW c \in Int, a * b <= a * c
  PROVE  b <= c
<1> SUFFICES ASSUME c + 1 <= b PROVE FALSE
  OBVIOUS
<1>1. a * (c + 1) <= a * b
  BY Monotone
<1>2. a * (c + 1) = a * c + a
  OBVIOUS
<1> QED BY <1>1, <1>2

LEMMA CancelEqual ==
  ASSUME NEW a \in Nat \ {0}, NEW b \in Int, NEW c \in Int, a * b = a * c
  PROVE  b = c
<1>1. b <= c
  BY Cancel
<1>2. c <= b
  BY Cancel
<1> QED BY <1>1, <1>2

LEMMA DivisionUnique ==
  ASSUME NEW a \in Nat, NEW b \in Nat \ {0}, NEW q \in Nat, NEW r \in 0..b - 1,
         a = b * q + r
  PROVE  a \div b = q /\ a % b = r
  BY Division

Below == {ss \in Nat \X Nat : ss[1] < ss[2]}
LEMMA BelowWF == IsWellFoundedOn(Below, Nat)
  BY NatLessThanWellFounded DEF OpToRel, Below

LEMMA Least ==
  ASSUME NEW T \in SUBSET Nat, T # {}
  PROVE  \E m \in T : \A k \in T : ~(k < m)
<1>1. \A x, y \in Nat : x < y => <<x, y>> \in Below
  BY DEF Below
<1>2. \E x \in T : \A y \in T : ~(<<y, x>> \in Below)
  BY BelowWF, WFMin
<1> QED BY <1>1, <1>2

LEMMA Induction ==
  ASSUME NEW L \in Nat, NEW T \in SUBSET (0..L), 0 \in T,
         \A n \in T : n < L => n + 1 \in T
  PROVE  T = 0..L
<1> DEFINE U == {n \in 0..L : n \notin T}
<1> SUFFICES ASSUME U # {} PROVE FALSE
  OBVIOUS
<1>1. PICK m \in U : \A k \in U : ~(k < m)
  <2>1. U \in SUBSET Nat
    OBVIOUS
  <2> HIDE DEF U
  <2> QED BY <2>1, Least
<1>2. m \in 1..L /\ m - 1 \in 0..L /\ m - 1 < m
  OBVIOUS
<1>3. m - 1 \in T
  BY <1>1, <1>2
<1> QED BY <1>1, <1>2, <1>3

-----------------------------------------------------------------------------
(***************************************************************************)
(* Euclid's algorithm.                                                     *)
(***************************************************************************)
Divides(d, n) == \E k \in Int : n = d * k
Common(a, b)  == {d \in Nat : Divides(d, a) /\ Divides(d, b)}
Combines(g, a, b) == \E x, y \in Int : g = a * x + b * y

LEMMA DivisorAtMost ==
  ASSUME NEW d \in Nat, NEW n \in Nat \ {0}, Divides(d, n)
  PROVE  d <= n /\ d # 0
<1>1. PICK k \in Int : n = d * k
  BY DEF Divides
<1>2. d # 0
  BY <1>1
<1>3. k >= 1
  <2>1. SUFFICES ASSUME k <= 0 PROVE FALSE
    OBVIOUS
  <2>2. d * k <= d * 0
    BY <2>1, Monotone
  <2> QED BY <1>1, <2>2
<1>4. d * 1 <= d * k
  BY <1>3, Monotone
<1> QED BY <1>1, <1>2, <1>4

LEMMA DividesEachOther ==
  ASSUME NEW a \in Nat, NEW b \in Nat, Divides(a, b), Divides(b, a)
  PROVE  a = b
<1>1. CASE a = 0
  BY <1>1 DEF Divides
<1>2. CASE b = 0
  BY <1>2 DEF Divides
<1>3. CASE a # 0 /\ b # 0
  BY <1>3, DivisorAtMost
<1> QED BY <1>1, <1>2, <1>3

(* A division keeps the common divisors.                                   *)
LEMMA CommonKept ==
  ASSUME NEW a \in Nat, NEW b \in Nat \ {0}
  PROVE  Common(a, b) = Common(b, a % b)
<1> DEFINE q == a \div b
           r == a % b
<1>1. q \in Nat /\ r \in Nat /\ a = b * q + r
  BY Division
<1> HIDE DEF q, r
<1>2. ASSUME NEW d \in Nat, Divides(d, a), Divides(d, b) PROVE Divides(d, r)
  <2>1. PICK k \in Int, m \in Int : a = d * k /\ b = d * m
    BY <1>2 DEF Divides
  <2>2. b * q = d * (m * q) /\ m * q \in Int
    BY <1>1, <2>1
  <2>3. PICK c \in Int : c = m * q
    BY <2>2
  <2>4. r = d * (k - c)
    BY <1>1, <2>1, <2>2, <2>3
  <2> QED BY <2>4 DEF Divides
<1>3. ASSUME NEW d \in Nat, Divides(d, b), Divides(d, r) PROVE Divides(d, a)
  <2>1. PICK k \in Int, m \in Int : b = d * k /\ r = d * m
    BY <1>3 DEF Divides
  <2>2. b * q = d * (k * q) /\ k * q \in Int
    BY <1>1, <2>1
  <2>3. PICK c \in Int : c = k * q
    BY <2>2
  <2>4. a = d * (c + m)
    BY <1>1, <2>1, <2>2, <2>3
  <2> QED BY <2>4 DEF Divides
<1>4. Common(a, b) = Common(b, r)
  BY <1>2, <1>3 DEF Common
<1> QED BY <1>4 DEF r

Greatest(a, b) == CHOOSE d \in Common(a, b) : \A e \in Common(a, b) : Divides(e, d)

LEMMA GreatestAtZero ==
  ASSUME NEW a \in Nat
  PROVE  Greatest(a, 0) = a
<1>1. a = a * 1 /\ 0 = a * 0
  OBVIOUS
<1>2. a \in Common(a, 0)
  BY <1>1 DEF Common, Divides
<1>3. \A e \in Common(a, 0) : Divides(e, a)
  BY DEF Common
<1>4. ASSUME NEW d \in Common(a, 0), \A e \in Common(a, 0) : Divides(e, d) PROVE d = a
  BY <1>2, <1>3, <1>4, DividesEachOther DEF Common
<1> QED BY <1>2, <1>3, <1>4 DEF Greatest

(* There is a function that recurs as Euclid does, so Euclid is one.       *)
LEMMA EuclidRecurs ==
  \A a, b \in Nat : gcd(a, b) = IF b = 0 THEN a ELSE gcd(b, a % b)
<1> DEFINE Recurs(f) ==
      f = [p \in Nat \X Nat |-> IF p[2] = 0 THEN p[1] ELSE f[<<p[2], p[1] % p[2]>>]]
           g == [p \in Nat \X Nat |-> Greatest(p[1], p[2])]
<1>1. ASSUME NEW p \in Nat \X Nat
      PROVE  g[p] = IF p[2] = 0 THEN p[1] ELSE g[<<p[2], p[1] % p[2]>>]
  <2>1. g[p] = Greatest(p[1], p[2]) /\ p[1] \in Nat /\ p[2] \in Nat
    OBVIOUS
  <2>2. CASE p[2] = 0
    BY <2>1, <2>2, GreatestAtZero
  <2>3. CASE p[2] # 0
    <3>1. p[1] % p[2] \in Nat
      BY <2>1, <2>3, Division
    <3>2. <<p[2], p[1] % p[2]>> \in Nat \X Nat
      BY <2>1, <3>1
    <3>3. g[<<p[2], p[1] % p[2]>>] = Greatest(p[2], p[1] % p[2])
      BY <3>2
    <3>4. Common(p[1], p[2]) = Common(p[2], p[1] % p[2])
      BY <2>1, <2>3, CommonKept
    <3>5. Greatest(p[1], p[2]) = Greatest(p[2], p[1] % p[2])
      BY <3>4 DEF Greatest
    <3> QED BY <2>1, <2>3, <3>3, <3>5
  <2> QED BY <2>2, <2>3
<1>2. Recurs(g)
  <2>1. g = [p \in Nat \X Nat |-> g[p]]
    OBVIOUS
  <2> HIDE DEF g
  <2> QED BY <1>1, <2>1
<1>3. Recurs(Euclid)
  <2>1. Euclid = CHOOSE f : Recurs(f)
    BY DEF Euclid
  <2> HIDE DEF Recurs, g
  <2> QED BY <1>2, <2>1
<1>4. TAKE a, b \in Nat
<1>5. <<a, b>> \in Nat \X Nat
  OBVIOUS
<1>6. Euclid[<<a, b>>] = IF b = 0 THEN a ELSE Euclid[<<b, a % b>>]
  BY <1>3, <1>5
<1> QED BY <1>6 DEF gcd

(* It finds a common divisor that is a combination of the two numbers.     *)
Bezout(a, b) ==
  /\ gcd(a, b) \in Common(a, b)
  /\ Combines(gcd(a, b), a, b)

Divided(a, b, q, r) == a = b * q + r /\ r < b
LEMMA Divide ==
  ASSUME NEW a \in Nat, NEW b \in Nat \ {0}
  PROVE  \E q \in Nat, r \in Nat : Divided(a, b, q, r) /\ r = a % b
<1>1. /\ a \div b \in Nat /\ a % b \in 0..b - 1
      /\ a = b * (a \div b) + (a % b)
  BY Division
<1>2. PICK q \in Nat, r \in Nat : q = a \div b /\ r = a % b
  BY <1>1
<1>3. a = b * q + r /\ r < b
  BY <1>1, <1>2
<1> QED BY <1>2, <1>3 DEF Divided

LEMMA Recombined ==
  ASSUME NEW a \in Nat, NEW b \in Nat, NEW q \in Nat, NEW r \in Nat, NEW g,
         Divided(a, b, q, r), Combines(g, b, r)
  PROVE  Combines(g, a, b)
<1>1. PICK x \in Int, y \in Int : g = b * x + r * y
  BY DEF Combines
<1>2. r = a - b * q
  BY DEF Divided
<1>3. r * y = a * y - b * (q * y)
  BY <1>2
<1>4. PICK c \in Int : c = q * y
  OBVIOUS
<1>5. g = a * y + b * (x - c) /\ x - c \in Int
  BY <1>1, <1>3, <1>4
<1> QED BY <1>5 DEF Combines

LEMMA EuclidFinds ==
  \A a, b \in Nat : Bezout(a, b)
<1> DEFINE T == {b \in Nat : \E a \in Nat : ~Bezout(a, b)}
<1> SUFFICES ASSUME T # {} PROVE FALSE
  OBVIOUS
<1>1. PICK b \in T : \A k \in T : ~(k < b)
  <2>1. T \in SUBSET Nat
    OBVIOUS
  <2> HIDE DEF T
  <2> QED BY <2>1, Least
<1>2. b \in Nat
  OBVIOUS
<1>3. PICK a \in Nat : ~Bezout(a, b)
  BY <1>1
<1>4. CASE b = 0
  <2>1. gcd(a, b) = a
    BY <1>2, <1>4, EuclidRecurs
  <2>2. a = a * 1 /\ 0 = a * 0 /\ a = a * 1 + 0 * 0
    OBVIOUS
  <2>3. a \in Common(a, 0)
    BY <2>2 DEF Common, Divides
  <2>4. Combines(a, a, 0)
    BY <2>2 DEF Combines
  <2> QED BY <1>3, <1>4, <2>1, <2>3, <2>4 DEF Bezout
<1>5. CASE b # 0
  <2>1. PICK q \in Nat, r \in Nat : Divided(a, b, q, r) /\ r = a % b
    BY <1>2, <1>3, <1>5, Divide
  <2>2. r \notin T
    BY <1>1, <1>2, <2>1 DEF Divided
  <2>3. Bezout(b, r)
    BY <1>2, <2>1, <2>2
  <2> HIDE DEF T
  <2>4. gcd(a, b) = gcd(b, r) /\ Common(a, b) = Common(b, r)
    BY <1>2, <1>5, <2>1, EuclidRecurs, CommonKept
  <2>5. Combines(gcd(b, r), a, b)
    BY <1>2, <2>1, <2>3, Recombined DEF Bezout
  <2> QED BY <1>3, <2>3, <2>4, <2>5 DEF Bezout
<1> QED BY <1>4, <1>5

(* gcd is the greatest common divisor of any two numbers                   *)
(* (price_impact.rs:342).                                                  *)
THEOREM GcdIsGreatest ==
  \A a, b \in Nat : gcd(a, b) \in Common(a, b) /\ \A e \in Common(a, b) : Divides(e, gcd(a, b))
<1>1. SUFFICES ASSUME NEW a \in Nat, NEW b \in Nat, NEW e \in Common(a, b)
               PROVE  Divides(e, gcd(a, b))
  BY EuclidFinds DEF Bezout
<1>2. e \in Nat /\ Divides(e, a) /\ Divides(e, b)
  BY DEF Common
<1>3. PICK k \in Int, m \in Int : a = e * k /\ b = e * m
  BY <1>2 DEF Divides
<1>4. PICK x \in Int, y \in Int : gcd(a, b) = a * x + b * y
  BY EuclidFinds DEF Bezout, Combines
<1>5. PICK c \in Int : c = k * x + m * y
  BY <1>3, <1>4
<1>6. (e * k) * x + (e * m) * y = e * (k * x + m * y)
  BY <1>2, <1>3, <1>4
<1>7. gcd(a, b) = e * c
  BY <1>3, <1>4, <1>5, <1>6
<1> QED BY <1>7 DEF Divides

-----------------------------------------------------------------------------
(***************************************************************************)
(* Fractions in lowest terms.                                              *)
(***************************************************************************)
Positive == Nat \ {0}
Coprime(a, b) == Combines(1, a, b)

LEMMA CoprimeSwaps ==
  ASSUME NEW a \in Nat, NEW b \in Nat, Coprime(a, b)
  PROVE  Coprime(b, a)
<1>1. PICK x \in Int, y \in Int : 1 = a * x + b * y
  BY DEF Coprime, Combines
<1>2. 1 = b * y + a * x
  BY <1>1
<1> QED BY <1>2 DEF Coprime, Combines

(* Factors of coprime numbers are coprime.                                 *)
Factor(k, a) == \E d \in Nat : a = d * k
LEMMA CoprimeFactor ==
  ASSUME NEW a \in Nat, NEW b \in Nat, NEW k \in Nat, Factor(k, a), Coprime(a, b)
  PROVE  Coprime(k, b)
<1>1. PICK d \in Nat : a = d * k
  BY DEF Factor
<1>2. PICK x \in Int, y \in Int : 1 = a * x + b * y
  BY DEF Coprime, Combines
<1>3. (d * k) * x = k * (d * x) /\ d * x \in Int
  OBVIOUS
<1>4. PICK c \in Int : c = d * x
  BY <1>3
<1>5. 1 = k * c + b * y
  BY <1>1, <1>2, <1>3, <1>4
<1> QED BY <1>5 DEF Coprime, Combines

LEMMA CoprimeFactors ==
  ASSUME NEW a \in Nat, NEW b \in Nat, NEW k \in Nat, NEW m \in Nat,
         Factor(k, a), Factor(m, b), Coprime(a, b)
  PROVE  Coprime(k, m)
BY CoprimeFactor, CoprimeSwaps

LEMMA CoprimeProduct ==
  ASSUME NEW a \in Nat, NEW b \in Nat, NEW c \in Nat, Coprime(a, c), Coprime(b, c)
  PROVE  Coprime(a * b, c)
<1>1. PICK x \in Int, y \in Int : 1 = a * x + c * y
  BY DEF Coprime, Combines
<1>2. PICK u \in Int, v \in Int : 1 = b * u + c * v
  BY DEF Coprime, Combines
<1>3. b * u = b * u * (a * x + c * y)
  BY <1>1
<1>4. b * u * (a * x + c * y) = (a * b) * (x * u) + c * (b * u * y)
  OBVIOUS
<1>5. PICK s \in Int, t \in Int : s = x * u /\ t = b * u * y
  OBVIOUS
<1>6. PICK p \in Int : p = a * b
  OBVIOUS
<1>7. 1 = p * s + c * (t + v)
  <2>1. b * u = p * s + c * t
    BY <1>3, <1>4, <1>5, <1>6
  <2> QED BY <1>2, <2>1
<1>8. PICK w \in Int : w = t + v
  OBVIOUS
<1>9. 1 = p * s + c * w
  BY <1>7, <1>8
<1>10. Coprime(p, c)
  BY <1>9 DEF Coprime, Combines
<1> QED BY <1>6, <1>10

LEMMA CoprimeDivides ==
  ASSUME NEW a \in Nat, NEW b \in Nat, NEW c \in Nat, NEW d \in Nat,
         Coprime(a, b), a * d = b * c
  PROVE  Divides(a, c)
<1>1. PICK x \in Int, y \in Int : 1 = a * x + b * y
  BY DEF Coprime, Combines
<1>2. c = c * (a * x + b * y)
  BY <1>1
<1>3. c * (a * x + b * y) = a * (c * x) + (b * c) * y
  OBVIOUS
<1>4. (b * c) * y = (a * d) * y /\ (a * d) * y = a * (d * y)
  OBVIOUS
<1>5. PICK s \in Int, t \in Int : s = c * x /\ t = d * y
  OBVIOUS
<1>6. c = a * (s + t)
  BY <1>2, <1>3, <1>4, <1>5
<1> QED BY <1>6 DEF Divides

(* There is one way to write a fraction in lowest terms.                   *)
Equal(a, b, p, q) == a * q = p * b
LEMMA LowestUnique ==
  ASSUME NEW a \in Nat, NEW b \in Nat, NEW p \in Nat, NEW q \in Nat,
         Coprime(a, b), Coprime(p, q), Equal(a, b, p, q)
  PROVE  a = p /\ b = q
<1>1. a * q = b * p /\ p * b = q * a /\ b * p = a * q /\ q * a = p * b
  BY DEF Equal
<1>2. Coprime(b, a) /\ Coprime(q, p)
  BY CoprimeSwaps
<1>3. Divides(a, p) /\ Divides(p, a)
  BY <1>1, CoprimeDivides
<1>4. Divides(b, q) /\ Divides(q, b)
  BY <1>1, <1>2, CoprimeDivides
<1> QED BY <1>3, <1>4, DividesEachOther

(* The greatest common divisor divides exactly, and leaves nothing common. *)
Reduces(g, a, b, k, m) ==
  /\ g \in Positive /\ k \in Nat /\ m \in Nat
  /\ a = g * k /\ b = g * m /\ a \div g = k /\ b \div g = m /\ Coprime(k, m)

LEMMA ExactDivision ==
  ASSUME NEW g \in Positive, NEW a \in Nat, Divides(g, a)
  PROVE  \E k \in Nat : a = g * k /\ a \div g = k
<1>1. PICK k \in Int : a = g * k
  BY DEF Divides
<1>2. k \in Nat
  <2>1. SUFFICES ASSUME k <= -1 PROVE FALSE
    OBVIOUS
  <2>2. g * k <= g * (-1)
    BY <2>1, Monotone DEF Positive
  <2> QED BY <1>1, <2>2 DEF Positive
<1>3. a = g * k + 0
  BY <1>1, <1>2 DEF Positive
<1>4. a \div g = k
  BY <1>2, <1>3, DivisionUnique DEF Positive
<1> QED BY <1>1, <1>2, <1>4

LEMMA GcdReduces ==
  ASSUME NEW a \in Nat, NEW b \in Positive
  PROVE  /\ \E k, m \in Nat : Reduces(gcd(a, b), a, b, k, m)
         /\ \E k, m \in Nat : Reduces(gcd(b, a), b, a, k, m)
<1>1. ASSUME NEW g \in Nat, NEW c \in Nat, NEW d \in Nat, c # 0 \/ d # 0,
             g \in Common(c, d), Combines(g, c, d)
      PROVE  \E k, m \in Nat : Reduces(g, c, d, k, m)
  <2>1. Divides(g, c) /\ Divides(g, d)
    BY <1>1 DEF Common
  <2>2. g \in Positive
    <3>1. SUFFICES ASSUME g = 0 PROVE FALSE
      BY DEF Positive
    <3>2. c = 0 /\ d = 0
      BY <2>1, <3>1 DEF Divides
    <3> QED BY <1>1, <3>2
  <2>3. PICK k \in Nat : c = g * k /\ c \div g = k
    BY <2>1, <2>2, ExactDivision
  <2>4. PICK m \in Nat : d = g * m /\ d \div g = m
    BY <2>1, <2>2, ExactDivision
  <2>5. PICK x \in Int, y \in Int : g = c * x + d * y
    BY <1>1 DEF Combines
  <2>6. (g * k) * x + (g * m) * y = g * (k * x + m * y) /\ k * x + m * y \in Int
    OBVIOUS
  <2>7. PICK z \in Int : z = k * x + m * y
    BY <2>6
  <2>8. g * 1 = g * z
    BY <2>3, <2>4, <2>5, <2>6, <2>7
  <2>9. z = 1
    BY <2>2, <2>8, CancelEqual DEF Positive
  <2>10. Coprime(k, m)
    BY <2>7, <2>9 DEF Coprime, Combines
  <2> QED BY <2>2, <2>3, <2>4, <2>10 DEF Reduces
<1>2. b \in Nat /\ b # 0
  BY DEF Positive
<1>3. Bezout(a, b) /\ Bezout(b, a)
  BY <1>2, EuclidFinds
<1>4. gcd(a, b) \in Nat /\ gcd(b, a) \in Nat
  BY <1>3 DEF Bezout, Common
<1> QED BY <1>1, <1>2, <1>3, <1>4 DEF Bezout

-----------------------------------------------------------------------------
(***************************************************************************)
(* A multiplication gives the product in lowest terms, if that fits.       *)
(***************************************************************************)
IsLowest(p, q, a, b) ==
  /\ a \in Positive /\ b \in Positive /\ Coprime(a, b) /\ Equal(p, q, a, b)

LEMMA PositiveFactors ==
  ASSUME NEW a \in Nat, NEW b \in Nat, a * b \in Positive
  PROVE  a \in Positive /\ b \in Positive
BY DEF Positive

LEMMA PositiveProduct ==
  ASSUME NEW a \in Positive, NEW b \in Positive
  PROVE  a * b \in Positive
<1>1. a * 1 <= a * b
  BY Monotone DEF Positive
<1> QED BY <1>1 DEF Positive

(* Lowest writes a fraction in lowest terms, as any other way to do so.    *)
LEMMA LowestIs ==
  ASSUME NEW p \in Positive, NEW q \in Positive
  PROVE  \E a, b \in Nat : Lowest(<<p, q>>) = <<a, b>> /\ IsLowest(p, q, a, b)
<1>1. p \in Nat /\ q \in Nat
  BY DEF Positive
<1>2. PICK k \in Nat, m \in Nat : Reduces(gcd(p, q), p, q, k, m)
  BY <1>1, GcdReduces
<1>3. PICK g : g = gcd(p, q)
  OBVIOUS
<1>4. g \in Positive /\ p = g * k /\ q = g * m /\ p \div g = k /\ q \div g = m /\ Coprime(k, m)
  BY <1>2, <1>3 DEF Reduces
<1>5. k \in Positive /\ m \in Positive
  BY <1>1, <1>4, PositiveFactors DEF Positive
<1>6. p * m = k * q
  <2>1. p * m = (g * k) * m /\ k * q = k * (g * m)
    BY <1>4
  <2>2. (g * k) * m = k * (g * m)
    BY <1>4 DEF Positive
  <2> QED BY <2>1, <2>2
<1>7. Lowest(<<p, q>>) = <<k, m>>
  BY <1>3, <1>4 DEF Lowest
<1> QED BY <1>4, <1>5, <1>6, <1>7 DEF IsLowest, Equal

LEMMA LowestTwice ==
  ASSUME NEW p \in Positive, NEW q \in Positive, NEW a, NEW b, NEW c, NEW d,
         IsLowest(p, q, a, b), IsLowest(p, q, c, d)
  PROVE  a = c /\ b = d
<1>1. p * b = a * q /\ p * d = c * q
  BY DEF IsLowest, Equal
<1>2. {a, b, c, d, p, q} \subseteq Nat /\ q \in Nat \ {0} /\ p \in Nat \ {0}
  BY DEF IsLowest, Positive
<1>3. q * (a * d) = q * (c * b)
  <2>1. q * (a * d) = (a * q) * d /\ q * (c * b) = (c * q) * b
    BY <1>2
  <2>2. (p * b) * d = (p * d) * b
    BY <1>2
  <2> QED BY <1>1, <2>1, <2>2
<1>4. a * d \in Int /\ c * b \in Int
  BY <1>2
<1>5. a * d = c * b
  BY <1>2, <1>3, <1>4, CancelEqual
<1> QED BY <1>2, <1>5, LowestUnique DEF IsLowest, Equal

(* What multiply leaves of its four numbers after the reductions.          *)
Parts(n, d, N, D, g, l, r, n1, d1, n2, d2, N1, D1) ==
  /\ {g, l, r} \subseteq Positive /\ {n1, d1, n2, d2, N1, D1} \subseteq Nat
  /\ n = g * n1 /\ d = g * d1
  /\ N = l * N1 /\ d1 = l * d2 /\ n1 = r * n2 /\ D = r * D1

LEMMA PartsEqual ==
  ASSUME NEW n, NEW d, NEW N, NEW D, NEW g, NEW l, NEW r,
         NEW n1, NEW d1, NEW n2, NEW d2, NEW N1, NEW D1,
         Parts(n, d, N, D, g, l, r, n1, d1, n2, d2, N1, D1)
  PROVE  (N * n) * (D1 * d2) = (N1 * n2) * (D * d)
<1>1. {g, l, r, n1, d1, n2, d2, N1, D1} \subseteq Nat
  BY DEF Parts, Positive
<1>2. n = g * (r * n2) /\ d = g * (l * d2) /\ N = l * N1 /\ D = r * D1
  BY DEF Parts
<1>3. ((l * N1) * (g * (r * n2))) * (D1 * d2) = (N1 * n2) * ((r * D1) * (g * (l * d2)))
  BY <1>1
<1> QED BY <1>2, <1>3

LEMMA PartsCoprime ==
  ASSUME NEW n \in Positive, NEW d \in Positive, NEW N \in Positive, NEW D \in Positive,
         NEW g, NEW l, NEW r, NEW n1, NEW d1, NEW n2, NEW d2, NEW N1, NEW D1,
         Parts(n, d, N, D, g, l, r, n1, d1, n2, d2, N1, D1),
         Coprime(N, D), Coprime(n1, d1), Coprime(N1, d2), Coprime(n2, D1)
  PROVE  Coprime(N1 * n2, D1 * d2)
<1>1. {g, l, r, n1, d1, n2, d2, N1, D1, n, d, N, D} \subseteq Nat
  BY DEF Parts, Positive
<1>2. Factor(N1, N) /\ Factor(D1, D) /\ Factor(n2, n1) /\ Factor(d2, d1)
  BY <1>1 DEF Parts, Factor
<1>3. Coprime(N1, D1) /\ Coprime(n2, d2)
  BY <1>1, <1>2, CoprimeFactors
<1>4. Coprime(D1, N1) /\ Coprime(d2, N1) /\ Coprime(D1, n2) /\ Coprime(d2, n2)
  BY <1>1, <1>3, CoprimeSwaps
<1>5. Coprime(D1 * d2, N1) /\ Coprime(D1 * d2, n2)
  BY <1>1, <1>4, CoprimeProduct
<1>6. D1 * d2 \in Nat /\ N1 * n2 \in Nat
  BY <1>1
<1>7. Coprime(N1, D1 * d2) /\ Coprime(n2, D1 * d2)
  BY <1>1, <1>5, <1>6, CoprimeSwaps
<1> QED BY <1>1, <1>6, <1>7, CoprimeProduct

Fraction(n, d) == [numerator |-> n, denominator |-> d]
Kept(a, b) == IF a <= WideMax /\ b <= WideMax THEN {Fraction(a, b)} ELSE {}

LEMMA MakeChecked ==
  ASSUME NEW a \in Nat, NEW b \in Nat
  PROVE  Make(checked(a), checked(b)) = Kept(a, b)
BY DEF Make, checked, Kept, Fraction

LEMMA MultiplyParts ==
  ASSUME NEW n \in Positive, NEW d \in Positive, NEW N \in Positive, NEW D \in Positive,
         Coprime(N, D)
  PROVE  \E N1, n2, D1, d2 \in Nat :
           /\ N1 * n2 \in Positive /\ D1 * d2 \in Positive
           /\ Coprime(N1 * n2, D1 * d2)
           /\ (N * n) * (D1 * d2) = (N1 * n2) * (D * d)
           /\ multiply({Fraction(N, D)}, n, d) = Make(checked(N1 * n2), checked(D1 * d2))
<1> DEFINE g == gcd(n, d)
           n1 == n \div g
           d1 == d \div g
           l == gcd(N, d1)
           r == gcd(n1, D)
<1>1. Reduces(g, n, d, n1, d1)
  <2>1. n \in Nat
    BY DEF Positive
  <2>2. PICK k \in Nat, m \in Nat : Reduces(g, n, d, k, m)
    BY <2>1, GcdReduces
  <2>3. n1 = k /\ d1 = m
    BY <2>2 DEF Reduces
  <2> QED BY <2>2, <2>3
<1>2. multiply({Fraction(N, D)}, n, d) =
        Make(checked((N \div l) * (n1 \div r)), checked((D \div r) * (d1 \div l)))
  <2> DEFINE M(f) == LET left == gcd(f.numerator, d1)
                         right == gcd(n1, f.denominator)
                     IN  Make(checked((f.numerator \div left) * (n1 \div right)),
                              checked((f.denominator \div right) * (d1 \div left)))
             F == Fraction(N, D)
  <2>1. multiply({F}, n, d) = UNION {M(f) : f \in {F}}
    BY DEF multiply, Positive
  <2>2. M(F) = Make(checked((N \div l) * (n1 \div r)), checked((D \div r) * (d1 \div l)))
    BY DEF Fraction
  <2> HIDE DEF M, F
  <2>3. UNION {M(f) : f \in {F}} = M(F)
    OBVIOUS
  <2> QED BY <2>1, <2>2, <2>3 DEF F
<1> HIDE DEF g, n1, d1
<1>3. g \in Positive /\ n1 \in Nat /\ d1 \in Nat /\ n = g * n1 /\ d = g * d1 /\ Coprime(n1, d1)
  BY <1>1 DEF Reduces
<1>4. g \in Nat /\ n \in Nat /\ d \in Nat /\ N \in Nat /\ D \in Nat
  BY <1>3 DEF Positive
<1>5. n1 \in Positive /\ d1 \in Positive
  BY <1>3, <1>4, PositiveFactors
<1>6. PICK N1 \in Nat, d2 \in Nat : Reduces(l, N, d1, N1, d2)
  BY <1>4, <1>5, GcdReduces
<1>7. PICK n2 \in Nat, D1 \in Nat : Reduces(r, n1, D, n2, D1)
  BY <1>3, GcdReduces
<1> HIDE DEF l, r
<1>8. /\ l \in Positive /\ N = l * N1 /\ d1 = l * d2 /\ Coprime(N1, d2)
      /\ N \div l = N1 /\ d1 \div l = d2
  BY <1>6 DEF Reduces
<1>9. /\ r \in Positive /\ n1 = r * n2 /\ D = r * D1 /\ Coprime(n2, D1)
      /\ n1 \div r = n2 /\ D \div r = D1
  BY <1>7 DEF Reduces
<1>10. l \in Nat /\ r \in Nat
  BY <1>8, <1>9 DEF Positive
<1>11. N1 \in Positive /\ d2 \in Positive /\ n2 \in Positive /\ D1 \in Positive
  BY <1>5, <1>6, <1>7, <1>8, <1>9, <1>10, PositiveFactors
<1>12. Parts(n, d, N, D, g, l, r, n1, d1, n2, d2, N1, D1)
  BY <1>3, <1>6, <1>7, <1>8, <1>9 DEF Parts
<1>13. Coprime(N1 * n2, D1 * d2)
  BY <1>3, <1>8, <1>9, <1>12, PartsCoprime
<1>14. (N * n) * (D1 * d2) = (N1 * n2) * (D * d)
  BY <1>12, PartsEqual
<1>15. N1 * n2 \in Positive /\ D1 * d2 \in Positive
  BY <1>11, PositiveProduct
<1>16. multiply({Fraction(N, D)}, n, d) = Make(checked(N1 * n2), checked(D1 * d2))
  BY <1>2, <1>8, <1>9
<1> QED BY <1>6, <1>7, <1>13, <1>14, <1>15, <1>16

(* multiply(N / D, n / d) is a / b, the product in lowest terms, or nothing *)
(* if that does not fit.                                                   *)
Multiplied(N, D, n, d, a, b) ==
  /\ IsLowest(N * n, D * d, a, b) /\ Lowest(<<N * n, D * d>>) = <<a, b>>
  /\ multiply({Fraction(N, D)}, n, d) = Kept(a, b)

(* multiply, which reduces before it multiplies, gives the product in      *)
(* lowest terms of any fraction in lowest terms and any price, and gives   *)
(* up exactly if that does not fit (price_impact.rs:307).                  *)
THEOREM MultiplyLowest ==
  ASSUME NEW n \in Positive, NEW d \in Positive, NEW N \in Positive, NEW D \in Positive,
         Coprime(N, D)
  PROVE  \E a, b \in Positive : Multiplied(N, D, n, d, a, b)
<1>1. PICK N1 \in Nat, n2 \in Nat, D1 \in Nat, d2 \in Nat :
           /\ N1 * n2 \in Positive /\ D1 * d2 \in Positive
           /\ Coprime(N1 * n2, D1 * d2)
           /\ (N * n) * (D1 * d2) = (N1 * n2) * (D * d)
           /\ multiply({Fraction(N, D)}, n, d) = Make(checked(N1 * n2), checked(D1 * d2))
  BY MultiplyParts
<1>2. PICK a \in Positive, b \in Positive : a = N1 * n2 /\ b = D1 * d2
  BY <1>1
<1>3. PICK p \in Positive, q \in Positive : p = N * n /\ q = D * d
  BY PositiveProduct
<1>4. IsLowest(p, q, a, b)
  BY <1>1, <1>2, <1>3 DEF IsLowest, Equal
<1>5. PICK c \in Nat, e \in Nat : Lowest(<<p, q>>) = <<c, e>> /\ IsLowest(p, q, c, e)
  BY <1>3, LowestIs
<1>6. a = c /\ b = e
  BY <1>4, <1>5, LowestTwice
<1>7. a \in Nat /\ b \in Nat
  BY DEF Positive
<1>8. multiply({Fraction(N, D)}, n, d) = Kept(a, b)
  BY <1>1, <1>2, <1>7, MakeChecked
<1> QED BY <1>3, <1>4, <1>5, <1>6, <1>8 DEF Multiplied

-----------------------------------------------------------------------------
(***************************************************************************)
(* The recursive functions exist, so they step as they are written.        *)
(***************************************************************************)
Multiplying(P, n, factors) ==
  /\ P[0] = <<n, 1>>
  /\ \A i \in 1..Len(factors) :
       P[i] = Lowest(<<P[i - 1][1] * factors[i][1], P[i - 1][2] * factors[i][2]>>)
Marketing(f, references, n) ==
  /\ f[0] = amount(n)
  /\ \A i \in 1..Len(references) :
       f[i] = multiply(f[i - 1], references[i].numerator, references[i].denominator)

FeePips(r) == CHOOSE fee \in r.fee_pips : TRUE
AfterHop(S, r) ==
  IF FeePips(r) > PIPS \/ HookBps(r) > BPS THEN {}
  ELSE multiply(multiply(multiply(S, r.numerator, r.denominator), PIPS - FeePips(r), PIPS),
                BPS - HookBps(r), BPS)
Charging(f, references, n) ==
  /\ f[0] = amount(n)
  /\ \A i \in 1..Len(references) : f[i] = AfterHop(f[i - 1], references[i])

LEMMA ProductsStep ==
  ASSUME NEW n, NEW factors, Len(factors) \in Nat
  PROVE  Multiplying(Products(n, factors), n, factors)
<1> DEFINE L == Len(factors)
           base == <<n, 1>>
           Step(m, S) == Lowest(<<S[1] * factors[m][1], S[2] * factors[m][2]>>)
           Upto(k, g) == g = [m \in 0..k |-> IF m = 0 THEN base ELSE Step(m, g[m - 1])]
           T == {k \in 0..L : \E g : Upto(k, g)}
<1>1. 0 \in T
  <2>1. Upto(0, [m \in 0..0 |-> base])
    OBVIOUS
  <2> HIDE DEF Upto
  <2> QED BY <2>1
<1>2. ASSUME NEW k \in T, k < L PROVE k + 1 \in T
  <2>1. PICK g : Upto(k, g)
    OBVIOUS
  <2> HIDE DEF Step, base
  <2> DEFINE h == [m \in 0..k + 1 |-> IF m = k + 1 THEN Step(k + 1, g[k]) ELSE g[m]]
  <2>2. \A m \in 0..k : g[m] = IF m = 0 THEN base ELSE Step(m, g[m - 1])
    BY <2>1
  <2>3. \A m \in 0..k : h[m] = g[m]
    OBVIOUS
  <2>4. h[k + 1] = Step(k + 1, h[k])
    BY <2>3
  <2>5. \A m \in 0..k + 1 : h[m] = IF m = 0 THEN base ELSE Step(m, h[m - 1])
    <3> SUFFICES ASSUME NEW m \in 0..k + 1
                 PROVE  h[m] = IF m = 0 THEN base ELSE Step(m, h[m - 1])
      OBVIOUS
    <3>1. CASE m = k + 1
      BY <2>4, <3>1
    <3>2. CASE m \in 1..k
      <4>1. m - 1 \in 0..k
        BY <3>2
      <4> QED BY <2>2, <2>3, <3>2, <4>1
    <3>3. CASE m = 0
      BY <2>2, <2>3, <3>3
    <3> QED BY <3>1, <3>2, <3>3
  <2>6. Upto(k + 1, h)
    BY <2>5
  <2>7. k + 1 \in 0..L
    BY <1>2
  <2> HIDE DEF Upto, h
  <2> QED BY <2>6, <2>7
<1>3. \E g : Upto(L, g)
  <2>1. T \in SUBSET (0..L)
    OBVIOUS
  <2>2. T = 0..L
    <3> HIDE DEF T
    <3> QED BY <1>1, <1>2, <2>1, Induction
  <2> HIDE DEF Upto
  <2> QED BY <2>2
<1> DEFINE out == CHOOSE out : Upto(L, out)
<1>4. Upto(L, out)
  BY <1>3
<1>5. Products(n, factors) = out
  BY DEF Products
<1>6. /\ out[0] = base
      /\ \A m \in 1..L : out[m] = Step(m, out[m - 1])
  <2>1. PICK g : g = out
    OBVIOUS
  <2>2. g = [m \in 0..L |-> IF m = 0 THEN base ELSE Step(m, g[m - 1])]
    BY <1>4, <2>1
  <2>3. L \in Nat
    OBVIOUS
  <2> HIDE DEF base, Step, out, L, Upto, T
  <2>4. 0 \in 0..L /\ \A m \in 1..L : m \in 0..L /\ m # 0
    BY <2>3
  <2>5. g[0] = base /\ \A m \in 1..L : g[m] = Step(m, g[m - 1])
    BY <2>2, <2>4
  <2> QED BY <2>1, <2>5
<1> QED BY <1>5, <1>6 DEF Multiplying

LEMMA MarketSteps ==
  ASSUME NEW references, NEW n, Len(references) \in Nat
  PROVE  \E f : Marketing(f, references, n) /\ market(references, n) = f[Len(references)]
<1> DEFINE L == Len(references)
           base == amount(n)
           Step(m, S) == multiply(S, references[m].numerator, references[m].denominator)
           Upto(k, g) == g = [m \in 0..k |-> IF m = 0 THEN base ELSE Step(m, g[m - 1])]
           T == {k \in 0..L : \E g : Upto(k, g)}
<1>1. 0 \in T
  <2>1. Upto(0, [m \in 0..0 |-> base])
    OBVIOUS
  <2> HIDE DEF Upto
  <2> QED BY <2>1
<1>2. ASSUME NEW k \in T, k < L PROVE k + 1 \in T
  <2>1. PICK g : Upto(k, g)
    OBVIOUS
  <2> HIDE DEF Step, base
  <2> DEFINE h == [m \in 0..k + 1 |-> IF m = k + 1 THEN Step(k + 1, g[k]) ELSE g[m]]
  <2>2. \A m \in 0..k : g[m] = IF m = 0 THEN base ELSE Step(m, g[m - 1])
    BY <2>1
  <2>3. \A m \in 0..k : h[m] = g[m]
    OBVIOUS
  <2>4. h[k + 1] = Step(k + 1, h[k])
    BY <2>3
  <2>5. \A m \in 0..k + 1 : h[m] = IF m = 0 THEN base ELSE Step(m, h[m - 1])
    <3> SUFFICES ASSUME NEW m \in 0..k + 1
                 PROVE  h[m] = IF m = 0 THEN base ELSE Step(m, h[m - 1])
      OBVIOUS
    <3>1. CASE m = k + 1
      BY <2>4, <3>1
    <3>2. CASE m \in 1..k
      <4>1. m - 1 \in 0..k
        BY <3>2
      <4> QED BY <2>2, <2>3, <3>2, <4>1
    <3>3. CASE m = 0
      BY <2>2, <2>3, <3>3
    <3> QED BY <3>1, <3>2, <3>3
  <2>6. Upto(k + 1, h)
    BY <2>5
  <2>7. k + 1 \in 0..L
    BY <1>2
  <2> HIDE DEF Upto, h
  <2> QED BY <2>6, <2>7
<1>3. \E g : Upto(L, g)
  <2>1. T \in SUBSET (0..L)
    OBVIOUS
  <2>2. T = 0..L
    <3> HIDE DEF T
    <3> QED BY <1>1, <1>2, <2>1, Induction
  <2> HIDE DEF Upto
  <2> QED BY <2>2
<1> DEFINE out == CHOOSE out : Upto(L, out)
<1>4. Upto(L, out)
  BY <1>3
<1>5. market(references, n) = out[L]
  BY DEF market
<1>6. /\ out[0] = base
      /\ \A m \in 1..L : out[m] = Step(m, out[m - 1])
  <2>1. PICK g : g = out
    OBVIOUS
  <2>2. g = [m \in 0..L |-> IF m = 0 THEN base ELSE Step(m, g[m - 1])]
    BY <1>4, <2>1
  <2>3. L \in Nat
    OBVIOUS
  <2> HIDE DEF base, Step, out, L, Upto, T
  <2>4. 0 \in 0..L /\ \A m \in 1..L : m \in 0..L /\ m # 0
    BY <2>3
  <2>5. g[0] = base /\ \A m \in 1..L : g[m] = Step(m, g[m - 1])
    BY <2>2, <2>4
  <2> QED BY <2>1, <2>5
<1> QED BY <1>5, <1>6 DEF Marketing

LEMMA AfterFeeSteps ==
  ASSUME NEW references, NEW n, Len(references) \in Nat
  PROVE  \E f : Charging(f, references, n) /\ after_fee_reference(references, n) = f[Len(references)]
<1> DEFINE L == Len(references)
           base == amount(n)
           Step(m, S) == AfterHop(S, references[m])
           Upto(k, g) == g = [m \in 0..k |-> IF m = 0 THEN base ELSE Step(m, g[m - 1])]
           T == {k \in 0..L : \E g : Upto(k, g)}
<1>1. 0 \in T
  <2>1. Upto(0, [m \in 0..0 |-> base])
    OBVIOUS
  <2> HIDE DEF Upto
  <2> QED BY <2>1
<1>2. ASSUME NEW k \in T, k < L PROVE k + 1 \in T
  <2>1. PICK g : Upto(k, g)
    OBVIOUS
  <2> HIDE DEF Step, base
  <2> DEFINE h == [m \in 0..k + 1 |-> IF m = k + 1 THEN Step(k + 1, g[k]) ELSE g[m]]
  <2>2. \A m \in 0..k : g[m] = IF m = 0 THEN base ELSE Step(m, g[m - 1])
    BY <2>1
  <2>3. \A m \in 0..k : h[m] = g[m]
    OBVIOUS
  <2>4. h[k + 1] = Step(k + 1, h[k])
    BY <2>3
  <2>5. \A m \in 0..k + 1 : h[m] = IF m = 0 THEN base ELSE Step(m, h[m - 1])
    <3> SUFFICES ASSUME NEW m \in 0..k + 1
                 PROVE  h[m] = IF m = 0 THEN base ELSE Step(m, h[m - 1])
      OBVIOUS
    <3>1. CASE m = k + 1
      BY <2>4, <3>1
    <3>2. CASE m \in 1..k
      <4>1. m - 1 \in 0..k
        BY <3>2
      <4> QED BY <2>2, <2>3, <3>2, <4>1
    <3>3. CASE m = 0
      BY <2>2, <2>3, <3>3
    <3> QED BY <3>1, <3>2, <3>3
  <2>6. Upto(k + 1, h)
    BY <2>5
  <2>7. k + 1 \in 0..L
    BY <1>2
  <2> HIDE DEF Upto, h
  <2> QED BY <2>6, <2>7
<1>3. \E g : Upto(L, g)
  <2>1. T \in SUBSET (0..L)
    OBVIOUS
  <2>2. T = 0..L
    <3> HIDE DEF T
    <3> QED BY <1>1, <1>2, <2>1, Induction
  <2> HIDE DEF Upto
  <2> QED BY <2>2
<1> DEFINE out == CHOOSE out : Upto(L, out)
<1>4. Upto(L, out)
  BY <1>3
<1>5. after_fee_reference(references, n) = out[L]
  BY DEF after_fee_reference, AfterHop, FeePips
<1>6. /\ out[0] = base
      /\ \A m \in 1..L : out[m] = Step(m, out[m - 1])
  <2>1. PICK g : g = out
    OBVIOUS
  <2>2. g = [m \in 0..L |-> IF m = 0 THEN base ELSE Step(m, g[m - 1])]
    BY <1>4, <2>1
  <2>3. L \in Nat
    OBVIOUS
  <2> HIDE DEF base, Step, out, L, Upto, T
  <2>4. 0 \in 0..L /\ \A m \in 1..L : m \in 0..L /\ m # 0
    BY <2>3
  <2>5. g[0] = base /\ \A m \in 1..L : g[m] = Step(m, g[m - 1])
    BY <2>2, <2>4
  <2> QED BY <2>1, <2>5
<1> QED BY <1>5, <1>6 DEF Charging

-----------------------------------------------------------------------------
(***************************************************************************)
(* A chain of multiplications follows the products of its factors.         *)
(***************************************************************************)
Factors(factors) ==
  /\ Len(factors) \in Nat
  /\ \A i \in 1..Len(factors) : factors[i][1] \in Int /\ factors[i][2] \in Nat
Nonzero(f) == f[1] > 0 /\ f[2] > 0
Chain(f, n, factors) ==
  /\ f[0] = amount(n)
  /\ \A i \in 1..Len(factors) :
       f[i] = IF factors[i][1] < 0 THEN {} ELSE multiply(f[i - 1], factors[i][1], factors[i][2])

(* Unless it gives up, it is at the product; it only gives up if it must.  *)
Follows(S, P, i, factors) ==
  /\ S # {} => \A j \in 1..i : Nonzero(factors[j])
  /\ (\A j \in 1..i : Nonzero(factors[j])) =>
       \E a, b \in Positive :
         /\ P[i] = <<a, b>> /\ Coprime(a, b) /\ S \subseteq {Fraction(a, b)}
         /\ (\A j \in 0..i : Fits(P[j])) => S = {Fraction(a, b)}

LEMMA MultiplyNothing ==
  ASSUME NEW n, NEW d
  PROVE  multiply({}, n, d) = {}
BY DEF multiply

LEMMA SomeOrNone ==
  ASSUME NEW S, NEW x, S \subseteq {x}
  PROVE  S = {} \/ S = {x}
OBVIOUS

LEMMA ChainStarts ==
  ASSUME NEW n \in Positive, NEW P, NEW factors, Multiplying(P, n, factors)
  PROVE  Follows(amount(n), P, 0, factors)
<1>1. P[0] = <<n, 1>> /\ amount(n) = {Fraction(n, 1)}
  BY DEF Multiplying, amount, Fraction
<1>2. 1 = n * 0 + 1 * 1 /\ 1 \in Positive
  BY DEF Positive
<1>3. Coprime(n, 1)
  BY <1>2 DEF Coprime, Combines
<1>4. \A j \in 1..0 : Nonzero(factors[j])
  OBVIOUS
<1>5. PICK one \in Positive : one = 1
  BY <1>2
<1>6. P[0] = <<n, one>> /\ Coprime(n, one) /\ amount(n) = {Fraction(n, one)}
  BY <1>1, <1>3, <1>5
<1> QED BY <1>4, <1>6 DEF Follows

LEMMA ChainSteps ==
  ASSUME NEW n \in Positive, NEW P, NEW factors, NEW f, NEW i \in 0..Len(factors),
         Factors(factors), Multiplying(P, n, factors), Chain(f, n, factors),
         i < Len(factors), Follows(f[i], P, i, factors)
  PROVE  Follows(f[i + 1], P, i + 1, factors)
<1>1. /\ i + 1 \in 1..Len(factors) /\ (i + 1) - 1 = i /\ Len(factors) \in Nat
  BY DEF Factors
<1>2. PICK p \in Int, q \in Nat : p = factors[i + 1][1] /\ q = factors[i + 1][2]
  BY <1>1 DEF Factors
<1>3. f[i + 1] = IF p < 0 THEN {} ELSE multiply(f[i], p, q)
  BY <1>1, <1>2 DEF Chain
<1>4. P[i + 1] = Lowest(<<P[i][1] * p, P[i][2] * q>>)
  BY <1>1, <1>2 DEF Multiplying
<1>5. \A j \in 1..i + 1 : j \in 1..i \/ j = i + 1
  BY <1>1
<1>6. Nonzero(factors[i + 1]) <=> p \in Positive /\ q \in Positive
  BY <1>2 DEF Nonzero, Positive
<1>7. ASSUME f[i + 1] # {} PROVE \A j \in 1..i + 1 : Nonzero(factors[j])
  <2>1. p >= 0 /\ multiply(f[i], p, q) # {}
    BY <1>3, <1>7
  <2>2. p # 0 /\ q # 0
    BY <2>1 DEF multiply
  <2>3. f[i] # {}
    BY <2>1, MultiplyNothing
  <2>4. Nonzero(factors[i + 1])
    BY <1>6, <2>1, <2>2 DEF Positive
  <2> QED BY <1>5, <2>3, <2>4 DEF Follows
<1>8. ASSUME \A j \in 1..i + 1 : Nonzero(factors[j])
      PROVE  \E a, b \in Positive :
               /\ P[i + 1] = <<a, b>> /\ Coprime(a, b) /\ f[i + 1] \subseteq {Fraction(a, b)}
               /\ (\A j \in 0..i + 1 : Fits(P[j])) => f[i + 1] = {Fraction(a, b)}
  <2>1. p \in Positive /\ q \in Positive /\ ~(p < 0)
    BY <1>1, <1>6, <1>8 DEF Positive
  <2>2. \A j \in 1..i : Nonzero(factors[j])
    BY <1>1, <1>8
  <2>3. PICK N \in Positive, D \in Positive :
          /\ P[i] = <<N, D>> /\ Coprime(N, D) /\ f[i] \subseteq {Fraction(N, D)}
          /\ (\A j \in 0..i : Fits(P[j])) => f[i] = {Fraction(N, D)}
    BY <2>2 DEF Follows
  <2>4. PICK a \in Positive, b \in Positive : Multiplied(N, D, p, q, a, b)
    <3>1. N \in Positive /\ D \in Positive /\ p \in Positive /\ q \in Positive /\ Coprime(N, D)
      BY <2>1, <2>3
    <3> QED BY <3>1, MultiplyLowest
  <2>5. P[i + 1] = <<a, b>> /\ Coprime(a, b) /\ multiply({Fraction(N, D)}, p, q) = Kept(a, b)
    BY <1>4, <2>3, <2>4 DEF IsLowest, Multiplied
  <2>6. f[i + 1] = multiply(f[i], p, q)
    BY <1>3, <2>1
  <2>7. f[i] = {} \/ f[i] = {Fraction(N, D)}
    BY <2>3, SomeOrNone
  <2>8. f[i + 1] \subseteq {Fraction(a, b)}
    BY <2>5, <2>6, <2>7, MultiplyNothing DEF Kept
  <2>9. ASSUME \A j \in 0..i + 1 : Fits(P[j]) PROVE f[i + 1] = {Fraction(a, b)}
    <3>1. f[i] = {Fraction(N, D)}
      BY <1>1, <2>3, <2>9
    <3>2. Fits(P[i + 1])
      BY <1>1, <2>9
    <3>3. a <= WideMax /\ b <= WideMax
      BY <2>5, <3>2 DEF Fits
    <3> QED BY <2>5, <2>6, <3>1, <3>3 DEF Kept
  <2> QED BY <2>5, <2>8, <2>9
<1> QED BY <1>7, <1>8 DEF Follows

LEMMA ChainIsProduct ==
  ASSUME NEW n \in Positive, NEW P, NEW factors, NEW f,
         Factors(factors), Multiplying(P, n, factors), Chain(f, n, factors)
  PROVE  \A i \in 0..Len(factors) : Follows(f[i], P, i, factors)
<1> DEFINE T == {i \in 0..Len(factors) : Follows(f[i], P, i, factors)}
<1>1. Len(factors) \in Nat
  BY DEF Factors
<1>2. 0 \in T
  BY <1>1, ChainStarts DEF Chain
<1>3. \A i \in T : i < Len(factors) => i + 1 \in T
  BY <1>1, ChainSteps
<1>4. T \in SUBSET (0..Len(factors))
  OBVIOUS
<1>5. T = 0..Len(factors)
  <2> HIDE DEF T
  <2> QED BY <1>1, <1>2, <1>3, <1>4, Induction
<1> QED BY <1>5

-----------------------------------------------------------------------------
(***************************************************************************)
(* What is read of a hop is its price, its fee and its tax.                *)
(***************************************************************************)
RightReference(r, h) ==
  /\ h \in Hop /\ Price(h) \in Nat \X Nat /\ CostPips(h) \in Nat /\ CostBps(h) \in Nat
  /\ r.numerator = Price(h)[1] /\ r.denominator = Price(h)[2]
  /\ FeePips(r) = CostPips(h) /\ HookBps(r) = CostBps(h)
Known(h) ==
  h.kind = "V4" =>
    /\ ~h.dynamic /\ h.hooks \in {"none", "pons"}
    /\ h.hooks = "pons" => h.launch.registered /\ h.launch.matches
Complete(r) == r.failure = "" /\ r.fee_pips # {} /\ r.hook_fees # {}

LEMMA ChooseOnly ==
  ASSUME NEW x
  PROVE  (CHOOSE y \in {x} : TRUE) = x
OBVIOUS

LEMMA SquareNat ==
  ASSUME NEW n \in Nat
  PROVE  n * n \in Nat
OBVIOUS

LEMMA PriceIs ==
  ASSUME NEW h \in Hop
  PROVE  Price(h) \in Nat \X Nat
<1>1. h.reserves \in Nat \X Nat /\ h.sqrt \in Nat
  BY DEF Hop
<1>2. PICK squared \in Nat : squared = h.sqrt * h.sqrt
  BY <1>1, SquareNat
<1>3. Scale \in Nat
  BY PriceImpactAssumption
<1> QED BY <1>1, <1>2, <1>3 DEF Price

LEMMA SqrtReference ==
  ASSUME NEW h \in Hop, h.kind # "V2", NEW pips, NEW fees
  PROVE  /\ sqrt_reference(h, pips, fees) = Reference(Price(h)[1], Price(h)[2], pips, fees)
<1>1. PICK squared : squared = h.sqrt * h.sqrt
  OBVIOUS
<1> QED BY <1>1 DEF Price, sqrt_reference

LEMMA CoreFeeIs ==
  ASSUME NEW h \in Hop, CoreFee(h) # {}
  PROVE  (CHOOSE fee \in CoreFee(h) : TRUE) \in Nat
<1>1. PICK protocol \in Nat, fee \in Nat :
        protocol = (IF h.zero_for_one THEN h.protocol[1] ELSE h.protocol[2]) /\ fee = h.fee
  BY DEF Hop
<1>2. CoreFee(h) = {f \in {protocol + fee - (protocol * fee) \div PIPS} :
                      protocol <= MaxProtocol /\ fee <= PIPS /\ ~h.dynamic}
  BY <1>1 DEF CoreFee
<1>3. fee <= PIPS /\ PIPS \in Nat \ {0}
  BY <1>2, PriceImpactAssumption
<1>4. PICK c \in Nat : c = protocol * fee
  OBVIOUS
<1>5. c <= protocol * PIPS
  BY <1>3, <1>4, Monotone
<1>6. c \div PIPS \in Nat /\ PIPS * (c \div PIPS) <= c
  BY <1>3, Division
<1>7. PIPS * (c \div PIPS) <= PIPS * protocol
  BY <1>3, <1>5, <1>6
<1>8. c \div PIPS <= protocol
  BY <1>3, <1>6, <1>7, Cancel
<1>9. PICK q \in Nat : q = c \div PIPS
  BY <1>6
<1>10. protocol + fee - q \in Nat
  BY <1>8, <1>9
<1>11. CoreFee(h) \subseteq {protocol + fee - q}
  BY <1>2, <1>4, <1>9
<1>12. CoreFee(h) \subseteq Nat
  BY <1>10, <1>11
<1> QED BY <1>12

Succeeds(outcome) == outcome.failure = ""
LEMMA HookFees ==
  ASSUME NEW h \in Hop, NEW k \in BOOLEAN, h.kind = "V4", Succeeds(hook_fees(h, k))
  PROVE  /\ Known(h)
         /\ \E f : /\ hook_fees(h, k).fees = {f}
                   /\ f.hook_fee + f.creator_tax = CostBps(h) /\ CostBps(h) \in Nat
<1>1. /\ h.hooks \in {"none", "pons", "other"} /\ h.launch.hook_fee \in Nat
      /\ h.launch.creator_tax \in Nat /\ h.dynamic \in BOOLEAN
  BY DEF Hop, Launch
<1>10. PICK c \in Nat, t \in Nat : c = h.launch.hook_fee /\ t = h.launch.creator_tax
  BY <1>1
<1>11. CostBps(h) = IF h.hooks = "pons" THEN c + t ELSE 0
  BY <1>10 DEF CostBps
<1>2. CASE h.dynamic \/ h.hooks = "other"
  <2>1. hook_fees(h, k) = [failure |-> "HookPricing", fees |-> {}]
    BY <1>2 DEF hook_fees, v4_model
  <2> QED BY <2>1 DEF Succeeds
<1>3. CASE ~h.dynamic /\ h.hooks = "none"
  <2>1. hook_fees(h, k).fees = {NoHookFees}
    BY <1>3 DEF hook_fees, v4_model
  <2>2. CostBps(h) = 0
    BY <1>11, <1>3
  <2>3. NoHookFees.hook_fee + NoHookFees.creator_tax = 0
    BY DEF NoHookFees
  <2>4. Known(h)
    BY <1>3 DEF Known
  <2> QED BY <2>1, <2>2, <2>3, <2>4
<1>4. CASE ~h.dynamic /\ h.hooks = "pons"
  <2>1. v4_model(h) = "PonsV2"
    BY <1>4 DEF v4_model
  <2>2. k /\ Launched(h.launch)
    <3>1. SUFFICES ASSUME ~(k /\ Launched(h.launch)) PROVE FALSE
      OBVIOUS
    <3>2. hook_fees(h, k) = [failure |-> IF k THEN "HookConfiguration" ELSE "State", fees |-> {}]
      BY <2>1, <3>1 DEF hook_fees
    <3> QED BY <3>2 DEF Succeeds
  <2>3. hook_fees(h, k).fees = {[hook_fee |-> h.launch.hook_fee,
                                 creator_tax |-> h.launch.creator_tax]}
    BY <2>1, <2>2 DEF hook_fees
  <2>4. CostBps(h) = h.launch.hook_fee + h.launch.creator_tax /\ CostBps(h) \in Nat
    BY <1>10, <1>11, <1>4
  <2>5. Known(h)
    BY <1>4, <2>2 DEF Known, Launched
  <2>6. PICK f : f = [hook_fee |-> h.launch.hook_fee, creator_tax |-> h.launch.creator_tax]
    OBVIOUS
  <2>7. f.hook_fee + f.creator_tax = CostBps(h)
    BY <2>4, <2>6
  <2> QED BY <2>3, <2>4, <2>5, <2>6, <2>7
<1> QED BY <1>1, <1>2, <1>3, <1>4

LEMMA ReferenceRight ==
  ASSUME NEW a, NEW b, NEW pips, NEW f, NEW h, h \in Hop,
         Price(h)[1] = a, Price(h)[2] = b, (CHOOSE fee \in pips : TRUE) = CostPips(h),
         CostPips(h) \in Nat, f.hook_fee + f.creator_tax = CostBps(h), CostBps(h) \in Nat
  PROVE  RightReference(Reference(a, b, pips, {f}), h)
<1>1. PICK r : r = Reference(a, b, pips, {f})
  OBVIOUS
<1>2. r.numerator = a /\ r.denominator = b /\ r.fee_pips = pips /\ r.hook_fees = {f}
  BY <1>1 DEF Reference
<1>3. FeePips(r) = CostPips(h)
  BY <1>2 DEF FeePips
<1>4. HookBps(r) = CostBps(h)
  <2>1. (CHOOSE y \in r.hook_fees : TRUE) = f
    BY <1>2, ChooseOnly
  <2> QED BY <2>1 DEF HookBps
<1> QED BY <1>1, <1>2, <1>3, <1>4, PriceIs DEF RightReference

LEMMA ReferenceIs ==
  ASSUME NEW h \in Hop, NEW s \in BOOLEAN, NEW k \in BOOLEAN, Complete(reference(h, s, k))
  PROVE  RightReference(reference(h, s, k), h) /\ Known(h)
<1>1. h.kind \in {"V2", "V3", "V4"} /\ h.fee \in Nat
  BY DEF Hop
<1>2. s
  BY DEF reference, Complete
<1>3. NoHookFees.hook_fee + NoHookFees.creator_tax = 0
  BY DEF NoHookFees
<1>4. CASE h.kind = "V2"
  <2>1. reference(h, s, k) = Reference(Price(h)[1], Price(h)[2], {V2Pips}, {NoHookFees})
    BY <1>2, <1>4 DEF reference, Price
  <2>2. (CHOOSE fee \in {V2Pips} : TRUE) = CostPips(h) /\ CostPips(h) \in Nat
    BY <1>4, ChooseOnly, PriceImpactAssumption DEF CostPips
  <2>3. CostBps(h) = 0 /\ CostBps(h) \in Nat
    BY <1>4 DEF CostBps
  <2> QED BY <1>3, <1>4, <2>1, <2>2, <2>3, ReferenceRight DEF Known
<1>5. CASE h.kind = "V3"
  <2>1. reference(h, s, k) = Reference(Price(h)[1], Price(h)[2], {h.fee}, {NoHookFees})
    BY <1>2, <1>5, SqrtReference DEF reference
  <2>2. (CHOOSE fee \in {h.fee} : TRUE) = CostPips(h) /\ CostPips(h) \in Nat
    BY <1>1, <1>5, ChooseOnly DEF CostPips
  <2>3. CostBps(h) = 0 /\ CostBps(h) \in Nat
    BY <1>5 DEF CostBps
  <2> QED BY <1>3, <1>5, <2>1, <2>2, <2>3, ReferenceRight DEF Known
<1>6. CASE h.kind = "V4"
  <2>1. PICK hook : hook = hook_fees(h, k)
    OBVIOUS
  <2>2. reference(h, s, k) = IF hook.failure # "" THEN [failure |-> hook.failure]
                             ELSE sqrt_reference(h, CoreFee(h), hook.fees)
    BY <1>2, <1>6, <2>1 DEF reference
  <2>3. Succeeds(hook) /\ hook.failure = ""
    <3>1. PICK failure, r : failure = hook.failure /\ r = reference(h, s, k)
      OBVIOUS
    <3>2. SUFFICES ASSUME failure # "" PROVE FALSE
      BY <3>1 DEF Succeeds
    <3>3. r = [failure |-> failure]
      BY <2>2, <3>1, <3>2
    <3>4. r.failure = ""
      BY <3>1 DEF Complete
    <3> QED BY <3>2, <3>3, <3>4
  <2>4. PICK f : hook.fees = {f} /\ f.hook_fee + f.creator_tax = CostBps(h) /\ CostBps(h) \in Nat
    BY <1>6, <2>1, <2>3, HookFees
  <2>5. reference(h, s, k) = Reference(Price(h)[1], Price(h)[2], CoreFee(h), {f})
    BY <1>6, <2>2, <2>3, <2>4, SqrtReference
  <2>6. CoreFee(h) # {}
    <3>1. PICK pips, r, a, b : /\ pips = CoreFee(h) /\ r = reference(h, s, k)
                               /\ a = Price(h)[1] /\ b = Price(h)[2]
      OBVIOUS
    <3>2. r = Reference(a, b, pips, {f})
      BY <2>5, <3>1
    <3>3. r.fee_pips = pips
      BY <3>2 DEF Reference
    <3>4. r.fee_pips # {}
      BY <3>1 DEF Complete
    <3> QED BY <3>1, <3>3, <3>4
  <2>7. (CHOOSE fee \in CoreFee(h) : TRUE) = CostPips(h) /\ CostPips(h) \in Nat
    BY <1>6, <2>6, CoreFeeIs DEF CostPips
  <2>8. RightReference(reference(h, s, k), h)
    BY <2>4, <2>5, <2>7, ReferenceRight
  <2> QED BY <1>6, <2>1, <2>3, <2>8, HookFees
<1> QED BY <1>1, <1>4, <1>5, <1>6

-----------------------------------------------------------------------------
(***************************************************************************)
(* The loops over the references are chains of the factors of the route.   *)
(***************************************************************************)
RightReferences(references) ==
  /\ route \in Seq(Hops) /\ Len(references) = Len(route)
  /\ \A i \in 1..Len(route) : RightReference(references[i], route[i])

LEMMA SpotIs ==
  ASSUME route \in Seq(Hops)
  PROVE  /\ Len(route) \in Nat /\ Len(Spot) = Len(route)
         /\ \A i \in 1..Len(route) : Spot[i] = Price(route[i])
<1>1. Len(route) \in Nat /\ DOMAIN route = 1..Len(route)
  OBVIOUS
<1>2. PICK n \in Nat : n = Len(route)
  BY <1>1
<1>3. Spot = [i \in 1..n |-> Price(route[i])]
  BY <1>1, <1>2 DEF Spot
<1>4. Len(Spot) = n
  BY <1>3
<1> QED BY <1>1, <1>2, <1>3, <1>4

PriceAt(i) == 3 * i - 2
FeeAt(i)   == 3 * i - 1
TaxAt(i)   == 3 * i
LEMMA AfterFeesIs ==
  ASSUME route \in Seq(Hops)
  PROVE  /\ Len(route) \in Nat /\ Len(AfterFees) = 3 * Len(route)
         /\ \A i \in 1..Len(route) :
              /\ AfterFees[PriceAt(i)] = Price(route[i])
              /\ AfterFees[FeeAt(i)] = <<PIPS - CostPips(route[i]), PIPS>>
              /\ AfterFees[TaxAt(i)] = <<BPS - CostBps(route[i]), BPS>>
<1>1. Len(route) \in Nat
  OBVIOUS
<1>2. PICK n \in Nat : n = 3 * Len(route)
  BY <1>1
<1> DEFINE E(k) == LET h == route[(k + 2) \div 3] IN
                   CASE k % 3 = 1 -> Price(h)
                     [] k % 3 = 2 -> <<PIPS - CostPips(h), PIPS>>
                     [] k % 3 = 0 -> <<BPS - CostBps(h), BPS>>
<1>3. AfterFees = [k \in 1..n |-> E(k)]
  BY <1>2 DEF AfterFees
<1>4. Len(AfterFees) = n
  <2> HIDE DEF E
  <2> QED BY <1>3
<1>5. ASSUME NEW i \in 1..Len(route)
      PROVE  /\ AfterFees[PriceAt(i)] = Price(route[i])
             /\ AfterFees[FeeAt(i)] = <<PIPS - CostPips(route[i]), PIPS>>
             /\ AfterFees[TaxAt(i)] = <<BPS - CostBps(route[i]), BPS>>
  <2>1. PriceAt(i) \in 1..n /\ FeeAt(i) \in 1..n /\ TaxAt(i) \in 1..n
    BY <1>1, <1>2 DEF PriceAt, FeeAt, TaxAt
  <2>2. /\ (PriceAt(i) + 2) \div 3 = i /\ PriceAt(i) % 3 = 1
        /\ (FeeAt(i) + 2) \div 3 = i /\ FeeAt(i) % 3 = 2
        /\ (TaxAt(i) + 2) \div 3 = i /\ TaxAt(i) % 3 = 0
    BY <1>1 DEF PriceAt, FeeAt, TaxAt
  <2>3. /\ AfterFees[PriceAt(i)] = E(PriceAt(i))
        /\ AfterFees[FeeAt(i)] = E(FeeAt(i)) /\ AfterFees[TaxAt(i)] = E(TaxAt(i))
    <3> HIDE DEF E
    <3> QED BY <1>3, <2>1
  <2>4. E(PriceAt(i)) = Price(route[i])
    BY <2>2
  <2>5. E(FeeAt(i)) = <<PIPS - CostPips(route[i]), PIPS>>
    BY <2>2
  <2>6. E(TaxAt(i)) = <<BPS - CostBps(route[i]), BPS>>
    BY <2>2
  <2> QED BY <2>3, <2>4, <2>5, <2>6
<1> QED BY <1>1, <1>2, <1>4, <1>5

LEMMA SpotFactors ==
  ASSUME NEW references, RightReferences(references)
  PROVE  Factors(Spot)
<1>1. /\ Len(route) \in Nat /\ Len(Spot) = Len(route)
      /\ \A i \in 1..Len(route) : Spot[i] = Price(route[i])
  BY SpotIs DEF RightReferences
<1>2. ASSUME NEW i \in 1..Len(route) PROVE Spot[i][1] \in Int /\ Spot[i][2] \in Nat
  <2>1. Price(route[i]) \in Nat \X Nat
    BY DEF RightReferences, RightReference
  <2> QED BY <1>1, <2>1
<1> QED BY <1>1, <1>2 DEF Factors

LEMMA MarketChain ==
  ASSUME NEW references, NEW n, NEW f, RightReferences(references),
         Marketing(f, references, n)
  PROVE  Chain(f, n, Spot)
<1>1. /\ Len(route) \in Nat /\ Len(Spot) = Len(route)
      /\ \A i \in 1..Len(route) : Spot[i] = Price(route[i])
  BY SpotIs DEF RightReferences
<1>2. ASSUME NEW i \in 1..Len(Spot)
      PROVE  f[i] = IF Spot[i][1] < 0 THEN {} ELSE multiply(f[i - 1], Spot[i][1], Spot[i][2])
  <2>1. i \in 1..Len(route) /\ i \in 1..Len(references)
    BY <1>1 DEF RightReferences
  <2>2. /\ references[i].numerator = Spot[i][1] /\ references[i].denominator = Spot[i][2]
        /\ Price(route[i]) \in Nat \X Nat
    BY <1>1, <2>1 DEF RightReferences, RightReference
  <2>3. Spot[i][1] \in Nat
    BY <1>1, <2>1, <2>2
  <2>4. f[i] = multiply(f[i - 1], Spot[i][1], Spot[i][2])
    BY <2>1, <2>2 DEF Marketing
  <2> QED BY <2>3, <2>4
<1> QED BY <1>2 DEF Chain, Marketing

LEMMA Thirds ==
  ASSUME NEW n \in Nat, NEW k \in 1..3 * n
  PROVE  \E i \in 1..n : k = PriceAt(i) \/ k = FeeAt(i) \/ k = TaxAt(i)
<1>1. PICK i \in Int : i = (k + 2) \div 3
  OBVIOUS
<1>2. i \in 1..n /\ (k = 3 * i - 2 \/ k = 3 * i - 1 \/ k = 3 * i)
  BY <1>1
<1> QED BY <1>2 DEF PriceAt, FeeAt, TaxAt

LEMMA AfterFeesFactors ==
  ASSUME NEW references, RightReferences(references)
  PROVE  Factors(AfterFees)
<1>1. /\ Len(route) \in Nat /\ Len(AfterFees) = 3 * Len(route)
      /\ \A i \in 1..Len(route) :
           /\ AfterFees[PriceAt(i)] = Price(route[i])
           /\ AfterFees[FeeAt(i)] = <<PIPS - CostPips(route[i]), PIPS>>
           /\ AfterFees[TaxAt(i)] = <<BPS - CostBps(route[i]), BPS>>
  BY AfterFeesIs DEF RightReferences
<1>2. PIPS \in Nat /\ BPS \in Nat
  BY PriceImpactAssumption, FeeMathAssumption
<1>3. ASSUME NEW k \in 1..Len(AfterFees)
      PROVE  AfterFees[k][1] \in Int /\ AfterFees[k][2] \in Nat
  <2>1. PICK i \in 1..Len(route) : k = PriceAt(i) \/ k = FeeAt(i) \/ k = TaxAt(i)
    BY <1>1, Thirds
  <2>2. /\ Price(route[i]) \in Nat \X Nat /\ CostPips(route[i]) \in Nat
        /\ CostBps(route[i]) \in Nat
    BY DEF RightReferences, RightReference
  <2>3. CASE k = PriceAt(i)
    BY <1>1, <2>2, <2>3
  <2>4. CASE k = FeeAt(i)
    BY <1>1, <1>2, <2>2, <2>4
  <2>5. CASE k = TaxAt(i)
    BY <1>1, <1>2, <2>2, <2>5
  <2> QED BY <2>1, <2>3, <2>4, <2>5
<1>4. Len(AfterFees) \in Nat
  BY <1>1
<1> QED BY <1>3, <1>4 DEF Factors

AfterPrice(S, r) == multiply(S, r.numerator, r.denominator)
AfterFee(S, r)   == IF FeePips(r) > PIPS THEN {} ELSE multiply(S, PIPS - FeePips(r), PIPS)
AfterTax(S, r)   == IF HookBps(r) > BPS THEN {} ELSE multiply(S, BPS - HookBps(r), BPS)

LEMMA AfterHopIs ==
  ASSUME NEW S, NEW r
  PROVE  AfterHop(S, r) = AfterTax(AfterFee(AfterPrice(S, r), r), r)
BY MultiplyNothing DEF AfterHop, AfterTax, AfterFee, AfterPrice

LEMMA ChargeChain ==
  ASSUME NEW references, NEW n, NEW f, RightReferences(references),
         Charging(f, references, n)
  PROVE  \E g : Chain(g, n, AfterFees) /\ g[3 * Len(route)] = f[Len(route)]
<1>1. /\ Len(route) \in Nat /\ Len(AfterFees) = 3 * Len(route)
      /\ \A i \in 1..Len(route) :
           /\ AfterFees[PriceAt(i)] = Price(route[i])
           /\ AfterFees[FeeAt(i)] = <<PIPS - CostPips(route[i]), PIPS>>
           /\ AfterFees[TaxAt(i)] = <<BPS - CostBps(route[i]), BPS>>
  BY AfterFeesIs DEF RightReferences
<1>2. PIPS \in Nat /\ BPS \in Nat
  BY PriceImpactAssumption, FeeMathAssumption
<1> DEFINE L == Len(route)
           one(i) == AfterPrice(f[i - 1], references[i])
           two(i) == AfterFee(one(i), references[i])
           g == [k \in 0..3 * L |-> CASE k % 3 = 0 -> f[k \div 3]
                                      [] k % 3 = 1 -> one((k + 2) \div 3)
                                      [] k % 3 = 2 -> two((k + 2) \div 3)]
<1>3. L \in Nat
  BY <1>1
<1>4. ASSUME NEW i \in 0..L PROVE g[3 * i] = f[i]
  <2>1. 3 * i \in 0..3 * L /\ (3 * i) % 3 = 0 /\ (3 * i) \div 3 = i
    BY <1>3
  <2> HIDE DEF L, one, two
  <2> QED BY <2>1
<1>5. ASSUME NEW i \in 1..L PROVE g[PriceAt(i)] = one(i) /\ g[FeeAt(i)] = two(i)
  <2>1. PriceAt(i) \in 0..3 * L /\ PriceAt(i) % 3 = 1 /\ (PriceAt(i) + 2) \div 3 = i
    BY <1>3 DEF PriceAt
  <2>2. FeeAt(i) \in 0..3 * L /\ FeeAt(i) % 3 = 2 /\ (FeeAt(i) + 2) \div 3 = i
    BY <1>3 DEF FeeAt
  <2> HIDE DEF L, one, two
  <2> QED BY <2>1, <2>2
<1> HIDE DEF g
<1>6. ASSUME NEW i \in 1..L
      PROVE  \A k \in {PriceAt(i), FeeAt(i), TaxAt(i)} :
               g[k] = IF AfterFees[k][1] < 0 THEN {}
                      ELSE multiply(g[k - 1], AfterFees[k][1], AfterFees[k][2])
  <2>1. PICK r : r = references[i]
    OBVIOUS
  <2>2. /\ r.numerator = Price(route[i])[1] /\ r.denominator = Price(route[i])[2]
        /\ FeePips(r) = CostPips(route[i]) /\ HookBps(r) = CostBps(route[i])
        /\ Price(route[i]) \in Nat \X Nat
        /\ CostPips(route[i]) \in Nat /\ CostBps(route[i]) \in Nat
    BY <2>1 DEF RightReferences, RightReference
  <2>3. /\ i - 1 \in 0..L /\ i \in 0..L /\ PriceAt(i) - 1 = 3 * (i - 1)
        /\ FeeAt(i) - 1 = PriceAt(i) /\ TaxAt(i) - 1 = FeeAt(i) /\ TaxAt(i) = 3 * i
    BY <1>3 DEF PriceAt, FeeAt, TaxAt
  <2>4. g[PriceAt(i) - 1] = f[i - 1] /\ g[TaxAt(i)] = f[i]
    BY <1>4, <2>3
  <2>5. f[i] = AfterHop(f[i - 1], r)
    BY <1>3, <2>1 DEF Charging, RightReferences
  <2>6. g[TaxAt(i)] = AfterTax(g[FeeAt(i)], r)
    BY <1>5, <2>1, <2>4, <2>5, AfterHopIs
  <2>7. g[FeeAt(i)] = AfterFee(g[PriceAt(i)], r)
    BY <1>5, <2>1
  <2>8. g[PriceAt(i)] = AfterPrice(g[PriceAt(i) - 1], r)
    BY <1>5, <2>1, <2>4
  <2>9. AfterFees[PriceAt(i)] = Price(route[i])
    BY <1>1
  <2>10. /\ AfterFees[FeeAt(i)][1] = PIPS - CostPips(route[i])
         /\ AfterFees[FeeAt(i)][2] = PIPS
         /\ AfterFees[TaxAt(i)][1] = BPS - CostBps(route[i])
         /\ AfterFees[TaxAt(i)][2] = BPS
    BY <1>1
  <2>11. Price(route[i])[1] \in Nat
    BY <2>2
  <2>12. g[PriceAt(i)] = IF AfterFees[PriceAt(i)][1] < 0 THEN {}
                         ELSE multiply(g[PriceAt(i) - 1], AfterFees[PriceAt(i)][1],
                                       AfterFees[PriceAt(i)][2])
    BY <2>2, <2>8, <2>9, <2>11 DEF AfterPrice
  <2>13. g[FeeAt(i)] = IF AfterFees[FeeAt(i)][1] < 0 THEN {}
                       ELSE multiply(g[FeeAt(i) - 1], AfterFees[FeeAt(i)][1],
                                     AfterFees[FeeAt(i)][2])
    <3>1. PICK c \in Nat : c = FeePips(r) /\ AfterFees[FeeAt(i)][1] = PIPS - c
      BY <2>2, <2>10
    <3>2. c > PIPS <=> PIPS - c < 0
      BY <1>2
    <3> QED BY <2>3, <2>7, <2>10, <3>1, <3>2 DEF AfterFee
  <2>14. g[TaxAt(i)] = IF AfterFees[TaxAt(i)][1] < 0 THEN {}
                       ELSE multiply(g[TaxAt(i) - 1], AfterFees[TaxAt(i)][1],
                                     AfterFees[TaxAt(i)][2])
    <3>1. PICK c \in Nat : c = HookBps(r) /\ AfterFees[TaxAt(i)][1] = BPS - c
      BY <2>2, <2>10
    <3>2. c > BPS <=> BPS - c < 0
      BY <1>2
    <3> QED BY <2>3, <2>6, <2>10, <3>1, <3>2 DEF AfterTax
  <2> QED BY <2>12, <2>13, <2>14
<1>7. ASSUME NEW k \in 1..Len(AfterFees)
      PROVE  g[k] = IF AfterFees[k][1] < 0 THEN {}
                    ELSE multiply(g[k - 1], AfterFees[k][1], AfterFees[k][2])
  <2>1. PICK i \in 1..Len(route) : k = PriceAt(i) \/ k = FeeAt(i) \/ k = TaxAt(i)
    BY <1>1, Thirds
  <2> QED BY <1>6, <2>1
<1>8. 0 \in 0..L /\ L \in 0..L /\ 3 * 0 = 0
  BY <1>3
<1>9. g[0] = amount(n) /\ g[3 * L] = f[L]
  BY <1>4, <1>8 DEF Charging
<1> QED BY <1>7, <1>9 DEF Chain

(* What the loops give: nothing, or the product of the factors.            *)
AtProduct(S, n, factors) ==
  /\ S # {} => /\ \A j \in 1..Len(factors) : Nonzero(factors[j])
               /\ \E a, b \in Positive : Product(n, factors) = <<a, b>> /\ S = {Fraction(a, b)}
  /\ AllFit(n, factors) => S # {}

LEMMA FollowsProduct ==
  ASSUME NEW S, NEW n, NEW factors, Len(factors) \in Nat,
         DOMAIN factors = 1..Len(factors),
         Follows(S, Products(n, factors), Len(factors), factors)
  PROVE  AtProduct(S, n, factors)
<1>1. PICK P : P = Products(n, factors)
  OBVIOUS
<1>2. Follows(S, P, Len(factors), factors) /\ Product(n, factors) = P[Len(factors)]
  BY <1>1 DEF Product
<1>3. ASSUME \A j \in 1..Len(factors) : Nonzero(factors[j])
      PROVE  \E a, b \in Positive :
               /\ P[Len(factors)] = <<a, b>> /\ S \subseteq {Fraction(a, b)}
               /\ (\A j \in 0..Len(factors) : Fits(P[j])) => S = {Fraction(a, b)}
  BY <1>2, <1>3 DEF Follows
<1>4. ASSUME S # {}
      PROVE  /\ \A j \in 1..Len(factors) : Nonzero(factors[j])
             /\ \E a, b \in Positive : P[Len(factors)] = <<a, b>> /\ S = {Fraction(a, b)}
  <2>1. \A j \in 1..Len(factors) : Nonzero(factors[j])
    BY <1>2, <1>4 DEF Follows
  <2>2. PICK a \in Positive, b \in Positive :
          P[Len(factors)] = <<a, b>> /\ S \subseteq {Fraction(a, b)}
    BY <1>3, <2>1
  <2>3. S = {Fraction(a, b)}
    BY <1>4, <2>2, SomeOrNone
  <2> QED BY <2>1, <2>2, <2>3
<1>5. ASSUME AllFit(n, factors) PROVE S # {}
  <2>1. \A j \in 1..Len(factors) : Nonzero(factors[j])
    BY <1>5 DEF AllFit, Nonzero
  <2>2. \A j \in 0..Len(factors) : Fits(P[j])
    BY <1>1, <1>5 DEF AllFit
  <2> QED BY <1>3, <2>1, <2>2
<1> QED BY <1>2, <1>4, <1>5 DEF AtProduct

LEMMA MarketIs ==
  ASSUME NEW references, NEW n \in Positive, RightReferences(references)
  PROVE  AtProduct(market(references, n), n, Spot)
<1>1. Factors(Spot) /\ Len(Spot) = Len(route) /\ Len(references) = Len(route)
      /\ Len(route) \in Nat /\ DOMAIN Spot = 1..Len(Spot)
  <2>1. Len(Spot) = Len(route) /\ Len(references) = Len(route)
    BY SpotIs DEF RightReferences
  <2>2. DOMAIN Spot = DOMAIN route /\ DOMAIN route = 1..Len(route) /\ Len(route) \in Nat
    BY DEF Spot, RightReferences
  <2> QED BY <2>1, <2>2, SpotFactors
<1>2. PICK f : Marketing(f, references, n) /\ market(references, n) = f[Len(references)]
  BY <1>1, MarketSteps
<1>3. PICK P : P = Products(n, Spot) /\ Multiplying(P, n, Spot)
  BY <1>1, ProductsStep
<1>4. Chain(f, n, Spot)
  BY <1>2, MarketChain
<1>5. Len(Spot) \in 0..Len(Spot)
  BY <1>1
<1>6. Follows(f[Len(Spot)], P, Len(Spot), Spot)
  BY <1>1, <1>3, <1>4, <1>5, ChainIsProduct
<1> QED BY <1>1, <1>2, <1>3, <1>6, FollowsProduct

LEMMA AfterIs ==
  ASSUME NEW references, NEW n \in Positive, RightReferences(references)
  PROVE  AtProduct(after_fee_reference(references, n), n, AfterFees)
<1>1. /\ Factors(AfterFees) /\ Len(AfterFees) = 3 * Len(route)
      /\ Len(references) = Len(route) /\ Len(route) \in Nat
      /\ DOMAIN AfterFees = 1..Len(AfterFees)
  <2>1. Len(AfterFees) = 3 * Len(route) /\ Len(references) = Len(route)
    BY AfterFeesIs DEF RightReferences
  <2>2. DOMAIN AfterFees = 1..3 * Len(route) /\ Len(route) \in Nat
    BY DEF AfterFees, RightReferences
  <2> QED BY <2>1, <2>2, AfterFeesFactors
<1>2. PICK f : Charging(f, references, n)
               /\ after_fee_reference(references, n) = f[Len(references)]
  BY <1>1, AfterFeeSteps
<1>3. PICK P : P = Products(n, AfterFees) /\ Multiplying(P, n, AfterFees)
  BY <1>1, ProductsStep
<1>4. PICK g : Chain(g, n, AfterFees) /\ g[3 * Len(route)] = f[Len(route)]
  BY <1>2, ChargeChain
<1>5. Len(AfterFees) \in 0..Len(AfterFees)
  BY <1>1
<1>6. Follows(g[Len(AfterFees)], P, Len(AfterFees), AfterFees)
  BY <1>1, <1>3, <1>4, <1>5, ChainIsProduct
<1>7. g[Len(AfterFees)] = after_fee_reference(references, n)
  BY <1>1, <1>2, <1>4
<1> QED BY <1>1, <1>3, <1>6, <1>7, FollowsProduct

-----------------------------------------------------------------------------
(***************************************************************************)
(* Fractions in order, and so their floors and their basis points.         *)
(***************************************************************************)
AtMost(a, b, p, q) == a * q <= p * b

LEMMA DivMonotone ==
  ASSUME NEW x \in Nat, NEW a \in Positive, NEW y \in Nat, NEW b \in Positive,
         AtMost(x, a, y, b)
  PROVE  x \div a <= y \div b
<1>1. a \in Nat \ {0} /\ b \in Nat \ {0}
  BY DEF Positive
<1>2. PICK k \in Nat : k = x \div a /\ a * k <= x
  <2>1. /\ x \div a \in Nat /\ x % a \in 0..a - 1
        /\ x = a * (x \div a) + (x % a)
    BY <1>1, Division
  <2>2. PICK k \in Nat, r \in Nat : k = x \div a /\ r = x % a
    BY <1>1, <2>1
  <2> QED BY <1>1, <2>1, <2>2
<1>3. PICK m \in Nat : m = y \div b /\ y + 1 <= b * m + b
  <2>1. /\ y \div b \in Nat /\ y % b \in 0..b - 1
        /\ y = b * (y \div b) + (y % b)
    BY <1>1, Division
  <2>2. PICK m \in Nat, r \in 0..b - 1 : m = y \div b /\ r = y % b
    BY <1>1, <2>1
  <2> QED BY <1>1, <2>1, <2>2
<1>4. SUFFICES ASSUME m + 1 <= k PROVE FALSE
  BY <1>2, <1>3
<1>5. x * b <= y * a
  BY DEF AtMost
<1>6. y + 1 <= b * (m + 1)
  <2>1. b * (m + 1) = b * m + b
    BY <1>1
  <2> QED BY <1>1, <1>3, <2>1
<1>7. b * (m + 1) <= b * k
  BY <1>1, <1>4, Monotone
<1>8. a * (y + 1) <= a * (b * k)
  <2>1. b * k \in Int /\ b * (m + 1) \in Int
    BY <1>1
  <2>2. y + 1 <= b * k
    BY <1>6, <1>7, <2>1
  <2> QED BY <1>1, <2>1, <2>2, Monotone
<1>9. a * (b * k) = b * (a * k) /\ a * (y + 1) = y * a + a /\ x * b = b * x
  BY <1>1
<1>10. b * (a * k) <= b * x
  <2>1. a * k \in Int /\ a * k <= x
    BY <1>1, <1>2
  <2> QED BY <1>1, <2>1, Monotone
<1> QED BY <1>1, <1>5, <1>8, <1>9, <1>10

BothTimes(a, b, p, q, u, v, c, d, r, s) ==
  AtMost(a, b, p, q) /\ Equal(a * u, b * v, c, d) /\ Equal(p * u, q * v, r, s)
LEMMA AtMostPrice ==
  ASSUME NEW a \in Positive, NEW b \in Positive, NEW p \in Positive, NEW q \in Positive,
         NEW u \in Positive, NEW v \in Positive, NEW c \in Positive, NEW d \in Positive,
         NEW r \in Positive, NEW s \in Positive, BothTimes(a, b, p, q, u, v, c, d, r, s)
  PROVE  AtMost(c, d, r, s)
<1>1. a * q <= p * b /\ (a * u) * d = c * (b * v) /\ (p * u) * s = r * (q * v)
  BY DEF AtMost, Equal, BothTimes
<1>2. {a, b, p, q, u, v, c, d, r, s} \subseteq Nat
  BY DEF Positive
<1>3. (u * v * d * s) * (a * q) <= (u * v * d * s) * (p * b)
  <2>1. u * v * d * s \in Nat /\ a * q \in Int /\ p * b \in Int
    BY <1>2
  <2>2. PICK k \in Nat : k = u * v * d * s
    BY <2>1
  <2> QED BY <1>1, <2>1, <2>2, Monotone
<1>4. (u * v * d * s) * (a * q) = ((a * u) * d) * (s * (q * v))
  BY <1>2
<1>5. (c * (b * v)) * (s * (q * v)) = ((b * v) * (q * v)) * (c * s)
  BY <1>2
<1>6. (u * v * d * s) * (p * b) = ((p * u) * s) * (d * (b * v))
  BY <1>2
<1>7. (r * (q * v)) * (d * (b * v)) = ((b * v) * (q * v)) * (r * d)
  BY <1>2
<1>8. ((b * v) * (q * v)) * (c * s) <= ((b * v) * (q * v)) * (r * d)
  BY <1>1, <1>3, <1>4, <1>5, <1>6, <1>7
<1>9. PICK k \in Positive : k = (b * v) * (q * v)
  BY PositiveProduct
<1>10. PICK x \in Nat, y \in Nat : x = c * s /\ y = r * d
  BY <1>2
<1>11. k * x <= k * y
  BY <1>8, <1>9, <1>10
<1>12. x <= y
  BY <1>11, Cancel DEF Positive
<1> QED BY <1>10, <1>12 DEF AtMost

LEMMA AtMostCut ==
  ASSUME NEW a \in Positive, NEW b \in Positive, NEW p \in Positive, NEW q \in Positive,
         NEW u \in Positive, NEW v \in Positive, NEW c \in Positive, NEW d \in Positive,
         AtMost(a, b, p, q), u <= v, Equal(a * u, b * v, c, d)
  PROVE  AtMost(c, d, p, q)
<1>1. a * q <= p * b /\ (a * u) * d = c * (b * v)
  BY DEF AtMost, Equal
<1>2. {a, b, p, q, u, v, c, d} \subseteq Nat
  BY DEF Positive
<1>3. (u * d) * (a * q) <= (u * d) * (p * b)
  <2>1. u * d \in Nat /\ a * q \in Int /\ p * b \in Int
    BY <1>2
  <2>2. PICK k \in Nat : k = u * d
    BY <2>1
  <2> QED BY <1>1, <2>1, <2>2, Monotone
<1>4. (d * (p * b)) * u <= (d * (p * b)) * v
  <2>1. d * (p * b) \in Nat
    BY <1>2
  <2>2. PICK k \in Nat : k = d * (p * b)
    BY <2>1
  <2> QED BY <1>2, <2>2, Monotone
<1>5. (u * d) * (a * q) = ((a * u) * d) * q /\ (c * (b * v)) * q = (b * v) * (c * q)
  BY <1>2
<1>6. (u * d) * (p * b) = (d * (p * b)) * u /\ (d * (p * b)) * v = (b * v) * (p * d)
  BY <1>2
<1>7. (b * v) * (c * q) <= (b * v) * (p * d)
  <2>1. PICK w \in Int, x \in Int, y \in Int, z \in Int :
          /\ w = (u * d) * (a * q) /\ x = (u * d) * (p * b)
          /\ y = (b * v) * (p * d) /\ z = (b * v) * (c * q)
    BY <1>2
  <2>2. w = z /\ w <= x /\ x <= y
    BY <1>1, <1>3, <1>4, <1>5, <1>6, <2>1
  <2> QED BY <2>1, <2>2
<1>8. PICK k \in Positive : k = b * v
  BY PositiveProduct
<1>9. PICK x \in Nat, y \in Nat : x = c * q /\ y = p * d
  BY <1>2
<1>10. x <= y
  BY <1>7, <1>8, <1>9, Cancel DEF Positive
<1> QED BY <1>9, <1>10 DEF AtMost

(* Fractions of positive numbers, the first at most the second.            *)
Under(x, y) ==
  \E a, b, p, q \in Positive : x = <<a, b>> /\ y = <<p, q>> /\ AtMost(a, b, p, q)
Times(x, f) == Lowest(<<x[1] * f[1], x[2] * f[2]>>)
Cuts(f)     == f[1] <= f[2]

LEMMA TimesIs ==
  ASSUME NEW a \in Positive, NEW b \in Positive, NEW u \in Positive, NEW v \in Positive
  PROVE  \E c, d \in Positive : Times(<<a, b>>, <<u, v>>) = <<c, d>> /\ Equal(a * u, b * v, c, d)
<1>1. PICK p \in Positive, q \in Positive : p = a * u /\ q = b * v
  BY PositiveProduct
<1>2. PICK c \in Nat, d \in Nat : Lowest(<<p, q>>) = <<c, d>> /\ IsLowest(p, q, c, d)
  BY LowestIs
<1>3. Times(<<a, b>>, <<u, v>>) = <<c, d>>
  BY <1>1, <1>2 DEF Times
<1> QED BY <1>1, <1>2, <1>3 DEF IsLowest

LEMMA UnderTimes ==
  ASSUME NEW x, NEW y, NEW f, Under(x, y), f[1] \in Positive, f[2] \in Positive,
         f = <<f[1], f[2]>>
  PROVE  Under(Times(x, f), Times(y, f))
<1>1. PICK a \in Positive, b \in Positive, p \in Positive, q \in Positive :
        x = <<a, b>> /\ y = <<p, q>> /\ AtMost(a, b, p, q)
  BY DEF Under
<1>2. PICK u \in Positive, v \in Positive : f = <<u, v>>
  OBVIOUS
<1>3. PICK c \in Positive, d \in Positive :
        Times(<<a, b>>, <<u, v>>) = <<c, d>> /\ Equal(a * u, b * v, c, d)
  BY TimesIs
<1>4. PICK r \in Positive, s \in Positive :
        Times(<<p, q>>, <<u, v>>) = <<r, s>> /\ Equal(p * u, q * v, r, s)
  BY TimesIs
<1>5. AtMost(c, d, r, s)
  <2>1. BothTimes(a, b, p, q, u, v, c, d, r, s)
    BY <1>1, <1>3, <1>4 DEF BothTimes
  <2> QED BY <2>1, AtMostPrice
<1> QED BY <1>1, <1>2, <1>3, <1>4, <1>5 DEF Under

LEMMA UnderCut ==
  ASSUME NEW x, NEW y, NEW f, Under(x, y), f[1] \in Positive, f[2] \in Positive,
         f = <<f[1], f[2]>>, Cuts(f)
  PROVE  Under(Times(x, f), y)
<1>1. PICK a \in Positive, b \in Positive, p \in Positive, q \in Positive :
        x = <<a, b>> /\ y = <<p, q>> /\ AtMost(a, b, p, q)
  BY DEF Under
<1>2. PICK u \in Positive, v \in Positive : f = <<u, v>> /\ u <= v
  BY DEF Cuts
<1>3. PICK c \in Positive, d \in Positive :
        Times(<<a, b>>, <<u, v>>) = <<c, d>> /\ Equal(a * u, b * v, c, d)
  BY TimesIs
<1>4. AtMost(c, d, p, q)
  BY <1>1, <1>2, <1>3, AtMostCut
<1> QED BY <1>1, <1>2, <1>3, <1>4 DEF Under

LEMMA Places ==
  ASSUME NEW n \in Nat, NEW i \in 1..n
  PROVE  /\ PriceAt(i) \in 1..3 * n /\ FeeAt(i) \in 1..3 * n /\ TaxAt(i) \in 1..3 * n
         /\ PriceAt(i) - 1 = 3 * (i - 1) /\ FeeAt(i) - 1 = PriceAt(i)
         /\ TaxAt(i) - 1 = FeeAt(i) /\ TaxAt(i) = 3 * i
BY DEF PriceAt, FeeAt, TaxAt

(* Fees and taxes only take away: what they leave of an amount is at most  *)
(* a greater amount at spot prices.                                        *)
LEMMA UnderHop ==
  ASSUME NEW P, NEW Q, NEW n, NEW m, NEW i \in 1..Len(route), route \in Seq(Hops),
         Multiplying(P, n, AfterFees), Multiplying(Q, m, Spot),
         \A j \in 1..Len(AfterFees) : Nonzero(AfterFees[j]),
         \A j \in 1..Len(route) :
           Price(route[j]) \in Nat \X Nat /\ CostPips(route[j]) \in Nat
           /\ CostBps(route[j]) \in Nat,
         Under(P[3 * (i - 1)], Q[i - 1])
  PROVE  Under(P[3 * i], Q[i])
<1>1. /\ Len(route) \in Nat /\ Len(AfterFees) = 3 * Len(route) /\ Len(Spot) = Len(route)
      /\ AfterFees[PriceAt(i)] = Price(route[i]) /\ Spot[i] = Price(route[i])
      /\ AfterFees[FeeAt(i)] = <<PIPS - CostPips(route[i]), PIPS>>
      /\ AfterFees[TaxAt(i)] = <<BPS - CostBps(route[i]), BPS>>
  BY AfterFeesIs, SpotIs
<1>2. /\ PriceAt(i) \in 1..Len(AfterFees) /\ FeeAt(i) \in 1..Len(AfterFees)
      /\ TaxAt(i) \in 1..Len(AfterFees)
      /\ PriceAt(i) - 1 = 3 * (i - 1) /\ FeeAt(i) - 1 = PriceAt(i)
      /\ TaxAt(i) - 1 = FeeAt(i) /\ TaxAt(i) = 3 * i /\ i \in 1..Len(Spot)
  <2>1. PICK n1 \in Nat : n1 = Len(route)
    BY <1>1
  <2> QED BY <1>1, <2>1, Places
<1>3. PICK price, fee, tax : /\ price = AfterFees[PriceAt(i)] /\ fee = AfterFees[FeeAt(i)]
                             /\ tax = AfterFees[TaxAt(i)]
  OBVIOUS
<1>4. PIPS \in Nat /\ BPS \in Nat
  BY PriceImpactAssumption, FeeMathAssumption
<1>5. price[1] > 0 /\ price[2] > 0 /\ fee[1] > 0 /\ fee[2] > 0 /\ tax[1] > 0 /\ tax[2] > 0
  BY <1>2, <1>3 DEF Nonzero
<1>6. price[1] \in Positive /\ price[2] \in Positive /\ price = <<price[1], price[2]>>
  <2>1. Price(route[i]) \in Nat \X Nat
    OBVIOUS
  <2> QED BY <1>1, <1>3, <1>5, <2>1 DEF Positive
<1>7. fee[1] \in Positive /\ fee[2] \in Positive /\ fee = <<fee[1], fee[2]>> /\ Cuts(fee)
  <2>1. PICK c \in Nat : c = CostPips(route[i])
    OBVIOUS
  <2>2. fee = <<PIPS - c, PIPS>>
    BY <1>1, <1>3, <2>1
  <2> QED BY <1>4, <1>5, <2>1, <2>2 DEF Positive, Cuts
<1>8. tax[1] \in Positive /\ tax[2] \in Positive /\ tax = <<tax[1], tax[2]>> /\ Cuts(tax)
  <2>1. PICK c \in Nat : c = CostBps(route[i])
    OBVIOUS
  <2>2. tax = <<BPS - c, BPS>>
    BY <1>1, <1>3, <2>1
  <2> QED BY <1>4, <1>5, <2>1, <2>2 DEF Positive, Cuts
<1>9. PICK x, y : x = P[3 * (i - 1)] /\ y = Q[i - 1]
  OBVIOUS
<1>10. /\ P[PriceAt(i)] = Times(x, price) /\ P[FeeAt(i)] = Times(P[PriceAt(i)], fee)
       /\ P[3 * i] = Times(P[FeeAt(i)], tax)
  BY <1>2, <1>3, <1>9 DEF Multiplying, Times
<1>11. Q[i] = Times(y, price)
  BY <1>1, <1>2, <1>3, <1>9 DEF Multiplying, Times
<1>12. Under(P[PriceAt(i)], Q[i])
  BY <1>6, <1>9, <1>10, <1>11, UnderTimes
<1>13. Under(P[FeeAt(i)], Q[i])
  BY <1>7, <1>10, <1>12, UnderCut
<1> QED BY <1>8, <1>10, <1>13, UnderCut

LEMMA ProductsOrdered ==
  ASSUME NEW references, RightReferences(references),
         NEW n \in Positive, NEW m \in Positive, n <= m,
         \A j \in 1..Len(AfterFees) : Nonzero(AfterFees[j])
  PROVE  Under(Product(n, AfterFees), Product(m, Spot))
<1>1. /\ Len(route) \in Nat /\ Len(AfterFees) = 3 * Len(route) /\ Len(Spot) = Len(route)
      /\ route \in Seq(Hops)
  BY AfterFeesIs, SpotIs DEF RightReferences
<1>2. \A j \in 1..Len(route) :
           Price(route[j]) \in Nat \X Nat /\ CostPips(route[j]) \in Nat
           /\ CostBps(route[j]) \in Nat
  BY DEF RightReferences, RightReference
<1>3. PICK P : P = Products(n, AfterFees) /\ Multiplying(P, n, AfterFees)
  BY <1>1, ProductsStep
<1>4. PICK Q : Q = Products(m, Spot) /\ Multiplying(Q, m, Spot)
  BY <1>1, ProductsStep
<1> DEFINE T == {i \in 0..Len(route) : Under(P[3 * i], Q[i])}
<1>5. 0 \in T
  <2>1. P[0] = <<n, 1>> /\ Q[0] = <<m, 1>>
    BY <1>3, <1>4 DEF Multiplying
  <2>2. PICK one \in Positive : one = 1
    BY DEF Positive
  <2>3. AtMost(n, one, m, one)
    BY <2>2 DEF AtMost, Positive
  <2>4. Under(P[0], Q[0])
    BY <2>1, <2>2, <2>3 DEF Under
  <2> QED BY <1>1, <2>4
<1>6. \A i \in T : i < Len(route) => i + 1 \in T
  <2>1. SUFFICES ASSUME NEW i \in 0..Len(route), Under(P[3 * i], Q[i]), i < Len(route)
                 PROVE  Under(P[3 * (i + 1)], Q[i + 1]) /\ i + 1 \in 0..Len(route)
    OBVIOUS
  <2>2. PICK k \in 1..Len(route) : k = i + 1 /\ k - 1 = i
    BY <1>1, <2>1
  <2>3. Under(P[3 * (k - 1)], Q[k - 1])
    BY <2>1, <2>2
  <2>4. Under(P[3 * k], Q[k])
    BY <1>1, <1>2, <1>3, <1>4, <2>3, UnderHop
  <2> QED BY <1>1, <2>2, <2>4
<1>7. T \in SUBSET (0..Len(route))
  OBVIOUS
<1>8. Len(route) \in T
  <2> HIDE DEF T
  <2>1. T = 0..Len(route)
    BY <1>1, <1>5, <1>6, <1>7, Induction
  <2> QED BY <1>1, <2>1
<1> QED BY <1>1, <1>3, <1>4, <1>8 DEF Product

(* Basis points, truncated toward zero.                                    *)
Gap(a, y)   == Distance(a, y) * BPS
Trunc(a, y) == IF y > a THEN -(Gap(a, y) \div a) ELSE Gap(a, y) \div a
Known32(a, y) == y <= WideMax /\ Gap(a, y) <= WideMax /\ Gap(a, y) \div a <= I32Max

LEMMA GapIs ==
  ASSUME NEW a \in Positive, NEW y \in Nat
  PROVE  /\ Gap(a, y) \in Nat /\ Gap(a, y) \div a \in Nat
         /\ Gap(a, y) = IF a > y THEN a * BPS - y * BPS ELSE y * BPS - a * BPS
<1>1. a \in Nat \ {0} /\ BPS \in Nat
  BY FeeMathAssumption DEF Positive
<1>2. Gap(a, y) = IF a > y THEN (a - y) * BPS ELSE (y - a) * BPS
  BY DEF Gap, Distance
<1>3. (a - y) * BPS = a * BPS - y * BPS /\ (y - a) * BPS = y * BPS - a * BPS
  BY <1>1
<1>4. Distance(a, y) \in Nat
  BY <1>1 DEF Distance
<1>5. PICK d \in Nat : d = Distance(a, y)
  BY <1>4
<1>6. d * BPS \in Nat
  BY <1>1
<1>7. Gap(a, y) \in Nat
  BY <1>5, <1>6 DEF Gap
<1>8. Gap(a, y) \div a \in Nat
  BY <1>1, <1>7, Division
<1> QED BY <1>2, <1>3, <1>7, <1>8

LEMMA DifferenceIs ==
  ASSUME NEW a \in Positive, NEW b, NEW x
  PROVE  difference_bps(Fraction(a, b), x) =
           IF Known32(a, x * b) THEN {Trunc(a, x * b)} ELSE {}
<1>1. PICK y, z, e : y = x * b /\ z = Gap(a, y) /\ e = z \div a
  OBVIOUS
<1> DEFINE In(w) == {Signed(y > a, bps) : bps \in {k \in {w \div a} : FitsI32(k)}}
           At(w) == UNION {In(scaled) : scaled \in checked(Distance(a, w) * BPS)}
<1>2. difference_bps(Fraction(a, b), x)
        = UNION {UNION {{Signed(w > a, bps) : bps \in {k \in {scaled \div a} : FitsI32(k)}} :
                          scaled \in checked(Distance(a, w) * BPS)} : w \in checked(x * b)}
  BY DEF difference_bps, Fraction, Positive
<1>3. checked(x * b) = IF y <= WideMax THEN {y} ELSE {}
  BY <1>1 DEF checked
<1>4. difference_bps(Fraction(a, b), x) = IF y <= WideMax THEN At(y) ELSE {}
  <2>1. CASE y <= WideMax
    <3>1. checked(x * b) = {y}
      BY <1>3, <2>1
    <3> QED BY <1>2, <2>1, <3>1
  <2>2. CASE ~(y <= WideMax)
    <3>1. checked(x * b) = {}
      BY <1>3, <2>2
    <3> QED BY <1>2, <2>2, <3>1
  <2> QED BY <2>1, <2>2
<1>5. checked(Distance(a, y) * BPS) = IF z <= WideMax THEN {z} ELSE {}
  BY <1>1 DEF checked, Gap
<1>6. At(y) = IF z <= WideMax THEN In(z) ELSE {}
  <2> HIDE DEF In
  <2> QED BY <1>5
<1>7. In(z) = IF e <= I32Max THEN {Signed(y > a, e)} ELSE {}
  <2>1. {k \in {z \div a} : FitsI32(k)} = IF e <= I32Max THEN {e} ELSE {}
    BY <1>1 DEF FitsI32
  <2>2. CASE e <= I32Max
    BY <2>1, <2>2
  <2>3. CASE ~(e <= I32Max)
    BY <2>1, <2>3
  <2> QED BY <2>2, <2>3
<1>8. Signed(y > a, e) = Trunc(a, y)
  BY <1>1 DEF Signed, Trunc
<1> HIDE DEF In, At
<1>9. Known32(a, y) <=> y <= WideMax /\ z <= WideMax /\ e <= I32Max
  BY <1>1 DEF Known32
<1> QED BY <1>1, <1>4, <1>6, <1>7, <1>8, <1>9

LEMMA TruncOrdered ==
  ASSUME NEW a \in Positive, NEW p \in Positive, NEW z \in Nat, NEW w \in Nat,
         AtMost(w, p, z, a)
  PROVE  Trunc(a, z) <= Trunc(p, w)
<1>1. w * a <= z * p /\ a \in Nat \ {0} /\ p \in Nat \ {0} /\ BPS \in Nat
  BY FeeMathAssumption DEF AtMost, Positive
<1>2. PICK X \in Nat : X = Gap(a, z) /\ X = IF a > z THEN a * BPS - z * BPS ELSE z * BPS - a * BPS
  BY GapIs
<1>3. PICK Y \in Nat : Y = Gap(p, w) /\ Y = IF p > w THEN p * BPS - w * BPS ELSE w * BPS - p * BPS
  BY GapIs
<1>4. X \div a \in Nat /\ Y \div p \in Nat
  BY <1>2, <1>3, GapIs
<1>5. BPS * (w * a) <= BPS * (z * p)
  <2>1. w * a \in Int /\ z * p \in Int
    BY <1>1
  <2> QED BY <1>1, <2>1, Monotone
<1>6. /\ (w * BPS - p * BPS) * a = BPS * (w * a) - (p * a) * BPS
      /\ (p * BPS - w * BPS) * a = (p * a) * BPS - BPS * (w * a)
      /\ (z * BPS - a * BPS) * p = BPS * (z * p) - (p * a) * BPS
      /\ (a * BPS - z * BPS) * p = (p * a) * BPS - BPS * (z * p)
  BY <1>1
<1>7. PICK A \in Int, B \in Int, C \in Int :
        A = BPS * (w * a) /\ B = BPS * (z * p) /\ C = (p * a) * BPS
  BY <1>1
<1>8. CASE z > a /\ w > p
  <2>1. X = z * BPS - a * BPS /\ Y = w * BPS - p * BPS
    BY <1>1, <1>2, <1>3, <1>8
  <2>2. X * p = B - C /\ Y * a = A - C
    BY <1>6, <1>7, <2>1
  <2>3. Y * a <= X * p
    BY <1>5, <1>7, <2>2
  <2>4. Y \div p <= X \div a
    BY <2>3, DivMonotone DEF AtMost
  <2> QED BY <1>2, <1>3, <1>4, <1>8, <2>4 DEF Trunc
<1>9. CASE z > a /\ ~(w > p)
  BY <1>2, <1>3, <1>4, <1>9 DEF Trunc
<1>10. CASE ~(z > a) /\ ~(w > p)
  <2>1. X = a * BPS - z * BPS /\ Y = p * BPS - w * BPS
    <3>1. CASE a > z
      <4>1. X = a * BPS - z * BPS
        BY <1>2, <3>1
      <4> QED BY <1>1, <1>3, <1>10, <4>1
    <3>2. CASE a = z
      <4>1. X = a * BPS - z * BPS
        BY <1>1, <1>2, <3>2
      <4> QED BY <1>1, <1>3, <1>10, <4>1
    <3> QED BY <1>1, <1>10, <3>1, <3>2
  <2>2. X * p = C - B /\ Y * a = C - A
    BY <1>6, <1>7, <2>1
  <2>3. X * p <= Y * a
    BY <1>5, <1>7, <2>2
  <2>4. X \div a <= Y \div p
    BY <2>3, DivMonotone DEF AtMost
  <2> QED BY <1>2, <1>3, <1>10, <2>4 DEF Trunc
<1>11. CASE ~(z > a) /\ w > p
  <2>1. a * (p + 1) <= a * w
    BY <1>1, <1>11, Monotone
  <2>2. p * z <= p * a
    BY <1>1, <1>11, Monotone
  <2>3. a * (p + 1) = p * a + a /\ a * w = w * a /\ p * z = z * p
    BY <1>1
  <2>4. FALSE
    BY <1>1, <2>1, <2>2, <2>3
  <2> QED BY <2>4
<1> QED BY <1>8, <1>9, <1>10, <1>11

LEMMA ExactlyIs ==
  ASSUME NEW a \in Positive, NEW b \in Positive, output \in Nat
  PROVE  /\ Exactly(<<a, b>>) = Trunc(a, output * b)
         /\ Comparable(<<a, b>>) <=> Known32(a, output * b)
         /\ output * b \in Nat
<1>1. output * b \in Nat
  BY DEF Positive
<1>2. PICK y : y = output * b
  OBVIOUS
<1>3. Scaled(<<a, b>>) = Gap(a, y)
  BY <1>2 DEF Scaled, Gap
<1> QED BY <1>1, <1>2, <1>3 DEF Exactly, Comparable, Trunc, Known32

LEMMA TruncFits ==
  ASSUME NEW a \in Positive, NEW y \in Nat, Known32(a, y)
  PROVE  Trunc(a, y) \in -I32Max..I32Max
<1>1. PICK d \in Nat : d = Gap(a, y) \div a
  BY GapIs
<1>2. I32Max \in Nat
  BY PriceImpactAssumption
<1>3. d <= I32Max
  BY <1>1 DEF Known32
<1> QED BY <1>1, <1>2, <1>3 DEF Trunc

LEMMA UnderOrdered ==
  ASSUME NEW x, NEW y, Under(x, y), output \in Nat
  PROVE  Exactly(x) <= Exactly(y) /\ Whole(x) <= Whole(y) /\ Whole(x) \in Nat
<1>1. PICK a \in Positive, b \in Positive, p \in Positive, q \in Positive :
        x = <<a, b>> /\ y = <<p, q>> /\ AtMost(a, b, p, q)
  BY DEF Under
<1>2. PICK z \in Nat, w \in Nat : z = output * b /\ w = output * q
  BY ExactlyIs
<1>3. AtMost(w, p, z, a)
  <2>1. a \in Nat /\ b \in Nat /\ p \in Nat /\ q \in Nat /\ a * q <= p * b
    BY <1>1 DEF AtMost, Positive
  <2>2. a * q \in Int /\ p * b \in Int
    BY <2>1
  <2>3. output * (a * q) <= output * (p * b)
    BY <2>1, <2>2, Monotone
  <2>4. (output * q) * a = output * (a * q) /\ (output * b) * p = output * (p * b)
    BY <2>1
  <2> QED BY <1>2, <2>3, <2>4 DEF AtMost
<1>4. Exactly(x) <= Exactly(y)
  BY <1>1, <1>2, <1>3, TruncOrdered, ExactlyIs
<1>5. a \div b <= p \div q /\ a \div b \in Nat
  <2>1. a \in Nat /\ p \in Nat /\ b \in Nat \ {0}
    BY DEF Positive
  <2> QED BY <1>1, <2>1, DivMonotone, Division
<1> QED BY <1>1, <1>4, <1>5 DEF Whole

(* The platform takes less than everything.                                *)
LEMMA NetIs ==
  ASSUME gross \in Grosses
  PROVE  gross \in Positive /\ net \in Positive /\ net <= gross
<1>1. BPS \in Nat \ {0} /\ Width \in Nat /\ BPS * BPS < Width
  BY FeeMathAssumption
<1>2. gross \in Nat \ {0} /\ gross < Width /\ FeeBps \in Nat /\ FeeBps <= BPS - 1
  BY <1>1, PriceImpactAssumption DEF U256
<1>3. /\ gross \div BPS \in Nat /\ gross % BPS \in 0..BPS - 1
      /\ gross = BPS * (gross \div BPS) + (gross % BPS)
  BY <1>1, <1>2, Division
<1>4. PICK q \in Nat, r \in Nat : q = gross \div BPS /\ r = gross % BPS /\ r <= BPS - 1
  BY <1>1, <1>3
<1>5. gross = BPS * q + r
  BY <1>3, <1>4
<1>6. q * FeeBps <= q * (BPS - 1) /\ q * (BPS - 1) = BPS * q - q
  BY <1>1, <1>2, Monotone
<1>7. r * FeeBps <= r * (BPS - 1) /\ r * (BPS - 1) = BPS * r - r
  BY <1>1, <1>2, Monotone
<1>8. BPS * r <= BPS * BPS
  BY <1>1, <1>4, Monotone
<1>9. PICK u \in Nat, v \in Nat, w \in Nat, x \in Nat :
        u = q * FeeBps /\ v = r * FeeBps /\ w = BPS * q /\ x = BPS * r
  BY <1>1, <1>2
<1>10. u <= w - q /\ v <= x - r /\ gross = w + r /\ x < Width
  BY <1>1, <1>5, <1>6, <1>7, <1>8, <1>9
<1>11. v \div BPS \in Nat /\ BPS * (v \div BPS) <= v
  BY <1>1, Division
<1>12. PICK t \in Nat : t = v \div BPS
  BY <1>11
<1>13. t <= r /\ (r > 0 => t <= r - 1)
  <2>1. BPS * t <= BPS * r
    <3>1. PICK c \in Nat : c = BPS * t
      BY <1>1
    <3> QED BY <1>9, <1>10, <1>11, <1>12, <3>1
  <2>2. t <= r
    BY <1>1, <2>1, Cancel
  <2>3. ASSUME r > 0, t = r PROVE FALSE
    BY <1>9, <1>10, <1>11, <1>12, <2>3
  <2> QED BY <2>2, <2>3
<1>14. u + t <= gross - 1
  <2>1. CASE r > 0
    BY <1>10, <1>13, <2>1
  <2>2. CASE r = 0
    <3>1. q # 0
      BY <1>1, <1>2, <1>5, <2>2
    <3> QED BY <1>10, <1>13, <2>2, <3>1
  <2> QED BY <2>1, <2>2
<1>15. Wrap(u) = u /\ Wrap(v) = v /\ Wrap(u + t) = u + t
  <2>1. u < Width /\ v < Width /\ u + t < Width
    BY <1>1, <1>2, <1>10, <1>14
  <2>2. \A n \in Nat : n < Width => n % Width = n
    BY <1>1
  <2> QED BY <2>1, <2>2 DEF Wrap
<1>16. calculate_fee(gross, FeeBps) = u + t
  BY <1>4, <1>9, <1>12, <1>15 DEF calculate_fee, PerBps
<1> QED BY <1>2, <1>14, <1>16 DEF net, Positive

-----------------------------------------------------------------------------
(***************************************************************************)
(* The numbers of a report.                                                *)
(***************************************************************************)
Numbers(m, a, i, t) ==
  [failure |-> "", market |-> m, after_fees |-> a, impact |-> i, total_cost |-> t]
Floors(S) == UNION {floor(f) : f \in S}

LEMMA FloorIs ==
  ASSUME NEW a, NEW b
  PROVE  floor(Fraction(a, b)) = {n \in {Whole(<<a, b>>)} : n < Width}
BY DEF floor, Fraction, Whole

LEMMA FloorsIs ==
  ASSUME NEW x
  PROVE  Floors({x}) = floor(x) /\ Floors({}) = {}
BY DEF Floors

LEMMA CalculateIs ==
  ASSUME NEW references
  PROVE  calculate(references) =
           UNION {UNION {{Numbers(m, a, i, t) : m \in Floors(market(references, net)),
                            a \in floor(after), i \in difference_bps(after, output),
                            t \in difference_bps(whole, output)} :
                    after \in after_fee_reference(references, net)} :
                  whole \in market(references, gross)}
BY DEF calculate, Numbers, Floors

Calculated(c, M, A, W) ==
  \E x \in A, w \in W :
    \E m \in Floors(M), a \in floor(x), i \in difference_bps(x, output),
       t \in difference_bps(w, output) : c = Numbers(m, a, i, t)

LEMMA CalculatedIs ==
  ASSUME NEW references, NEW M, NEW A, NEW W,
         M = market(references, net), A = after_fee_reference(references, net),
         W = market(references, gross)
  PROVE  \A c : c \in calculate(references) <=> Calculated(c, M, A, W)
<1>1. calculate(references) =
           UNION {UNION {{Numbers(m, a, i, t) : m \in Floors(M),
                            a \in floor(after), i \in difference_bps(after, output),
                            t \in difference_bps(whole, output)} :
                    after \in A} : whole \in W}
  BY CalculateIs
<1> DEFINE F(after, whole) == {Numbers(m, a, i, t) : m \in Floors(M),
                            a \in floor(after), i \in difference_bps(after, output),
                            t \in difference_bps(whole, output)}
<1>2. ASSUME NEW c, NEW x, NEW w
      PROVE  c \in F(x, w) <=>
               \E m \in Floors(M), a \in floor(x), i \in difference_bps(x, output),
                  t \in difference_bps(w, output) : c = Numbers(m, a, i, t)
  OBVIOUS
<1>3. calculate(references) = UNION {UNION {F(after, whole) : after \in A} : whole \in W}
  BY <1>1
<1> HIDE DEF F
<1>4. \A c : c \in calculate(references) <=> \E x \in A, w \in W : c \in F(x, w)
  BY <1>3
<1> QED BY <1>2, <1>4 DEF Calculated

(* What a report with numbers says, hop by hop exact and in order.         *)
NumbersRight(c) ==
  /\ c.failure = "" /\ c.market \in U256 /\ c.after_fees \in U256
  /\ {c.impact, c.total_cost} \subseteq -I32Max..I32Max
  /\ c.market = Whole(Product(net, Spot)) /\ c.after_fees = Whole(Product(net, AfterFees))
  /\ c.impact = Exactly(Product(net, AfterFees))
  /\ c.total_cost = Exactly(Product(gross, Spot))
  /\ c.impact <= c.total_cost

LEMMA CalculateRight ==
  ASSUME NEW references, RightReferences(references), gross \in Grosses, output \in Outputs,
         NEW c \in calculate(references)
  PROVE  NumbersRight(c)
<1>1. gross \in Positive /\ net \in Positive /\ net <= gross
  BY NetIs
<1>2. output \in Nat /\ Width \in Nat
  BY PriceImpactAssumption, FeeMathAssumption DEF U256
<1>3. PICK M, A, W : /\ M = market(references, net) /\ W = market(references, gross)
                     /\ A = after_fee_reference(references, net)
  OBVIOUS
<1>4. /\ AtProduct(M, net, Spot) /\ AtProduct(W, gross, Spot)
      /\ AtProduct(A, net, AfterFees)
  BY <1>1, <1>3, MarketIs, AfterIs
<1>5. Calculated(c, M, A, W)
  BY <1>3, CalculatedIs
<1>6. PICK x \in A, w \in W : 
        \E m \in Floors(M), a \in floor(x), i \in difference_bps(x, output),
           t \in difference_bps(w, output) : c = Numbers(m, a, i, t)
  BY <1>5 DEF Calculated
<1>7. PICK m \in Floors(M), a \in floor(x), i \in difference_bps(x, output),
           t \in difference_bps(w, output) : c = Numbers(m, a, i, t)
  BY <1>6
<1>8. A # {} /\ W # {} /\ M # {}
  BY <1>6, <1>7, FloorsIs
<1>9. PICK am \in Positive, bm \in Positive :
        Product(net, Spot) = <<am, bm>> /\ M = {Fraction(am, bm)}
  BY <1>4, <1>8 DEF AtProduct
<1>10. PICK aa \in Positive, ba \in Positive :
        Product(net, AfterFees) = <<aa, ba>> /\ A = {Fraction(aa, ba)}
  BY <1>4, <1>8 DEF AtProduct
<1>11. PICK aw \in Positive, bw \in Positive :
        Product(gross, Spot) = <<aw, bw>> /\ W = {Fraction(aw, bw)}
  BY <1>4, <1>8 DEF AtProduct
<1>12. \A j \in 1..Len(AfterFees) : Nonzero(AfterFees[j])
  BY <1>4, <1>8 DEF AtProduct
<1>13. /\ Under(Product(net, AfterFees), Product(gross, Spot))
       /\ Under(Product(net, AfterFees), Product(net, Spot))
  BY <1>1, <1>12, ProductsOrdered DEF Positive
<1>14. m \in U256 /\ m = Whole(Product(net, Spot))
  <2>1. Floors(M) = floor(Fraction(am, bm))
    BY <1>9, FloorsIs
  <2>2. m = Whole(<<am, bm>>) /\ m < Width
    BY <1>7, <2>1, FloorIs
  <2>3. m \in Nat
    <3>1. am \in Nat /\ bm \in Nat \ {0}
      BY DEF Positive
    <3> QED BY <2>2, <3>1, Division DEF Whole
  <2> QED BY <1>2, <1>9, <2>2, <2>3 DEF U256
<1>15. a \in U256 /\ a = Whole(Product(net, AfterFees))
  <2>1. a = Whole(<<aa, ba>>) /\ a < Width
    BY <1>6, <1>7, <1>10, FloorIs
  <2>2. a \in Nat
    BY <1>2, <1>10, <1>13, <2>1, UnderOrdered
  <2> QED BY <1>2, <1>10, <2>1, <2>2 DEF U256
<1>16. i \in -I32Max..I32Max /\ i = Exactly(Product(net, AfterFees))
  <2>1. PICK y \in Nat : y = output * ba
    BY <1>2, ExactlyIs
  <2>2. x = Fraction(aa, ba)
    BY <1>6, <1>10
  <2>3. Known32(aa, y) /\ i = Trunc(aa, y)
    BY <1>7, <2>1, <2>2, DifferenceIs
  <2> QED BY <1>2, <1>10, <2>1, <2>3, TruncFits, ExactlyIs
<1>17. t \in -I32Max..I32Max /\ t = Exactly(Product(gross, Spot))
  <2>1. PICK y \in Nat : y = output * bw
    BY <1>2, ExactlyIs
  <2>2. w = Fraction(aw, bw)
    BY <1>6, <1>11
  <2>3. Known32(aw, y) /\ t = Trunc(aw, y)
    BY <1>7, <2>1, <2>2, DifferenceIs
  <2> QED BY <1>2, <1>11, <2>1, <2>3, TruncFits, ExactlyIs
<1>18. i <= t
  BY <1>2, <1>13, <1>16, <1>17, UnderOrdered
<1>19. /\ c.failure = "" /\ c.market = m /\ c.after_fees = a /\ c.impact = i
       /\ c.total_cost = t
  BY <1>7 DEF Numbers
<1> QED BY <1>14, <1>15, <1>16, <1>17, <1>18, <1>19 DEF NumbersRight

LEMMA CalculateGives ==
  ASSUME NEW references, RightReferences(references), gross \in Grosses, output \in Outputs,
         AllFit(net, Spot), AllFit(gross, Spot), AllFit(net, AfterFees),
         Whole(Product(net, Spot)) < Width,
         Comparable(Product(net, AfterFees)), Comparable(Product(gross, Spot))
  PROVE  calculate(references) # {}
<1>1. gross \in Positive /\ net \in Positive /\ net <= gross
  BY NetIs
<1>2. output \in Nat /\ Width \in Nat
  BY PriceImpactAssumption, FeeMathAssumption DEF U256
<1>3. PICK M, A, W : /\ M = market(references, net) /\ W = market(references, gross)
                     /\ A = after_fee_reference(references, net)
  OBVIOUS
<1>4. /\ AtProduct(M, net, Spot) /\ AtProduct(W, gross, Spot)
      /\ AtProduct(A, net, AfterFees)
  BY <1>1, <1>3, MarketIs, AfterIs
<1>5. PICK am \in Positive, bm \in Positive :
        Product(net, Spot) = <<am, bm>> /\ M = {Fraction(am, bm)}
  BY <1>4 DEF AtProduct
<1>6. PICK aa \in Positive, ba \in Positive :
        Product(net, AfterFees) = <<aa, ba>> /\ A = {Fraction(aa, ba)}
  BY <1>4 DEF AtProduct
<1>7. PICK aw \in Positive, bw \in Positive :
        Product(gross, Spot) = <<aw, bw>> /\ W = {Fraction(aw, bw)}
  BY <1>4 DEF AtProduct
<1>8. \A j \in 1..Len(AfterFees) : Nonzero(AfterFees[j])
  BY <1>4 DEF AtProduct
<1>9. Under(Product(net, AfterFees), Product(net, Spot))
  BY <1>1, <1>8, ProductsOrdered DEF Positive
<1>10. Whole(<<aa, ba>>) <= Whole(<<am, bm>>) /\ Whole(<<aa, ba>>) \in Nat
  BY <1>2, <1>5, <1>6, <1>9, UnderOrdered
<1>11. Whole(<<am, bm>>) \in Nat
  <2>1. am \in Nat /\ bm \in Nat \ {0}
    BY DEF Positive
  <2> QED BY <2>1, Division DEF Whole
<1>12. Whole(<<am, bm>>) < Width /\ Whole(<<aa, ba>>) < Width
  BY <1>2, <1>5, <1>10, <1>11
<1>13. PICK m : m \in Floors(M)
  BY <1>5, <1>12, FloorIs, FloorsIs
<1>14. PICK a : a \in floor(Fraction(aa, ba))
  BY <1>12, FloorIs
<1>15. PICK i : i \in difference_bps(Fraction(aa, ba), output)
  BY <1>2, <1>6, ExactlyIs, DifferenceIs
<1>16. PICK t : t \in difference_bps(Fraction(aw, bw), output)
  BY <1>2, <1>7, ExactlyIs, DifferenceIs
<1>17. PICK x \in A, w \in W : x = Fraction(aa, ba) /\ w = Fraction(aw, bw)
  BY <1>6, <1>7
<1>18. Calculated(Numbers(m, a, i, t), M, A, W)
  BY <1>13, <1>14, <1>15, <1>16, <1>17 DEF Calculated
<1>19. Numbers(m, a, i, t) \in calculate(references)
  BY <1>3, <1>18, CalculatedIs
<1> QED BY <1>19

-----------------------------------------------------------------------------
(***************************************************************************)
(* Every hop has its answer, so what is estimated is of this route.        *)
(***************************************************************************)
Joined(i)  == CHOOSE a \in {answers[n] : n \in DOMAIN answers} : a.hop = i
References == [i \in DOMAIN route |-> Joined(i).reference]

LEMMA ReferencesTotal ==
  ASSUME route \in Seq(Hops), AnswersRight, Len(answers) = Len(route)
  PROVE  /\ Len(References) = Len(route) /\ DOMAIN References = 1..Len(route)
         /\ \A i \in 1..Len(route) :
              \E s, k \in BOOLEAN : References[i] = reference(route[i], s, k)
<1>1. PICK n \in Nat : n = Len(route) /\ DOMAIN route = 1..n /\ DOMAIN answers = 1..n
  BY DEF AnswersRight
<1> DEFINE f == [i \in 1..n |-> answers[i].hop]
<1>2. /\ \A i \in 1..n : answers[i].hop \in 1..n
      /\ \A i, j \in 1..n : answers[i].hop = answers[j].hop => i = j
  BY <1>1 DEF AnswersRight
<1>3. f \in Injection(1..n, 1..n)
  BY <1>2 DEF Injection, IsInjective
<1>4. IsFiniteSet(1..n)
  BY FS_Interval
<1>5. f \in Surjection(1..n, 1..n)
  BY <1>3, <1>4, FS_Injection
<1>6. ASSUME NEW h \in 1..n
      PROVE  \E s, k \in BOOLEAN : References[h] = reference(route[h], s, k)
  <2>1. PICK i \in 1..n : f[i] = h
    BY <1>5 DEF Surjection
  <2>2. \E a \in {answers[m] : m \in DOMAIN answers} : a.hop = h
    BY <1>1, <2>1
  <2>3. Joined(h) \in {answers[m] : m \in DOMAIN answers} /\ Joined(h).hop = h
    BY <2>2 DEF Joined
  <2>4. PICK m \in DOMAIN answers : Joined(h) = answers[m] /\ answers[m].hop = h
    BY <2>3
  <2>5. PICK s \in BOOLEAN, k \in BOOLEAN : answers[m].reference = reference(route[h], s, k)
    BY <2>4 DEF AnswersRight
  <2>6. References[h] = Joined(h).reference
    BY <1>1 DEF References
  <2> QED BY <2>4, <2>5, <2>6
<1>7. References = [i \in 1..n |-> Joined(i).reference]
  BY <1>1 DEF References
<1>8. Len(References) = n /\ DOMAIN References = 1..n
  BY <1>7
<1> QED BY <1>1, <1>6, <1>8

Failures == {"State", "HookPricing", "HookConfiguration"}
LEMMA FailureIs ==
  ASSUME NEW h \in Hop, NEW s \in BOOLEAN, NEW k \in BOOLEAN
  PROVE  reference(h, s, k).failure \in Failures \cup {""}
<1>1. PICK r : r = reference(h, s, k)
  OBVIOUS
<1>2. PICK hook : hook = hook_fees(h, k)
  OBVIOUS
<1>3. h.kind \in {"V2", "V3", "V4"} /\ h.hooks \in {"none", "pons", "other"}
  BY DEF Hop
<1>4. v4_model(h) \in {"HookPricing", "Core", "PonsV2"}
  BY <1>3 DEF v4_model
<1>5. PICK failure, fees : hook.failure = failure /\ hook.fees = fees
  OBVIOUS
<1>6. failure \in Failures \cup {""}
  <2>1. CASE v4_model(h) = "HookPricing"
    <3>1. hook = [failure |-> "HookPricing", fees |-> {}]
      BY <1>2, <2>1 DEF hook_fees
    <3> QED BY <1>5, <3>1 DEF Failures
  <2>2. CASE v4_model(h) = "Core"
    <3>1. hook = [failure |-> "", fees |-> {NoHookFees}]
      BY <1>2, <2>2 DEF hook_fees
    <3> QED BY <1>5, <3>1 DEF Failures
  <2>3. CASE v4_model(h) = "PonsV2" /\ k /\ Launched(h.launch)
    <3>1. PICK some : hook = [failure |-> "", fees |-> some]
      BY <1>2, <2>3 DEF hook_fees
    <3> QED BY <1>5, <3>1 DEF Failures
  <2>4. CASE v4_model(h) = "PonsV2" /\ ~(k /\ Launched(h.launch))
    <3>1. hook = [failure |-> IF k THEN "HookConfiguration" ELSE "State", fees |-> {}]
      BY <1>2, <2>4 DEF hook_fees
    <3> QED BY <1>5, <3>1 DEF Failures
  <2> QED BY <1>4, <2>1, <2>2, <2>3, <2>4
<1>7. \/ r = [failure |-> "State"] \/ r = [failure |-> failure]
      \/ \E a, b, pips, some : r = Reference(a, b, pips, some)
  <2>1. ASSUME NEW pips, NEW some
        PROVE  \E a, b : sqrt_reference(h, pips, some) = Reference(a, b, pips, some)
    <3>1. PICK squared : squared = h.sqrt * h.sqrt
      OBVIOUS
    <3> QED BY <3>1 DEF sqrt_reference
  <2>2. CASE ~s
    BY <1>1, <2>2 DEF reference
  <2>3. CASE s /\ h.kind = "V2"
    BY <1>1, <2>3 DEF reference
  <2>4. CASE s /\ h.kind = "V3"
    <3>1. r = sqrt_reference(h, {h.fee}, {NoHookFees})
      BY <1>1, <2>4 DEF reference
    <3> QED BY <2>1, <3>1
  <2>5. CASE s /\ h.kind = "V4"
    <3>1. r = IF failure # "" THEN [failure |-> failure]
              ELSE sqrt_reference(h, CoreFee(h), fees)
      BY <1>1, <1>2, <1>5, <2>5 DEF reference
    <3>2. CASE failure = ""
      <4>1. PICK pips : pips = CoreFee(h)
        OBVIOUS
      <4>2. PICK a, b : sqrt_reference(h, pips, fees) = Reference(a, b, pips, fees)
        BY <2>1
      <4>3. r = Reference(a, b, pips, fees)
        BY <3>1, <3>2, <4>1, <4>2
      <4> QED BY <4>3
    <3>3. CASE failure # ""
      BY <3>1, <3>3
    <3> QED BY <3>2, <3>3
  <2> QED BY <1>3, <2>2, <2>3, <2>4, <2>5
<1>8. r.failure \in Failures \cup {""}
  <2>1. CASE r = [failure |-> "State"]
    BY <2>1 DEF Failures
  <2>2. CASE r = [failure |-> failure]
    BY <1>6, <2>2
  <2>3. CASE \E a, b, pips, some : r = Reference(a, b, pips, some)
    <3>1. PICK a, b, pips, some : r = Reference(a, b, pips, some)
      BY <2>3
    <3> QED BY <3>1 DEF Reference
  <2> QED BY <1>7, <2>1, <2>2, <2>3
<1> QED BY <1>1, <1>8

(* What estimate decides from the references.                              *)
Failed(references)  == {i \in DOMAIN route : references[i].failure # ""}
Unknown(references) == \E i \in DOMAIN route \ Failed(references) :
                         references[i].fee_pips = {} \/ references[i].hook_fees = {}
Verdict(references) ==
  IF Failed(references) # {}
  THEN {[failure |-> references[CHOOSE i \in Failed(references) :
                                  \A j \in Failed(references) : i <= j].failure]}
  ELSE IF Unknown(references) THEN {[failure |-> "HookPricing"]}
  ELSE LET result == calculate(references)
       IN  IF result = {} THEN {[failure |-> "Arithmetic"]} ELSE result

EverythingFits ==
  /\ AllFit(net, Spot) /\ AllFit(gross, Spot) /\ AllFit(net, AfterFees)
  /\ Whole(Product(net, Spot)) < Width
  /\ Comparable(Product(net, AfterFees)) /\ Comparable(Product(gross, Spot))
RightNumbers(r) == r.failure = "" => NumbersRight(r) /\ \A i \in DOMAIN route : Known(route[i])
RightFailure(r) == r.failure = "Arithmetic" => ~EverythingFits
Right(r) == RightNumbers(r) /\ RightFailure(r)

LEMMA FailureRight ==
  ASSUME NEW failure \in Failures
  PROVE  Right([failure |-> failure])
BY DEF Right, RightNumbers, RightFailure, Failures

LEMMA VerdictRight ==
  ASSUME route \in Seq(Hops), gross \in Grosses, output \in Outputs,
         AnswersRight, Len(answers) = Len(route), NEW r \in Verdict(References)
  PROVE  Right(r)
<1>1. /\ Len(References) = Len(route) /\ DOMAIN References = 1..Len(route)
      /\ \A i \in 1..Len(route) :
           \E s, k \in BOOLEAN : References[i] = reference(route[i], s, k)
  BY ReferencesTotal
<1>2. /\ DOMAIN route = 1..Len(route) /\ Len(route) \in Nat
      /\ \A i \in 1..Len(route) : route[i] \in Hop
  BY PriceImpactAssumption
<1>3. PICK references : references = References
  OBVIOUS
<1>4. CASE Failed(references) # {}
  <2>1. Failed(references) \subseteq 1..Len(route)
    BY <1>2 DEF Failed
  <2>2. PICK m \in Failed(references) : \A j \in Failed(references) : ~(j < m)
    <3>1. Failed(references) \in SUBSET Nat
      BY <1>2, <2>1
    <3> QED BY <1>4, <3>1, Least
  <2>3. \E i \in Failed(references) : \A j \in Failed(references) : i <= j
    BY <1>2, <2>1, <2>2
  <2>4. PICK i \in Failed(references) :
          i = CHOOSE x \in Failed(references) : \A j \in Failed(references) : x <= j
    BY <2>3
  <2>5. r = [failure |-> references[i].failure]
    BY <1>3, <1>4, <2>4 DEF Verdict
  <2>6. references[i].failure \in Failures \cup {""} /\ references[i].failure # ""
    <3>1. PICK s \in BOOLEAN, k \in BOOLEAN : references[i] = reference(route[i], s, k)
      BY <1>1, <1>3, <2>1, <2>4
    <3>2. reference(route[i], s, k).failure \in Failures \cup {""}
      BY <1>2, <2>1, <2>4, FailureIs
    <3> QED BY <2>4, <3>1, <3>2 DEF Failed
  <2> QED BY <2>5, <2>6, FailureRight
<1>5. CASE Failed(references) = {} /\ Unknown(references)
  <2>1. r = [failure |-> "HookPricing"] /\ "HookPricing" \in Failures
    BY <1>3, <1>5 DEF Verdict, Failures
  <2> QED BY <2>1, FailureRight
<1>6. CASE Failed(references) = {} /\ ~Unknown(references)
  <2>1. ASSUME NEW i \in 1..Len(route)
        PROVE  RightReference(references[i], route[i]) /\ Known(route[i])
    <3>1. Complete(references[i])
      BY <1>2, <1>6 DEF Failed, Unknown, Complete
    <3>2. PICK s \in BOOLEAN, k \in BOOLEAN : references[i] = reference(route[i], s, k)
      BY <1>1, <1>3
    <3> QED BY <1>2, <3>1, <3>2, ReferenceIs
  <2>2. RightReferences(references)
    BY <1>1, <1>3, <2>1 DEF RightReferences
  <2>3. Verdict(references) = IF calculate(references) = {} THEN {[failure |-> "Arithmetic"]}
                              ELSE calculate(references)
    BY <1>6 DEF Verdict
  <2>4. CASE calculate(references) = {}
    <3>1. ~EverythingFits
      BY <2>2, <2>4, CalculateGives DEF EverythingFits
    <3>2. r = [failure |-> "Arithmetic"]
      BY <1>3, <2>3, <2>4
    <3> QED BY <3>1, <3>2 DEF Right, RightNumbers, RightFailure
  <2>5. CASE calculate(references) # {}
    <3>1. r \in calculate(references)
      BY <1>3, <2>3, <2>5
    <3>2. NumbersRight(r)
      BY <2>2, <3>1, CalculateRight
    <3>3. r.failure = ""
      BY <3>2 DEF NumbersRight
    <3> QED BY <1>2, <2>1, <3>2, <3>3 DEF Right, RightNumbers, RightFailure
  <2> QED BY <2>4, <2>5
<1> QED BY <1>4, <1>5, <1>6

-----------------------------------------------------------------------------
(***************************************************************************)
(* The inductive invariant.                                                *)
(***************************************************************************)
Reports == \A r \in report : Right(r)
Typed ==
  /\ route \in Seq(Hops) /\ Len(route) <= MaxHops
  /\ gross \in Grosses /\ output \in Outputs

LEMMA ReportsRight ==
  Reports <=> ReportRight /\ \A r \in report : r.failure = "" =>
       r.market \in U256 /\ r.after_fees \in U256
       /\ {r.impact, r.total_cost} \subseteq -I32Max..I32Max
<1>1. ReportRight <=>
        \A r \in report :
          /\ r.failure = "" =>
               /\ r.market = Whole(Product(net, Spot))
               /\ r.after_fees = Whole(Product(net, AfterFees))
               /\ r.impact = Exactly(Product(net, AfterFees))
               /\ r.total_cost = Exactly(Product(gross, Spot))
               /\ r.impact <= r.total_cost
               /\ \A i \in DOMAIN route : Known(route[i])
          /\ r.failure = "Arithmetic" => ~EverythingFits
  BY DEF ReportRight, Exact, CostsAtLeastImpact, GivesUpOnlyIfItMust, KnownCosts, Known,
         EverythingFits
<1> QED BY <1>1 DEF Reports, Right, RightNumbers, RightFailure, NumbersRight

Standing == /\ Typed /\ AnswersRight /\ Reports
          /\ \A n \in DOMAIN answers : answers[n].hop \in DOMAIN route
LEMMA InvariantParts == EstimateInvariant <=> Standing
BY ReportsRight DEF EstimateInvariant, TypeOK, Typed, Standing

LEMMA EstimateIs ==
  ASSUME estimate
  PROVE  /\ report = {} /\ Len(answers) = Len(route) /\ report' = Verdict(References)
         /\ UNCHANGED <<route, gross, output, answers>>
BY DEF estimate, Verdict, Failed, Unknown, References, Joined

(* While the route and the amounts stand, so does what is right.           *)
LEMMA RightStands ==
  ASSUME UNCHANGED <<route, gross, output>>, NEW r
  PROVE  Right(r)' <=> Right(r)
BY DEF Right, RightNumbers, RightFailure, NumbersRight, EverythingFits, AllFit, Comparable,
       Exactly, Scaled, net, Spot, AfterFees

LEMMA InvariantInit == Init => EstimateInvariant
<1>1. SUFFICES ASSUME Init PROVE EstimateInvariant
  OBVIOUS
<1>2. Typed
  BY <1>1, PriceImpactAssumption DEF Init, Typed
<1>3. answers = <<>> /\ report = {}
  BY <1>1 DEF Init
<1>4. answers \in Seq(Answered) /\ DOMAIN answers = {}
  BY <1>3
<1>5. AnswersRight
  BY <1>4 DEF AnswersRight
<1>6. Reports
  BY <1>3 DEF Reports
<1> QED BY <1>2, <1>4, <1>5, <1>6, InvariantParts DEF Standing

LEMMA ExtendKeeps ==
  ASSUME EstimateInvariant, NEW h \in Hops, Extend(h)
  PROVE  EstimateInvariant'
<1>1. Typed /\ AnswersRight
  BY InvariantParts DEF Standing
<1>2. /\ report = {} /\ answers = <<>> /\ Len(route) < MaxHops
      /\ route' = Append(route, h) /\ UNCHANGED <<gross, output, answers, report>>
  BY DEF Extend
<1>3. Typed'
  <2>1. route' \in Seq(Hops) /\ Len(route') = Len(route) + 1 /\ Len(route) \in Nat
    BY <1>1, <1>2 DEF Typed
  <2>2. Len(route') <= MaxHops
    BY <1>2, <2>1, PriceImpactAssumption
  <2> QED BY <1>1, <1>2, <2>1, <2>2 DEF Typed
<1>4. answers' \in Seq(Answered) /\ DOMAIN answers' = {}
  BY <1>2
<1>5. AnswersRight'
  BY <1>4 DEF AnswersRight, Answered
<1>6. Reports'
  BY <1>2 DEF Reports
<1>7. EstimateInvariant' <=> Standing'
  BY InvariantParts, PTL
<1> QED BY <1>3, <1>4, <1>5, <1>6, <1>7 DEF Standing

LEMMA AnswerKeeps ==
  ASSUME EstimateInvariant, NEW i \in 1..MaxHops, NEW s \in BOOLEAN, NEW k \in BOOLEAN, Answer(i, s, k)
  PROVE  EstimateInvariant'
<1>1. Typed /\ AnswersRight /\ Reports
  BY InvariantParts DEF Standing
<1>2. PICK a : a = [hop |-> i, reference |-> reference(route[i], s, k)]
  OBVIOUS
<1>3. /\ i \in DOMAIN route /\ \A n \in DOMAIN answers : answers[n].hop # i
      /\ answers' = Append(answers, a) /\ UNCHANGED <<route, gross, output, report>>
  BY <1>2 DEF Answer
<1>4. Typed'
  BY <1>1, <1>3 DEF Typed
<1>5. a \in Answered /\ a.hop = i /\ a.reference = reference(route[i], s, k)
  <2>1. route[i] \in Hops /\ i \in Nat
    BY <1>1, <1>3, PriceImpactAssumption DEF Typed
  <2> QED BY <1>2, <2>1 DEF Answered
<1>6. /\ answers \in Seq(Answered) /\ Len(answers) \in Nat /\ DOMAIN answers = 1..Len(answers)
      /\ answers' \in Seq(Answered) /\ DOMAIN answers' = 1..Len(answers) + 1
      /\ \A n \in DOMAIN answers : answers'[n] = answers[n]
      /\ answers'[Len(answers) + 1] = a
  BY <1>1, <1>3, <1>5 DEF AnswersRight
<1>7. \A n \in DOMAIN answers' : n \in DOMAIN answers \/ n = Len(answers) + 1
  BY <1>6
<1>8. ASSUME NEW n \in DOMAIN answers'
      PROVE  /\ answers'[n].hop \in DOMAIN route
             /\ \E t, w \in BOOLEAN :
                  answers'[n].reference = reference(route[answers'[n].hop], t, w)
  BY <1>1, <1>3, <1>5, <1>6, <1>7 DEF AnswersRight
<1>9. ASSUME NEW m \in DOMAIN answers', NEW n \in DOMAIN answers',
             answers'[m].hop = answers'[n].hop
      PROVE  m = n
  BY <1>1, <1>3, <1>5, <1>6, <1>7, <1>9 DEF AnswersRight
<1>10. AnswersRight'
  BY <1>3, <1>6, <1>8, <1>9 DEF AnswersRight, Answered
<1>11. Reports'
  BY <1>1, <1>3, RightStands DEF Reports
<1>12. EstimateInvariant' <=> Standing'
  BY InvariantParts, PTL
<1> QED BY <1>3, <1>4, <1>8, <1>10, <1>11, <1>12 DEF Standing

LEMMA EstimateKeeps ==
  ASSUME EstimateInvariant, estimate
  PROVE  EstimateInvariant'
<1>1. Typed /\ AnswersRight /\ \A n \in DOMAIN answers : answers[n].hop \in DOMAIN route
  BY InvariantParts DEF Standing
<1>2. /\ Len(answers) = Len(route) /\ report' = Verdict(References)
      /\ UNCHANGED <<route, gross, output, answers>>
  BY EstimateIs
<1>3. \A r \in report' : Right(r)
  BY <1>1, <1>2, VerdictRight DEF Typed
<1>4. Reports'
  BY <1>2, <1>3, RightStands DEF Reports
<1>5. Typed'
  BY <1>1, <1>2 DEF Typed
<1>6. AnswersRight'
  BY <1>1, <1>2 DEF AnswersRight, Answered
<1>7. EstimateInvariant' <=> Standing'
  BY InvariantParts, PTL
<1> QED BY <1>1, <1>2, <1>4, <1>5, <1>6, <1>7 DEF Standing

LEMMA InvariantNext == EstimateInvariant /\ [Next]_vars => EstimateInvariant'
<1>1. SUFFICES ASSUME EstimateInvariant, [Next]_vars PROVE EstimateInvariant'
  OBVIOUS
<1>2. CASE UNCHANGED vars
  <2>1. UNCHANGED <<route, gross, output, answers, report>>
    BY <1>2 DEF vars
  <2>2. /\ Typed /\ AnswersRight /\ Reports
        /\ \A n \in DOMAIN answers : answers[n].hop \in DOMAIN route
    BY <1>1, InvariantParts DEF Standing
  <2>3. Typed' /\ AnswersRight'
    BY <2>1, <2>2 DEF Typed, AnswersRight, Answered
  <2>4. Reports'
    BY <2>1, <2>2, RightStands DEF Reports
  <2>5. EstimateInvariant' <=> Standing'
    BY InvariantParts, PTL
  <2> QED BY <2>1, <2>2, <2>3, <2>4, <2>5 DEF Standing
<1>3. ASSUME NEW h \in Hops, Extend(h) PROVE EstimateInvariant'
  BY <1>1, <1>3, ExtendKeeps
<1>4. ASSUME NEW i \in 1..MaxHops, NEW s \in BOOLEAN, NEW k \in BOOLEAN, Answer(i, s, k)
      PROVE  EstimateInvariant'
  BY <1>1, <1>4, AnswerKeeps
<1>5. ASSUME estimate PROVE EstimateInvariant'
  BY <1>1, <1>5, EstimateKeeps
<1> QED BY <1>1, <1>2, <1>3, <1>4, <1>5 DEF Next

-----------------------------------------------------------------------------
(* Each answer read is that of a hop of its own, and each report is right: *)
(* EstimateInvariant is an invariant.                                                   *)
THEOREM InvariantHolds == Spec => []EstimateInvariant
BY InvariantInit, InvariantNext, PTL DEF Spec

(* The estimate keeps its types: amounts fit a word, and the basis points  *)
(* of a report their 32 bits (price_impact.rs:335).                        *)
THEOREM TypeCorrect == Spec => []TypeOK
<1>1. EstimateInvariant => TypeOK
  BY DEF EstimateInvariant
<1> QED BY <1>1, InvariantHolds, PTL

(* What is reported is exact: a chain of multiplications that each reduce  *)
(* before they multiply gives the whole product in lowest terms, which is  *)
(* rounded once, at the end (price_impact.rs:26).                          *)
THEOREM ExactHolds == Spec => []Exact
<1>1. EstimateInvariant => Exact
  BY DEF EstimateInvariant, ReportRight
<1> QED BY <1>1, InvariantHolds, PTL

(* The total cost is never below the impact (price_impact.rs:28): what     *)
(* fees and taxes leave of the net amount is at most the gross amount at   *)
(* spot prices, as fractions, and the basis points keep that order.        *)
THEOREM CostsAtLeastImpactHolds == Spec => []CostsAtLeastImpact
<1>1. EstimateInvariant => CostsAtLeastImpact
  BY DEF EstimateInvariant, ReportRight
<1> QED BY <1>1, InvariantHolds, PTL

(* The arithmetic gives up only if it must: if every product in lowest     *)
(* terms fits and so do its comparisons, an estimate does not fail for its *)
(* arithmetic (price_impact.rs:307).                                       *)
THEOREM GivesUpOnlyIfItMustHolds == Spec => []GivesUpOnlyIfItMust
<1>1. EstimateInvariant => GivesUpOnlyIfItMust
  BY DEF EstimateInvariant, ReportRight
<1> QED BY <1>1, InvariantHolds, PTL

(* An impact is only reported when every cost of the route is known        *)
(* (price_impact.rs:136), however the answers were ordered.                *)
THEOREM KnownCostsHolds == Spec => []KnownCosts
<1>1. EstimateInvariant => KnownCosts
  BY DEF EstimateInvariant, ReportRight
<1> QED BY <1>1, InvariantHolds, PTL
=============================================================================
