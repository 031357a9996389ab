---------------------------- MODULE Values_proofs ----------------------------
(***************************************************************************)
(* Theorems about Values, for every base, width and scale, for texts of    *)
(* any length and for buffers of any size: what its definitions compute,   *)
(* that every value is in the range of its type, that text buffers are     *)
(* honest, and that a column or a parameter stays what it is on its way.   *)
(***************************************************************************)
EXTENDS Values, FiniteSetTheorems, WellFoundedInduction, TLAPS

-----------------------------------------------------------------------------
(* Induction, and functions defined by it *)

LEMMA LeastNumber ==
  ASSUME NEW T \in SUBSET Nat, T # {}
  PROVE  \E n \in T : \A m \in T : n <= m
<1>1. IsWellFoundedOn(OpToRel(<, Nat), Nat)
  BY NatLessThanWellFounded
<1>2. PICK n \in T : \A m \in T : <<m, n>> \notin OpToRel(<, Nat)
  <2> HIDE DEF OpToRel
  <2> QED
    BY <1>1, WFMin
<1>3. \A m \in T : ~(m < n)
  BY <1>2 DEF OpToRel
<1> QED
  BY <1>3

\* A set of numbers with 0, and with the successor of each of its numbers.
LEMMA Induction ==
  ASSUME NEW T, 0 \in T, \A n \in Nat : n \in T => n + 1 \in T
  PROVE  \A n \in Nat : n \in T
<1> SUFFICES ASSUME NEW k \in Nat, k \notin T PROVE FALSE
  OBVIOUS
<1> DEFINE Out == {n \in Nat : n \notin T}
<1>1. PICK n \in Out : \A m \in Out : n <= m
  BY LeastNumber
<1>2. n \in Nat /\ n # 0 /\ n - 1 \in Nat /\ n - 1 \notin Out
  BY <1>1
<1> QED
  BY <1>2

\* A function that is given by its first value and by the step to each other
\* value exists.
Follows(f, n, S, a, step) ==
  f \in [0 .. n -> S] /\ f[0] = a /\ \A k \in 1 .. n : f[k] = step[<<k, f[k - 1]>>]

LEMMA RecursiveFunction ==
  ASSUME NEW n \in Nat, NEW S, NEW a \in S, NEW step \in [(1 .. n) \X S -> S]
  PROVE  \E f : Follows(f, n, S, a, step)
<1> DEFINE Good(m, f) == f[0] = a /\ \A k \in 1 .. m : f[k] = step[<<k, f[k - 1]>>]
           T == {m \in Nat : m <= n => \E f \in [0 .. m -> S] : Good(m, f)}
<1>1. 0 \in T
  <2>1. [k \in 0 .. 0 |-> a] \in [0 .. 0 -> S] /\ Good(0, [k \in 0 .. 0 |-> a])
    OBVIOUS
  <2> QED
    BY <2>1
<1>2. ASSUME NEW m \in Nat, m \in T PROVE m + 1 \in T
  <2> SUFFICES ASSUME m + 1 <= n PROVE \E g \in [0 .. m + 1 -> S] : Good(m + 1, g)
    OBVIOUS
  <2>1. PICK f \in [0 .. m -> S] : Good(m, f)
    BY <1>2
  <2> DEFINE g == [k \in 0 .. m + 1 |-> IF k = m + 1 THEN step[<<m + 1, f[m]>>] ELSE f[k]]
  <2>2. f[m] \in S /\ step[<<m + 1, f[m]>>] \in S
    OBVIOUS
  <2>3. g \in [0 .. m + 1 -> S]
    BY <2>2
  <2>4. g[0] = a
    BY <2>1
  <2>5. ASSUME NEW k \in 1 .. m + 1 PROVE g[k] = step[<<k, g[k - 1]>>]
    <3>1. k - 1 \in 0 .. m + 1 /\ k - 1 # m + 1 /\ k \in 0 .. m + 1
      OBVIOUS
    <3>2. g[k - 1] = f[k - 1] /\ g[k] = IF k = m + 1 THEN step[<<m + 1, f[m]>>] ELSE f[k]
      BY <3>1
    <3> HIDE DEF g
    <3>3. CASE k = m + 1
      <4>1. k - 1 = m
        BY <3>3
      <4> QED
        BY <3>2, <3>3, <4>1
    <3>4. CASE k # m + 1
      <4>1. k \in 1 .. m
        BY <3>4
      <4> QED
        BY <2>1, <3>2, <3>4, <4>1
    <3> QED
      BY <3>3, <3>4
  <2> HIDE DEF g
  <2> QED
    BY <2>3, <2>4, <2>5
<1> HIDE DEF T
<1>3. n \in T
  BY <1>1, <1>2, Induction
<1> QED
  BY <1>3 DEF T, Follows

\* Two functions with the same first value and the same steps.
Together(n, f, g) == f[0] = g[0] /\ \A k \in 1 .. n : f[k - 1] = g[k - 1] => f[k] = g[k]

LEMMA SameValues ==
  ASSUME NEW n \in Nat, NEW f, NEW g, Together(n, f, g)
  PROVE  \A k \in 0 .. n : f[k] = g[k]
<1> DEFINE Same == {k \in Nat : k <= n => f[k] = g[k]}
<1>1. 0 \in Same
  BY DEF Together
<1>2. ASSUME NEW k \in Nat, k \in Same PROVE k + 1 \in Same
  <2> SUFFICES ASSUME k + 1 <= n PROVE f[k + 1] = g[k + 1]
    OBVIOUS
  <2>1. k + 1 \in 1 .. n /\ (k + 1) - 1 = k /\ f[k] = g[k]
    BY <1>2
  <2> QED
    BY <2>1 DEF Together
<1> HIDE DEF Same
<1>3. \A k \in Nat : k \in Same
  BY <1>1, <1>2, Induction
<1> QED
  BY <1>3 DEF Same

-----------------------------------------------------------------------------
(* Powers *)

\* The powers of b up to the n-th.
Powers(f, b, n) == f \in [0 .. n -> Nat] /\ f[0] = 1 /\ \A k \in 1 .. n : f[k] = b * f[k - 1]

LEMMA ProductIsNat == ASSUME NEW x \in Nat, NEW y \in Nat PROVE x * y \in Nat
OBVIOUS

LEMMA PowersExist ==
  ASSUME NEW b \in Nat, NEW n \in Nat
  PROVE  \E f : Powers(f, b, n) /\ Power(b, n) = f[n]
<1> DEFINE step == [x \in (1 .. n) \X Nat |-> b * x[2]]
           Whole(g) == g = [i \in 0 .. n |-> IF i = 0 THEN 1 ELSE b * g[i - 1]]
<1>1. step \in [(1 .. n) \X Nat -> Nat]
  BY ProductIsNat
<1>2. ASSUME NEW k \in 1 .. n, NEW x \in Nat PROVE step[<<k, x>>] = b * x
  OBVIOUS
<1> HIDE DEF step
<1>3. PICK f : Follows(f, n, Nat, 1, step)
  BY <1>1, RecursiveFunction
<1>4. f \in [0 .. n -> Nat] /\ f[0] = 1 /\ \A k \in 1 .. n : f[k] = step[<<k, f[k - 1]>>]
  BY <1>3 DEF Follows
<1>5. ASSUME NEW k \in 1 .. n PROVE f[k] = b * f[k - 1]
  <2>1. f[k - 1] \in Nat
    BY <1>4
  <2> QED
    BY <1>2, <1>4, <2>1
<1>6. Whole(f)
  <2>1. ASSUME NEW k \in 0 .. n PROVE f[k] = IF k = 0 THEN 1 ELSE b * f[k - 1]
    BY <1>4, <1>5
  <2> QED
    BY <1>4, <2>1
<1>7. PICK g : Power(b, n) = g[n] /\ Whole(g)
  <2>1. \E g : Power(b, n) = g[n] /\ Whole(g)
    BY <1>6, Zenon DEF Power
  <2> QED
    BY <2>1
<1>8. ASSUME NEW k \in 0 .. n PROVE g[k] = IF k = 0 THEN 1 ELSE b * g[k - 1]
  BY <1>7
<1>9. Together(n, f, g)
  <2>1. g[0] = 1
    BY <1>8
  <2>2. ASSUME NEW k \in 1 .. n, f[k - 1] = g[k - 1] PROVE f[k] = g[k]
    BY <1>5, <1>8, <2>2
  <2> QED
    BY <1>4, <2>1, <2>2 DEF Together
<1>10. f[n] = g[n]
  BY <1>9, SameValues
<1> QED
  BY <1>4, <1>5, <1>7, <1>10 DEF Powers

LEMMA PowerNext ==
  ASSUME NEW b \in Nat, NEW n \in Nat
  PROVE  /\ Power(b, n) \in Nat /\ Power(b, 0) = 1
         /\ Power(b, n + 1) = b * Power(b, n)
<1>1. PICK f : Powers(f, b, n) /\ Power(b, n) = f[n]
  BY PowersExist
<1>2. PICK g : Powers(g, b, n + 1) /\ Power(b, n + 1) = g[n + 1]
  BY PowersExist
<1>3. PICK h : Powers(h, b, 0) /\ Power(b, 0) = h[0]
  BY PowersExist
<1>4. Together(n, f, g)
  BY <1>1, <1>2 DEF Together, Powers
<1>5. f[n] = g[n]
  BY <1>4, SameValues
<1>6. f[n] \in Nat /\ g[n + 1] = b * g[(n + 1) - 1] /\ (n + 1) - 1 = n
  BY <1>1, <1>2 DEF Powers
<1>7. h[0] = 1
  BY <1>3 DEF Powers
<1> QED
  BY <1>1, <1>2, <1>3, <1>5, <1>6, <1>7

\* A power of a base of at least 2 is more than its exponent.
LEMMA PowerLarge ==
  ASSUME NEW b \in Nat, b > 1, NEW n \in Nat
  PROVE  Power(b, n) \in Nat /\ Power(b, n) > n
<1> DEFINE T == {k \in Nat : Power(b, k) > k}
<1>1. 0 \in T
  BY PowerNext
<1>2. ASSUME NEW k \in Nat, k \in T PROVE k + 1 \in T
  <2>1. Power(b, k) \in Nat /\ Power(b, k + 1) = b * Power(b, k) /\ Power(b, k) > k
    BY <1>2, PowerNext
  <2>2. ASSUME NEW x \in Nat, x > k PROVE b * x > k + 1
    <3>1. b * x >= 2 * x
      BY <2>2
    <3> QED
      BY <2>2, <3>1
  <2> QED
    BY <2>1, <2>2
<1> HIDE DEF T
<1>3. n \in T
  BY <1>1, <1>2, Induction
<1> QED
  BY <1>3, PowerNext DEF T

LEMMA PowerSum ==
  ASSUME NEW b \in Nat, NEW m \in Nat, NEW n \in Nat
  PROVE  Power(b, m + n) = Power(b, m) * Power(b, n)
<1> DEFINE T == {k \in Nat : Power(b, m + k) = Power(b, m) * Power(b, k)}
<1>1. 0 \in T
  <2>1. Power(b, m) \in Nat /\ Power(b, 0) = 1
    BY PowerNext
  <2>2. m + 0 = m
    OBVIOUS
  <2> QED
    BY <2>1, <2>2
<1>2. ASSUME NEW k \in Nat, k \in T PROVE k + 1 \in T
  <2>1. /\ Power(b, m) \in Nat /\ Power(b, k) \in Nat
        /\ Power(b, k + 1) = b * Power(b, k)
    BY PowerNext
  <2>6. m + (k + 1) = (m + k) + 1 /\ m + k \in Nat
    OBVIOUS
  <2>2. Power(b, (m + k) + 1) = b * Power(b, m + k)
    BY <2>6, PowerNext
  <2>3. Power(b, m + k) = Power(b, m) * Power(b, k)
    BY <1>2
  <2>4. ASSUME NEW x \in Nat, NEW y \in Nat PROVE b * (x * y) = x * (b * y)
    OBVIOUS
  <2>5. Power(b, m + (k + 1)) = b * (Power(b, m) * Power(b, k))
    BY <2>2, <2>3, <2>6
  <2> QED
    BY <2>1, <2>4, <2>5
<1> HIDE DEF T
<1>3. n \in T
  BY <1>1, <1>2, Induction
<1> QED
  BY <1>3 DEF T
-----------------------------------------------------------------------------
(* Digits *)

\* The quotient and the remainder of a division.
Divides(x, b, q, r) == x = b * q + r /\ q = x \div b /\ r = x % b

LEMMA Division ==
  ASSUME NEW x \in Int, NEW b \in Nat, b > 0
  PROVE  /\ \E q \in Int, r \in 0 .. b - 1 : Divides(x, b, q, r)
         /\ x >= 0 => x \div b \in Nat
         /\ x % b \in 0 .. b - 1
<1> DEFINE q == x \div b
           r == x % b
<1>1. q \in Int /\ r \in 0 .. b - 1
  OBVIOUS
<1>2. r = x - b * q
  BY SMTT(30)
<1>3. q = x \div b /\ r = x % b
  OBVIOUS
<1> HIDE DEF q, r
<1>4. x = b * q + r
  <2>1. b * q \in Int
    BY <1>1
  <2> QED
    BY <1>1, <1>2, <2>1
<1>5. ASSUME x >= 0, q < 0 PROVE FALSE
  <2>1. b * (q + 1) <= 0 /\ b * (q + 1) = b * q + b
    BY <1>1, <1>5
  <2> QED
    BY <1>1, <1>4, <1>5, <2>1
<1>6. Divides(x, b, q, r)
  BY <1>3, <1>4 DEF Divides
<1>7. x >= 0 => q \in Nat
  BY <1>1, <1>5
<1> QED
  BY <1>1, <1>3, <1>6, <1>7

\* What a quotient is.
LEMMA Quotient ==
  ASSUME NEW x \in Nat, NEW b \in Nat, b > 0, NEW q \in Nat,
         b * q <= x, x < b * q + b
  PROVE  x \div b = q
<1>1. PICK p \in Int, r \in 0 .. b - 1 : Divides(x, b, p, r)
  BY Division
<1>5. p \in Nat /\ b * p <= x /\ x < b * p + b
  <2>1. p \in Nat
    BY <1>1, Division DEF Divides
  <2>2. b * p \in Nat /\ x = b * p + r
    BY <1>1, <2>1 DEF Divides
  <2> QED
    BY <2>1, <2>2
<1>2. ASSUME p < q PROVE FALSE
  <2>1. p + 1 <= q
    BY <1>5, <1>2
  <2>2. b * (p + 1) <= b * q
    BY <1>5, <2>1
  <2>3. b * (p + 1) = b * p + b
    BY <1>5
  <2> QED
    BY <1>5, <2>2, <2>3
<1>3. ASSUME q < p PROVE FALSE
  <2>1. q + 1 <= p
    BY <1>5, <1>3
  <2>2. b * (q + 1) <= b * p
    BY <1>5, <2>1
  <2>3. b * (q + 1) = b * q + b
    OBVIOUS
  <2> QED
    BY <1>5, <2>2, <2>3
<1>4. p = q
  BY <1>5, <1>2, <1>3
<1> QED
  BY <1>1, <1>4 DEF Divides

LEMMA WholeParts ==
  ASSUME NEW x \in Nat, NEW b \in Nat, b > 0
  PROVE  x \div b \in Nat /\ x % b \in 0 .. b - 1
BY Division

LEMMA Bounds ==
  ASSUME NEW x \in Nat, NEW b \in Nat, b > 0
  PROVE  b * (x \div b) <= x /\ x < b * (x \div b) + b
<1>1. PICK p \in Int, r \in 0 .. b - 1 : Divides(x, b, p, r)
  BY Division
<1>2. b * p \in Int /\ x = b * p + r
  BY <1>1 DEF Divides
<1>3. b * p <= x /\ x < b * p + b
  BY <1>2
<1> QED
  BY <1>1, <1>3 DEF Divides

\* Dividing by b and by c is dividing by their product.
LEMMA QuotientTwice ==
  ASSUME NEW x \in Nat, NEW b \in Nat, b > 0, NEW c \in Nat, c > 0
  PROVE  (x \div b) \div c = x \div (b * c)
<1> DEFINE q == x \div b
           r == q \div c
<1>7. q \in Nat /\ r \in Nat
  <2>1. q \in Nat
    BY Division
  <2> HIDE DEF q
  <2> QED
    BY <2>1, Division
<1>1. b * q <= x /\ x < b * q + b
  BY Bounds
<1>2. c * r <= q /\ q < c * r + c
  <2> HIDE DEF q
  <2> QED
    BY <1>7, Bounds
<1> HIDE DEF q, r
<1>3. (b * c) * r <= x
  <2>1. b * (c * r) <= b * q
    <3>1. c * r \in Nat
      BY <1>2, <1>7
    <3> QED
      BY <1>1, <1>2, <1>7, <3>1
  <2>2. b * (c * r) = (b * c) * r
    BY <1>2, <1>7
  <2> QED
    BY <1>1, <1>2, <1>7, <2>1, <2>2
<1>4. x < (b * c) * r + b * c
  <2>1. q + 1 <= c * r + c /\ c * r \in Nat
    BY <1>1, <1>2, <1>7
  <2>2. b * (q + 1) <= b * (c * r + c)
    BY <1>1, <1>7, <2>1
  <2>3. b * (q + 1) = b * q + b
    BY <1>1, <1>7
  <2>4. b * (c * r + c) = (b * c) * r + b * c
    BY <1>2, <1>7
  <2> QED
    BY <1>1, <1>2, <1>7, <2>1, <2>2, <2>3, <2>4
<1>5. b * c \in Nat /\ b * c > 0
  OBVIOUS
<1>6. x \div (b * c) = r
  BY <1>3, <1>4, <1>5, <1>7, Quotient
<1> QED
  BY <1>6 DEF q, r

\* The value of the first digits, one more at a time.
Carries(f, digits, b) ==
  /\ f \in [0 .. Len(digits) -> Nat]
  /\ f[0] = 0 /\ \A k \in 1 .. Len(digits) : f[k] = b * f[k - 1] + digits[k]

LEMMA CarriesExist ==
  ASSUME NEW b \in Nat, NEW digits \in Seq(Nat)
  PROVE  \E f : Carries(f, digits, b)
<1> DEFINE n == Len(digits)
           step == [x \in (1 .. n) \X Nat |-> b * x[2] + digits[x[1]]]
<1>1. n \in Nat /\ \A k \in 1 .. n : digits[k] \in Nat
  OBVIOUS
<1>2. ASSUME NEW k \in 1 .. n, NEW x \in Nat PROVE b * x + digits[k] \in Nat
  <2>1. b * x \in Nat /\ digits[k] \in Nat
    BY <1>1, ProductIsNat
  <2> QED
    BY <2>1
<1> HIDE DEF n
<1>3. step \in [(1 .. n) \X Nat -> Nat]
  BY <1>2
<1>4. ASSUME NEW k \in 1 .. n, NEW x \in Nat PROVE step[<<k, x>>] = b * x + digits[k]
  OBVIOUS
<1> HIDE DEF step
<1>5. PICK f : Follows(f, n, Nat, 0, step)
  BY <1>1, <1>3, RecursiveFunction
<1>6. f \in [0 .. n -> Nat] /\ f[0] = 0 /\ \A k \in 1 .. n : f[k] = step[<<k, f[k - 1]>>]
  BY <1>5 DEF Follows
<1>7. ASSUME NEW k \in 1 .. n PROVE f[k] = b * f[k - 1] + digits[k]
  <2>1. f[k - 1] \in Nat
    BY <1>1, <1>6
  <2> QED
    BY <1>4, <1>6, <2>1
<1> QED
  BY <1>6, <1>7 DEF Carries, n

\* Fewer digits make less than the power of their number.
LEMMA CarriesBelow ==
  ASSUME NEW b \in Nat, b > 0, NEW digits \in Seq(0 .. b - 1), NEW f, Carries(f, digits, b),
         NEW k \in 0 .. Len(digits)
  PROVE  f[k] \in Nat /\ f[k] < Power(b, k)
<1> DEFINE n == Len(digits)
           T == {i \in Nat : i <= n => f[i] < Power(b, i)}
<1>1. n \in Nat /\ \A i \in 1 .. n : digits[i] \in 0 .. b - 1
  OBVIOUS
<1>2. f \in [0 .. n -> Nat] /\ f[0] = 0 /\ \A i \in 1 .. n : f[i] = b * f[i - 1] + digits[i]
  BY DEF Carries
<1> HIDE DEF n
<1>3. 0 \in T
  BY <1>2, PowerNext
<1>4. ASSUME NEW i \in Nat, i \in T PROVE i + 1 \in T
  <2> SUFFICES ASSUME i + 1 <= n PROVE f[i + 1] < Power(b, i + 1)
    OBVIOUS
  <2>1. i + 1 \in 1 .. n /\ (i + 1) - 1 = i /\ i \in 0 .. n
    BY <1>1
  <2>2. f[i + 1] = b * f[i] + digits[i + 1] /\ f[i] \in Nat /\ digits[i + 1] \in 0 .. b - 1
    BY <1>1, <1>2, <2>1
  <2>3. Power(b, i) \in Nat /\ Power(b, i + 1) = b * Power(b, i)
    BY PowerNext
  <2>4. f[i] < Power(b, i)
    BY <1>4, <2>1
  <2>5. ASSUME NEW x \in Nat, NEW y \in Nat, NEW d \in 0 .. b - 1, x < y PROVE b * x + d < b * y
    <3>1. b * (x + 1) <= b * y
      BY <2>5
    <3>2. b * (x + 1) = b * x + b
      OBVIOUS
    <3> QED
      BY <3>1, <3>2
  <2> QED
    BY <2>2, <2>3, <2>4, <2>5
<1> HIDE DEF T
<1>5. \A i \in Nat : i \in T
  BY <1>3, <1>4, Induction
<1> QED
  BY <1>1, <1>2, <1>5 DEF T, n
-----------------------------------------------------------------------------
(* What digits amount to *)

\* One more digit, where the sum fits.
Taken(v, d, b, max) ==
  IF v >= 0 /\ v <= max \div b /\ v * b <= max - d THEN v * b + d ELSE -1
Takes(f, digits, b, max) ==
  f[0] = 0 /\ \A k \in 1 .. Len(digits) : f[k] = Taken(f[k - 1], digits[k], b, max)

\* A function that takes the digits of another's values, as far as they fit.
UpTo(v, max) == IF v <= max THEN v ELSE -1

LEMMA TakenFits ==
  ASSUME NEW v \in Nat, NEW b \in Nat, b > 0, NEW d \in Nat, NEW max \in Nat
  PROVE  Taken(UpTo(v, max), d, b, max) = UpTo(b * v + d, max)
<1> DEFINE q == max \div b
<1>1. q \in Nat /\ b * q <= max /\ max < b * q + b
  <2>1. q \in Nat
    BY Division
  <2> QED
    BY <2>1, Bounds
<1>2. v * b = b * v /\ b * v \in Nat /\ b * v >= v
  OBVIOUS
<1>3. CASE v > max
  <2>1. b * v + d > max
    BY <1>2, <1>3
  <2> QED
    BY <1>2, <1>3, <2>1 DEF Taken, UpTo
<1>4. CASE v <= max
  <2> HIDE DEF q
  <2>1. ASSUME b * v + d <= max PROVE v <= q
    <3>1. SUFFICES ASSUME v > q PROVE FALSE
      BY <1>1
    <3>2. b * v >= b * (q + 1) /\ b * (q + 1) = b * q + b
      BY <1>1, <3>1
    <3> QED
      BY <1>1, <1>2, <2>1, <3>2
  <2>2. Taken(v, d, b, max) = IF v <= q /\ v * b <= max - d THEN v * b + d ELSE -1
    BY DEF Taken, q
  <2>3. CASE b * v + d <= max
    BY <1>2, <1>4, <2>1, <2>2, <2>3 DEF UpTo
  <2>4. CASE b * v + d > max
    BY <1>2, <1>4, <2>2, <2>4 DEF UpTo
  <2> QED
    BY <1>2, <2>3, <2>4
<1> QED
  BY <1>3, <1>4

\* Digits are accumulated to their value, unless it does not fit.
LEMMA AccumulateCarries ==
  ASSUME NEW b \in Nat, b > 0, NEW digits \in Seq(Nat), NEW max \in Nat,
         NEW f, Carries(f, digits, b)
  PROVE  Accumulate(digits, b, max) = UpTo(f[Len(digits)], max)
<1> DEFINE n == Len(digits)
           Whole(g) == g = [i \in 0 .. n |->
                              IF i = 0 THEN 0
                              ELSE LET v == g[i - 1]
                                       fits == v >= 0 /\ v <= max \div b /\ v * b <= max - digits[i]
                                   IN  IF fits THEN v * b + digits[i] ELSE -1]
           h == [k \in 0 .. n |-> UpTo(f[k], max)]
<1>1. n \in Nat /\ \A k \in 1 .. n : digits[k] \in Nat
  OBVIOUS
<1>2. f \in [0 .. n -> Nat] /\ f[0] = 0 /\ \A k \in 1 .. n : f[k] = b * f[k - 1] + digits[k]
  BY DEF Carries
<1>3. \A k \in 0 .. n : h[k] = UpTo(f[k], max)
  OBVIOUS
<1>4. ASSUME NEW k \in 1 .. n PROVE h[k] = Taken(h[k - 1], digits[k], b, max)
  <2>1. k - 1 \in 0 .. n /\ k \in 0 .. n
    BY <1>1
  <2>2. f[k - 1] \in Nat /\ digits[k] \in Nat /\ f[k] = b * f[k - 1] + digits[k]
    BY <1>1, <1>2, <2>1
  <2>3. h[k - 1] = UpTo(f[k - 1], max) /\ h[k] = UpTo(f[k], max)
    BY <1>3, <2>1
  <2> HIDE DEF h, n
  <2>4. Taken(UpTo(f[k - 1], max), digits[k], b, max) = UpTo(b * f[k - 1] + digits[k], max)
    BY <2>2, TakenFits
  <2> QED
    BY <2>2, <2>3, <2>4
<1>5. h[0] = 0
  BY <1>1, <1>2, <1>3 DEF UpTo
<1>6. Whole(h)
  <2>1. ASSUME NEW k \in 0 .. n
        PROVE  UpTo(f[k], max) =
                 IF k = 0 THEN 0
                 ELSE IF h[k - 1] >= 0 /\ h[k - 1] <= max \div b /\ h[k - 1] * b <= max - digits[k]
                      THEN h[k - 1] * b + digits[k] ELSE -1
    <3>1. CASE k = 0
      BY <1>2, <3>1 DEF UpTo
    <3>2. CASE k # 0
      <4>1. k \in 1 .. n /\ h[k] = UpTo(f[k], max)
        BY <1>1, <1>3, <3>2
      <4>2. h[k] = Taken(h[k - 1], digits[k], b, max)
        BY <1>4, <4>1
      <4> HIDE DEF h, n
      <4> QED
        BY <3>2, <4>1, <4>2 DEF Taken
    <3> QED
      BY <3>1, <3>2
  <2>2. h = [k \in 0 .. n |-> UpTo(f[k], max)]
    OBVIOUS
  <2> HIDE DEF h, n
  <2> QED
    BY <2>1, <2>2
<1> HIDE DEF h
<1>7. PICK g : Accumulate(digits, b, max) = g[n] /\ Whole(g)
  <2>1. \E g : Accumulate(digits, b, max) = g[Len(digits)] /\ Whole(g)
    BY <1>6, Zenon DEF Accumulate
  <2> QED
    BY <2>1
<1>8. ASSUME NEW k \in 1 .. n PROVE g[k] = Taken(g[k - 1], digits[k], b, max)
  <2>1. k \in 0 .. n /\ k # 0
    BY <1>1
  <2> HIDE DEF n
  <2> QED
    BY <1>7, <2>1 DEF Taken
<1>9. Together(n, h, g)
  <2>1. g[0] = 0
    BY <1>1, <1>7
  <2> HIDE DEF n
  <2> QED
    BY <1>4, <1>5, <1>8, <2>1 DEF Together
<1>10. h[n] = g[n] /\ n \in 0 .. n
  <2> HIDE DEF n
  <2>1. \A k \in 0 .. n : h[k] = g[k]
    BY <1>1, <1>9, SameValues
  <2> QED
    BY <1>1, <2>1
<1> QED
  BY <1>3, <1>7, <1>10

\* The value of some digits.
ValueOf(digits, b) == Accumulate(digits, b, Power(b, Len(digits)))

LEMMA AccumulateIs ==
  ASSUME NEW b \in Nat, b > 0, NEW digits \in Seq(0 .. b - 1)
  PROVE  /\ ValueOf(digits, b) \in Nat /\ ValueOf(digits, b) < Power(b, Len(digits))
         /\ \A max \in Nat : Accumulate(digits, b, max) = UpTo(ValueOf(digits, b), max)
<1>1. digits \in Seq(Nat) /\ Len(digits) \in Nat
  OBVIOUS
<1>2. PICK f : Carries(f, digits, b)
  BY <1>1, CarriesExist
<1>3. Len(digits) \in 0 .. Len(digits)
  BY <1>1
<1>4. f[Len(digits)] \in Nat /\ f[Len(digits)] < Power(b, Len(digits))
  BY <1>2, <1>3, CarriesBelow
<1>5. \A max \in Nat : Accumulate(digits, b, max) = UpTo(f[Len(digits)], max)
  BY <1>1, <1>2, AccumulateCarries
<1>6. Power(b, Len(digits)) \in Nat
  BY <1>1, PowerNext
<1>7. ValueOf(digits, b) = f[Len(digits)]
  BY <1>4, <1>5, <1>6 DEF ValueOf, UpTo
<1> QED
  BY <1>4, <1>5, <1>7

LEMMA PowerPositive ==
  ASSUME NEW b \in Nat, b > 0, NEW n \in Nat
  PROVE  Power(b, n) \in Nat /\ Power(b, n) > 0
<1> DEFINE T == {k \in Nat : Power(b, k) > 0}
<1>1. 0 \in T
  BY PowerNext
<1>2. ASSUME NEW k \in Nat, k \in T PROVE k + 1 \in T
  <2>1. Power(b, k) \in Nat /\ Power(b, k + 1) = b * Power(b, k) /\ Power(b, k) > 0
    BY <1>2, PowerNext
  <2>2. ASSUME NEW x \in Nat, x > 0 PROVE b * x > 0
    BY <2>2
  <2> QED
    BY <2>1, <2>2
<1> HIDE DEF T
<1>3. n \in T
  BY <1>1, <1>2, Induction
<1> QED
  BY <1>3, PowerNext DEF T

LEMMA PowerGrows ==
  ASSUME NEW b \in Nat, b > 0, NEW m \in Nat, NEW n \in Nat, m <= n
  PROVE  /\ Power(b, m) <= Power(b, n)
         /\ Power(b, n) = Power(b, m) * Power(b, n - m)
<1>1. n - m \in Nat /\ m + (n - m) = n
  OBVIOUS
<1>2. Power(b, n) = Power(b, m) * Power(b, n - m)
  BY <1>1, PowerSum
<1>3. Power(b, m) \in Nat /\ Power(b, n - m) \in Nat /\ Power(b, n - m) > 0
  BY <1>1, PowerPositive
<1>4. ASSUME NEW x \in Nat, NEW y \in Nat, y > 0 PROVE x <= x * y
  BY <1>4
<1> QED
  BY <1>2, <1>3, <1>4

LEMMA DigitsAre ==
  ASSUME NEW v \in Nat, NEW n \in Nat, NEW b \in Nat, b > 0
  PROVE  /\ DigitsOf(v, n, b) \in Seq(0 .. b - 1)
         /\ Len(DigitsOf(v, n, b)) = n
         /\ \A i \in 1 .. n : DigitsOf(v, n, b)[i] = (v \div Power(b, n - i)) % b
         /\ DigitsOf(v, n, b) \in [1 .. n -> 0 .. b - 1]
<1>1. ASSUME NEW i \in 1 .. n PROVE (v \div Power(b, n - i)) % b \in 0 .. b - 1
  <2>1. n - i \in Nat
    OBVIOUS
  <2> DEFINE p == Power(b, n - i)
             q == v \div p
  <2>2. p \in Nat /\ p > 0
    BY <2>1, PowerPositive
  <2> HIDE DEF p
  <2>3. q \in Nat
    BY <2>2, WholeParts
  <2> HIDE DEF q
  <2>4. q % b \in 0 .. b - 1
    BY <2>3, WholeParts
  <2> QED
    BY <2>4 DEF q, p
<1> QED
  BY <1>1 DEF DigitsOf

\* The digits of a number that has no more of them amount to it.
LEMMA DigitsValue ==
  ASSUME NEW v \in Nat, NEW n \in Nat, NEW b \in Nat, b > 0, v < Power(b, n)
  PROVE  ValueOf(DigitsOf(v, n, b), b) = v
<1> DEFINE ds == DigitsOf(v, n, b)
           g == [k \in 0 .. n |-> v \div Power(b, n - k)]
<1>1. ds \in Seq(0 .. b - 1) /\ ds \in Seq(Nat) /\ Len(ds) = n
  <2>1. ds \in Seq(0 .. b - 1) /\ Len(ds) = n
    BY DigitsAre
  <2> HIDE DEF ds
  <2> QED
    BY <2>1
<1>2. \A k \in 0 .. n : g[k] = v \div Power(b, n - k)
  OBVIOUS
<1>3. PICK f : Carries(f, ds, b)
  BY <1>1, CarriesExist
<1>4. /\ f \in [0 .. n -> Nat] /\ f[0] = 0
      /\ \A k \in 1 .. n : f[k] = b * f[k - 1] + ds[k]
  BY <1>1, <1>3 DEF Carries
<1>5. ASSUME NEW k \in 1 .. n PROVE g[k] = b * g[k - 1] + ds[k]
  <2> DEFINE p == Power(b, n - k)
             q == v \div p
  <2>1. n - k \in Nat /\ n - (k - 1) = (n - k) + 1 /\ k \in 0 .. n /\ k - 1 \in 0 .. n
    OBVIOUS
  <2>2. p \in Nat /\ p > 0 /\ Power(b, n - (k - 1)) = b * p
    BY <2>1, PowerPositive, PowerNext
  <2>3. g[k] = q /\ g[k - 1] = v \div (b * p) /\ ds[k] = q % b
    BY <1>2, <2>1, <2>2, DigitsAre
  <2> HIDE DEF g, ds, p
  <2>4. q \in Nat /\ v \div (p * b) = q \div b
    <3>1. v \div p \in Nat
      BY <2>2, WholeParts
    <3>2. (v \div p) \div b = v \div (p * b)
      BY <2>2, QuotientTwice
    <3> QED
      BY <3>1, <3>2
  <2>5. p * b = b * p
    BY <2>2
  <2> HIDE DEF q
  <2>6. PICK x \in Int, r \in 0 .. b - 1 : Divides(q, b, x, r)
    <3>1. q \in Int
      BY <2>4
    <3> QED
      BY <3>1, Division
  <2> QED
    BY <2>3, <2>4, <2>5, <2>6 DEF Divides
<1>6. g[0] = 0 /\ g[n] = v
  <2>1. Power(b, n) \in Nat /\ Power(b, n) > 0 /\ Power(b, 0) = 1
    BY PowerPositive, PowerNext
  <2>2. v \div Power(b, n) = 0
    <3>1. Power(b, n) * 0 <= v /\ v < Power(b, n) * 0 + Power(b, n)
      BY <2>1
    <3> QED
      BY <2>1, <3>1, Quotient
  <2>3. n - n = 0 /\ n - 0 = n /\ 0 \in 0 .. n /\ n \in 0 .. n /\ v \div 1 = v
    OBVIOUS
  <2>4. g[0] = v \div Power(b, n - 0) /\ g[n] = v \div Power(b, n - n)
    BY <1>2, <2>3
  <2> HIDE DEF g
  <2> QED
    BY <2>1, <2>2, <2>3, <2>4
<1> HIDE DEF g, ds
<1>7. Together(n, f, g)
  BY <1>4, <1>5, <1>6 DEF Together
<1>8. f[n] = v
  <2>1. \A k \in 0 .. n : f[k] = g[k]
    BY <1>7, SameValues
  <2> QED
    BY <1>6, <2>1
<1>9. Accumulate(ds, b, Power(b, n)) = UpTo(v, Power(b, n))
  <2>1. Power(b, n) \in Nat
    BY PowerNext
  <2> QED
    BY <1>1, <1>3, <1>8, <2>1, AccumulateCarries
<1>10. Power(b, n) \in Nat
  BY PowerNext
<1>11. UpTo(v, Power(b, n)) = v
  BY <1>10 DEF UpTo
<1> QED
  BY <1>1, <1>9, <1>11 DEF ValueOf, ds

\* How many digits a number has.
LEMMA CountIs ==
  ASSUME NEW v \in Nat, NEW b \in Nat, b > 1
  PROVE  /\ Count(v, b) \in Nat /\ v < Power(b, Count(v, b))
         /\ Count(v, b) = 0 \/ Power(b, Count(v, b) - 1) <= v
         /\ \A n \in Nat : v < Power(b, n) => Count(v, b) <= n
<1> DEFINE T == {n \in Nat : Power(b, n) > v}
           Fits(n) == Power(b, n) > v /\ (n = 0 \/ Power(b, n - 1) <= v)
<1>1. v \in T
  BY PowerLarge
<1>2. PICK m \in T : \A n \in T : m <= n
  BY <1>1, LeastNumber
<1>3. m \in 0 .. v /\ Fits(m)
  <2>1. m \in Nat /\ m <= v /\ Power(b, m) > v
    BY <1>1, <1>2
  <2>2. ASSUME m # 0 PROVE Power(b, m - 1) <= v
    <3>1. m - 1 \in Nat /\ m - 1 \notin T
      BY <1>2, <2>1, <2>2
    <3>2. Power(b, m - 1) \in Nat
      BY <3>1, PowerNext
    <3> QED
      BY <3>1, <3>2
  <2> QED
    BY <2>1, <2>2
<1>4. Count(v, b) \in 0 .. v /\ Fits(Count(v, b))
  BY <1>3, Zenon DEF Count
<1> DEFINE c == Count(v, b)
<1>5. c \in Nat /\ v < Power(b, c) /\ (c = 0 \/ Power(b, c - 1) <= v)
  <2>1. Power(b, c) \in Nat
    BY <1>4, PowerNext
  <2> HIDE DEF c
  <2> QED
    BY <1>4, <2>1 DEF c
<1> HIDE DEF c
<1>6. ASSUME NEW n \in Nat, v < Power(b, n) PROVE c <= n
  <2> SUFFICES ASSUME n < c PROVE FALSE
    BY <1>5
  <2>1. c - 1 \in Nat /\ n <= c - 1 /\ c # 0
    BY <1>5
  <2>2. Power(b, n) <= Power(b, c - 1)
    BY <2>1, PowerGrows
  <2>3. Power(b, n) \in Nat /\ Power(b, c - 1) \in Nat
    BY <2>1, PowerNext
  <2> QED
    BY <1>5, <1>6, <2>1, <2>2, <2>3
<1> QED
  BY <1>5, <1>6 DEF c

LEMMA Reversed ==
  ASSUME NEW T, NEW s \in Seq(T)
  PROVE  Reverse(s) \in Seq(T) /\ Len(Reverse(s)) = Len(s) /\ Reverse(Reverse(s)) = s
<1> DEFINE n == Len(s)
           r == Reverse(s)
<1>1. n \in Nat /\ \A i \in 1 .. n : (n - i) + 1 \in 1 .. n /\ s[i] \in T
  OBVIOUS
<1>2. r = [i \in 1 .. n |-> s[(n - i) + 1]]
  BY DEF Reverse
<1> HIDE DEF n, r
<1>3. r \in [1 .. n -> T]
  BY <1>1, <1>2
<1>4. r \in Seq(T) /\ Len(r) = n
  BY <1>1, <1>3
<1>5. Reverse(r) = [i \in 1 .. n |-> r[(n - i) + 1]]
  BY <1>4 DEF Reverse
<1>6. ASSUME NEW i \in 1 .. n PROVE r[(n - i) + 1] = s[i]
  <2>1. (n - i) + 1 \in 1 .. n /\ (n - ((n - i) + 1)) + 1 = i
    BY <1>1
  <2> QED
    BY <1>2, <2>1
<1>7. s = [i \in 1 .. n |-> s[i]]
  BY DEF n
<1>8. Reverse(r) = s
  BY <1>5, <1>6, <1>7
<1> QED
  BY <1>4, <1>8 DEF n, r
-----------------------------------------------------------------------------
(* The kinds of texts and of values *)

LEMMA TextKinds ==
  ASSUME NEW t \in Texts
  PROVE  /\ Is(t, "units") => t.units \in Nat
         /\ Is(t, "digits") => t \in DigitTexts
         /\ Is(t, "date") => t \in MomentTexts
         /\ Is(t, "uuid") => t.uuid \in STRING
BY DEF Texts, DigitTexts, MomentTexts, Is

\* What the conversions start from.
Held ==
  [text : Texts] \cup [int : Int] \cup [float : Int] \cup [decimal : Decimals]
  \cup [numeric : Numerics] \cup [guid : STRING] \cup [day : Int] \cup [second : Int]
  \cup [timestamp : Moments]

LEMMA HeldKinds ==
  ASSUME NEW v \in Held
  PROVE  /\ Is(v, "text") => v \in [text : Texts]
         /\ Is(v, "int") => v \in [int : Int]
         /\ Is(v, "float") => v \in [float : Int]
         /\ Is(v, "decimal") => v \in [decimal : Decimals]
         /\ Is(v, "numeric") => v \in [numeric : Numerics]
         /\ Is(v, "guid") => v \in [guid : STRING]
         /\ Is(v, "day") => v \in [day : Int]
         /\ Is(v, "second") => v \in [second : Int]
         /\ Is(v, "timestamp") => v \in [timestamp : Moments]
         /\ ~Is(v, "null")
         /\ \E k \in {"text", "int", "float", "decimal", "numeric", "guid", "day", "second",
                      "timestamp"} : DOMAIN v = {k}
BY DEF Held, Is
-----------------------------------------------------------------------------
(* The texts of numbers *)

LEMMA Bases ==
  /\ Base \in Nat /\ Base > 1 /\ Base > 0 /\ ByteBase \in Nat /\ ByteBase > 1 /\ ByteBase > 0
  /\ ValBytes \in Nat /\ ContainerMax \in Nat /\ FloatDigits \in Nat /\ MaxScale \in Nat
  /\ FractionDigits \in Nat /\ Offset \in Int /\ DaySeconds \in Nat /\ DaySeconds > 0
  /\ NarrowBits \in Nat /\ NarrowBits > 0 /\ WideBits \in Nat /\ WideBits > NarrowBits
  /\ FloatDigits > 0 /\ FloatDigits < MaxScale /\ Base <= ByteBase
BY NumeralsAssumption, ValuesAssumption

\* A text is that of a number: its sign, its digits as a whole number, and how many
\* of them stand behind the dot, which is there when any do.
Says(text, minus, value, right) ==
  /\ text \in DigitTexts /\ text.digits # <<>>
  /\ text.minus = minus /\ text.right = right /\ text.dot = (right > 0)
  /\ ValueOf(text.digits, Base) = value

LEMMA NumberTextSays ==
  ASSUME NEW v \in Nat, NEW n \in Nat, v < Power(Base, n), n > 0,
         NEW minus \in BOOLEAN, NEW dot \in BOOLEAN, NEW right \in 0 .. n, dot = (right > 0),
         right <= MaxScale
  PROVE  Says(NumberText(minus, DigitsOf(v, n, Base), dot, right), minus, v, right)
<1> DEFINE ds == DigitsOf(v, n, Base)
           t == NumberText(minus, ds, dot, right)
<1>1. ds \in Seq(Digit) /\ Len(ds) = n /\ ValueOf(ds, Base) = v
  BY Bases, DigitsAre, DigitsValue DEF Digit
<1> HIDE DEF ds
<1>2. /\ t.minus = minus /\ t.digits = ds /\ t.dot = dot /\ t.right = right
      /\ t \in [minus : BOOLEAN, digits : Seq(Digit), dot : BOOLEAN, right : 0 .. MaxScale]
  BY <1>1, Bases DEF NumberText
<1>3. t \in DigitTexts
  BY <1>1, <1>2 DEF DigitTexts
<1>4. ds # <<>>
  BY <1>1
<1> HIDE DEF t
<1> QED
  BY <1>1, <1>2, <1>3, <1>4 DEF Says, t, ds

Magnitude(i) == IF i < 0 THEN -i ELSE i

LEMMA IntTextSays ==
  ASSUME NEW i \in Int
  PROVE  Says(IntText(i), i < 0, Magnitude(i), 0)
<1> DEFINE abs == Magnitude(i)
           n == IF abs = 0 THEN 1 ELSE Count(abs, Base)
<1>1. abs \in Nat
  BY DEF Magnitude
<1>2. IntText(i) = NumberText(i < 0, DigitsOf(abs, n, Base), FALSE, 0)
  BY DEF IntText, Magnitude
<1> HIDE DEF abs
<1>3. n \in Nat /\ n > 0 /\ abs < Power(Base, n)
  <2>1. CASE abs = 0
    BY <2>1, Bases, PowerLarge
  <2>2. CASE abs # 0
    <3>1. /\ Count(abs, Base) \in Nat /\ abs < Power(Base, Count(abs, Base))
      BY <1>1, Bases, CountIs
    <3>2. Count(abs, Base) # 0
      BY <1>1, <2>2, <3>1, Bases, PowerNext
    <3> QED
      BY <2>2, <3>1, <3>2
  <2> QED
    BY <2>1, <2>2
<1> HIDE DEF n
<1>4. (i < 0) \in BOOLEAN /\ FALSE \in BOOLEAN /\ 0 \in 0 .. n /\ FALSE = (0 > 0) /\ 0 <= MaxScale
  BY <1>3, Bases
<1>5. Says(NumberText(i < 0, DigitsOf(abs, n, Base), FALSE, 0), i < 0, abs, 0)
  BY <1>1, <1>3, <1>4, NumberTextSays
<1> QED
  BY <1>2, <1>5 DEF abs

\* A float in units of the last digit that is printed.
Shown(x) == (2 * Magnitude(x) + Base) \div (2 * Base)

\* Digits enough for v, and more than right of them.
LEMMA DigitsEnough ==
  ASSUME NEW v \in Nat, NEW right \in Nat
  PROVE  LET n == IF Count(v, Base) > right THEN Count(v, Base) ELSE right + 1
         IN  n \in Nat /\ n > 0 /\ v < Power(Base, n) /\ right \in 0 .. n
<1> DEFINE c == Count(v, Base)
           n == IF c > right THEN c ELSE right + 1
<1>1. c \in Nat /\ v < Power(Base, c)
  BY Bases, CountIs
<1> HIDE DEF c
<1>2. n \in Nat /\ n > 0 /\ c <= n /\ right \in 0 .. n
  BY <1>1
<1> HIDE DEF n
<1>3. Power(Base, c) <= Power(Base, n)
  BY <1>1, <1>2, Bases, PowerGrows
<1>4. Power(Base, c) \in Nat /\ Power(Base, n) \in Nat
  BY <1>1, <1>2, Bases, PowerNext
<1>5. v < Power(Base, n)
  BY <1>1, <1>3, <1>4
<1> QED
  BY <1>2, <1>5 DEF n, c

LEMMA FloatTextSays ==
  ASSUME NEW x \in Int
  PROVE  Shown(x) \in Nat /\ Says(FloatText(x), x < 0, Shown(x), FloatDigits)
<1> DEFINE shown == Shown(x)
           n == IF Count(shown, Base) > FloatDigits THEN Count(shown, Base) ELSE FloatDigits + 1
<1>1. shown \in Nat
  <2>1. 2 * Magnitude(x) + Base \in Nat /\ 2 * Base \in Nat /\ 2 * Base > 0
    BY Bases DEF Magnitude
  <2> QED
    BY <2>1, WholeParts DEF Shown
<1>2. FloatText(x) = NumberText(x < 0, DigitsOf(shown, n, Base), FloatDigits > 0, FloatDigits)
  BY DEF FloatText, Shown, Magnitude
<1> HIDE DEF shown
<1>3. n \in Nat /\ n > 0 /\ shown < Power(Base, n) /\ FloatDigits \in 0 .. n
  BY <1>1, Bases, DigitsEnough
<1> HIDE DEF n
<1>4. (x < 0) \in BOOLEAN /\ (FloatDigits > 0) \in BOOLEAN /\ FloatDigits <= MaxScale
  BY Bases
<1>5. Says(NumberText(x < 0, DigitsOf(shown, n, Base), FloatDigits > 0, FloatDigits),
           x < 0, shown, FloatDigits)
  BY <1>1, <1>3, <1>4, NumberTextSays
<1> QED
  BY <1>1, <1>2, <1>5 DEF shown

LEMMA DecimalTextSays ==
  ASSUME NEW value \in Nat, NEW d, d.value = value, NEW scale \in 0 .. MaxScale, d.scale = scale
  PROVE  Says(DecimalText(d), d.sign = 0 /\ value # 0, value, scale)
<1> DEFINE c == Count(value, Base)
           n == IF c > scale THEN c ELSE scale
           minus == d.sign = 0 /\ value # 0
<1>1. c \in Nat /\ value < Power(Base, c) /\ scale \in Nat /\ scale <= MaxScale
  BY Bases, CountIs
<1>2. DecimalText(d) = IF n = 0 THEN IntText(0)
                       ELSE NumberText(minus, DigitsOf(value, n, Base), scale > 0, scale)
  BY DEF DecimalText
<1> HIDE DEF c
<1>3. n \in Nat /\ scale \in 0 .. n /\ c <= n
  BY <1>1
<1>4. CASE n = 0
  <2>1. c = 0 /\ scale = 0
    BY <1>1, <1>4
  <2>2. value = 0
    BY <1>1, <2>1, Bases, PowerNext
  <2>3. Says(IntText(0), 0 < 0, Magnitude(0), 0)
    BY IntTextSays
  <2>4. (0 < 0) = minus /\ Magnitude(0) = value
    BY <2>2 DEF Magnitude
  <2> QED
    BY <1>2, <1>4, <2>1, <2>3, <2>4
<1>5. CASE n # 0
  <2> HIDE DEF n
  <2>1. Power(Base, c) <= Power(Base, n)
    BY <1>1, <1>3, Bases, PowerGrows
  <2>2. Power(Base, c) \in Nat /\ Power(Base, n) \in Nat
    BY <1>1, <1>3, Bases, PowerNext
  <2>3. value < Power(Base, n) /\ n > 0
    BY <1>1, <1>3, <1>5, <2>1, <2>2
  <2>4. minus \in BOOLEAN /\ (scale > 0) \in BOOLEAN
    OBVIOUS
  <2> HIDE DEF minus
  <2>5. Says(NumberText(minus, DigitsOf(value, n, Base), scale > 0, scale), minus, value, scale)
    BY <1>1, <1>3, <2>3, <2>4, NumberTextSays
  <2> QED
    BY <1>2, <1>5, <2>5 DEF minus
<1> QED
  BY <1>4, <1>5
-----------------------------------------------------------------------------
(* Decimals and NUMERICs *)

NumericValue(n) == ValueOf(Reverse(n.val), ByteBase)
ValSet == [1 .. ValBytes -> 0 .. ByteBase - 1]

LEMMA NumericValueIs ==
  ASSUME NEW n, n.val \in ValSet
  PROVE  /\ NumericValue(n) \in Nat /\ NumericValue(n) < Power(ByteBase, ValBytes)
         /\ \A max \in Nat : Accumulate(Reverse(n.val), ByteBase, max) = UpTo(NumericValue(n), max)
<1>1. n.val \in Seq(0 .. ByteBase - 1) /\ Len(n.val) = ValBytes
  BY Bases DEF ValSet
<1>2. Reverse(n.val) \in Seq(0 .. ByteBase - 1) /\ Len(Reverse(n.val)) = ValBytes
  BY <1>1, Reversed
<1> DEFINE r == Reverse(n.val)
<1> HIDE DEF r
<1>3. /\ ValueOf(r, ByteBase) \in Nat /\ ValueOf(r, ByteBase) < Power(ByteBase, Len(r))
      /\ \A max \in Nat : Accumulate(r, ByteBase, max) = UpTo(ValueOf(r, ByteBase), max)
  BY <1>2, Bases, AccumulateIs DEF r
<1> QED
  BY <1>2, <1>3 DEF NumericValue, r

LEMMA DecimalFromNumericIs ==
  ASSUME NEW n, n.val \in ValSet
  PROVE  DecimalFromNumeric(n) =
           IF NumericValue(n) <= ContainerMax
           THEN {Decimal(NumericValue(n), n.sign, n.precision, n.scale)} ELSE {}
<1>1. Accumulate(Reverse(n.val), ByteBase, ContainerMax) = UpTo(NumericValue(n), ContainerMax)
  BY NumericValueIs, Bases
<1>2. NumericValue(n) \in Nat
  BY NumericValueIs
<1> QED
  BY <1>1, <1>2, Bases DEF DecimalFromNumeric, UpTo

\* The digits that a text shows, as a whole number.
TextValue(text) == ValueOf(text.digits, Base)
SignOf(text) == IF text.minus /\ TextValue(text) # 0 THEN 0 ELSE 1

LEMMA TextValueIs ==
  ASSUME NEW text \in DigitTexts
  PROVE  /\ TextValue(text) \in Nat /\ TextValue(text) < Power(Base, Len(text.digits))
         /\ \A max \in Nat : Accumulate(text.digits, Base, max) = UpTo(TextValue(text), max)
         /\ Accumulate(text.digits, Base, Power(Base, Len(text.digits))) = TextValue(text)
         /\ Len(text.digits) \in Nat /\ text.right \in Nat /\ text.right <= Len(text.digits)
         /\ text.right <= MaxScale /\ (text.right > 0 => text.dot)
         /\ text.minus \in BOOLEAN /\ text.dot \in BOOLEAN /\ Is(text, "digits")
         /\ ~Is(text, "date") /\ ~Is(text, "uuid") /\ ~Is(text, "units")
<1>1. /\ text.digits \in Seq(0 .. Base - 1) /\ text.right \in Nat /\ text.right <= Len(text.digits)
      /\ text.right <= MaxScale /\ (text.right > 0 => text.dot)
      /\ text.minus \in BOOLEAN /\ text.dot \in BOOLEAN
      /\ DOMAIN text = {"minus", "digits", "dot", "right"}
  BY Bases DEF DigitTexts, Digit
<1>2. /\ TextValue(text) \in Nat /\ TextValue(text) < Power(Base, Len(text.digits))
      /\ \A max \in Nat : Accumulate(text.digits, Base, max) = UpTo(TextValue(text), max)
  BY <1>1, Bases, AccumulateIs DEF TextValue
<1>3. Len(text.digits) \in Nat
  BY <1>1
<1>4. Accumulate(text.digits, Base, Power(Base, Len(text.digits))) = TextValue(text)
  BY DEF TextValue, ValueOf
<1> QED
  BY <1>1, <1>2, <1>3, <1>4 DEF Is

LEMMA DecimalFromTextIs ==
  ASSUME NEW text \in DigitTexts
  PROVE  DecimalFromText(text) =
           IF TextValue(text) <= ContainerMax
           THEN {Decimal(TextValue(text), SignOf(text), Len(text.digits), text.right)} ELSE {}
<1> DEFINE v == Accumulate(text.digits, Base, ContainerMax)
           x == TextValue(text)
<1>1. x \in Nat /\ v = UpTo(x, ContainerMax) /\ Is(text, "digits")
  BY TextValueIs, Bases
<1>2. DecimalFromText(text) =
        IF v >= 0
        THEN {Decimal(v, IF text.minus /\ v # 0 THEN 0 ELSE 1, Len(text.digits), text.right)} ELSE {}
  BY <1>1 DEF DecimalFromText
<1>3. SignOf(text) = IF text.minus /\ x # 0 THEN 0 ELSE 1
  BY DEF SignOf
<1> HIDE DEF v, x
<1>4. CASE x <= ContainerMax
  BY <1>1, <1>2, <1>3, <1>4, Bases DEF UpTo, x
<1>5. CASE x > ContainerMax
  BY <1>1, <1>2, <1>5, Bases DEF UpTo, x
<1> QED
  BY <1>1, <1>4, <1>5, Bases

LEMMA DecimalFromTextTyped ==
  ASSUME NEW text \in DigitTexts, NEW d \in DecimalFromText(text)
  PROVE  d \in Decimals
<1>1. /\ TextValue(text) \in Nat /\ Len(text.digits) \in Nat
      /\ text.right \in Nat /\ text.right <= Len(text.digits) /\ text.right <= MaxScale
  BY TextValueIs
<1>2. /\ d = Decimal(TextValue(text), SignOf(text), Len(text.digits), text.right)
      /\ TextValue(text) <= ContainerMax
  BY DecimalFromTextIs
<1>3. SignOf(text) \in {0, 1}
  BY DEF SignOf
<1> QED
  BY <1>1, <1>2, <1>3, Bases DEF Decimals, Decimal

\* A Decimal with another scale: digits are added, or cut off.
LEMMA RescaledIs ==
  ASSUME NEW d \in Decimals, NEW s \in Nat, NEW w \in Rescaled(d, s)
  PROVE  /\ w \in 0 .. ContainerMax
         /\ d.scale < s => w = d.value * Power(Base, s - d.scale)
         /\ d.scale >= s => w = d.value \div Power(Base, d.scale - s)
<1>1. d.value \in 0 .. ContainerMax /\ d.scale \in Nat
  BY DEF Decimals
<1>2. CASE d.scale < s
  <2> DEFINE p == Power(Base, s - d.scale)
  <2>1. s - d.scale \in Nat
    BY <1>1, <1>2
  <2>2. p \in Nat
    BY <2>1, Bases, PowerNext
  <2>3. Rescaled(d, s) = IF d.value * p <= ContainerMax THEN {d.value * p} ELSE {}
    BY <1>2 DEF Rescaled
  <2> HIDE DEF p
  <2>4. w = d.value * p /\ w <= ContainerMax /\ w \in Nat
    BY <1>1, <2>2, <2>3, ProductIsNat
  <2> QED
    BY <1>1, <1>2, <2>4, Bases DEF p
<1>3. CASE d.scale >= s
  <2> DEFINE p == Power(Base, d.scale - s)
             q == d.value \div p
  <2>1. d.scale - s \in Nat
    BY <1>1, <1>3
  <2>2. p \in Nat /\ p > 0
    BY <2>1, Bases, PowerPositive
  <2>3. Rescaled(d, s) = {q}
    BY <1>1, <1>3 DEF Rescaled
  <2> HIDE DEF p
  <2>4. q \in Nat /\ p * q <= d.value
    <3>1. d.value \in Nat
      BY <1>1
    <3>2. d.value \div p \in Nat
      BY <2>2, <3>1, WholeParts
    <3> QED
      BY <2>2, <3>1, <3>2, Bounds
  <2> HIDE DEF q
  <2>5. q <= d.value
    <3>1. p * q >= q /\ p * q \in Nat
      BY <2>2, <2>4
    <3> QED
      BY <1>1, <2>4, <3>1
  <2>6. w = q /\ w \in 0 .. ContainerMax
    BY <1>1, <2>3, <2>4, <2>5, Bases
  <2> QED
    BY <1>1, <1>3, <2>6 DEF q, p
<1> QED
  BY <1>1, <1>2, <1>3

\* The precision and the scale that a buffer asks for, or those of the Decimal.
ScaleFor(d, precision, scale) == IF precision = 0 THEN d.scale ELSE scale

LEMMA SequenceIsFunction ==
  ASSUME NEW T, NEW s \in Seq(T)
  PROVE  s \in [1 .. Len(s) -> T]
OBVIOUS

LEMMA NumericFromDecimalIs ==
  ASSUME NEW d \in Decimals, NEW precision \in Nat, NEW scale \in 0 .. MaxScale,
         NEW n \in NumericFromDecimal(d, precision, scale)
  PROVE  /\ n \in Numerics /\ n.scale <= n.precision
         /\ n.sign = d.sign /\ n.scale = ScaleFor(d, precision, scale)
         /\ NumericValue(n) \in Rescaled(d, ScaleFor(d, precision, scale))
<1> DEFINE p == IF precision = 0 THEN d.precision ELSE precision
           s == ScaleFor(d, precision, scale)
           Made(w) == [sign |-> d.sign, precision |-> p, scale |-> s,
                       val |-> Reverse(DigitsOf(w, ValBytes, ByteBase))]
<1>1. /\ d.sign \in {0, 1} /\ d.precision \in Nat /\ d.scale \in 0 .. MaxScale
      /\ d.scale <= d.precision
  BY DEF Decimals
<1>2. precision >= scale /\ \E w \in Rescaled(d, s) : n = Made(w)
  BY DEF NumericFromDecimal, ScaleFor
<1>3. p \in Nat /\ s \in Nat /\ s <= p /\ s \in 0 .. MaxScale
  BY <1>1, <1>2, Bases DEF ScaleFor
<1> HIDE DEF p, s
<1>4. PICK w \in Rescaled(d, s) : n = Made(w)
  BY <1>2
<1>5. w \in 0 .. ContainerMax
  BY <1>3, RescaledIs
<1> DEFINE ds == DigitsOf(w, ValBytes, ByteBase)
<1>6. w \in Nat /\ w < Power(ByteBase, ValBytes)
  <2>1. Power(ByteBase, ValBytes) \in Nat
    BY Bases, PowerNext
  <2> QED
    BY <1>5, <2>1, NumeralsAssumption
<1>7. ds \in Seq(0 .. ByteBase - 1) /\ Len(ds) = ValBytes /\ ValueOf(ds, ByteBase) = w
  BY <1>6, Bases, DigitsAre, DigitsValue
<1>8. /\ n.sign = d.sign /\ n.precision = p /\ n.scale = s /\ n.val = Reverse(ds)
      /\ DOMAIN n = {"sign", "precision", "scale", "val"}
  BY <1>4
<1> HIDE DEF ds
<1>9. /\ Reverse(ds) \in Seq(0 .. ByteBase - 1) /\ Len(Reverse(ds)) = ValBytes
      /\ Reverse(Reverse(ds)) = ds
  BY <1>7, Reversed
<1>10. n.val \in ValSet
  <2> DEFINE r == Reverse(ds)
  <2>1. r \in Seq(0 .. ByteBase - 1) /\ Len(r) = ValBytes
    BY <1>9
  <2> HIDE DEF r
  <2>2. r \in [1 .. ValBytes -> 0 .. ByteBase - 1]
    BY <2>1, SequenceIsFunction
  <2> QED
    BY <1>8, <2>2 DEF r, ValSet
<1>11. n \in Numerics
  <2>1. n = Made(w)
    BY <1>4
  <2> QED
    BY <1>1, <1>3, <1>8, <1>10, <2>1 DEF Numerics, ValSet, ds
<1>12. NumericValue(n) = w
  BY <1>7, <1>8, <1>9 DEF NumericValue
<1> QED
  BY <1>3, <1>4, <1>8, <1>11, <1>12 DEF s
-----------------------------------------------------------------------------
(* What each conversion yields *)

\* The integers of the type of a buffer, and all that a buffer may receive.
IntsOf(to) == LowestOf(IntTypeOf(to.ctype)) .. HighestOf(IntTypeOf(to.ctype))
Objects(to) ==
  [text : Texts] \cup [int : IntsOf(to)] \cup [float : Int]
  \cup [numeric : {n \in Numerics : n.scale <= n.precision}]
  \cup [guid : STRING] \cup [day : Int] \cup [second : Int] \cup [timestamp : Moments]

LEMMA IntTypeIs ==
  ASSUME NEW c
  PROVE  /\ IntTypeOf(c).bits \in Nat /\ IntTypeOf(c).bits > 0 /\ IntTypeOf(c).signed \in BOOLEAN
BY Bases DEF IntTypeOf, IntType

\* The range of a type has as many integers as its bits have values.
LEMMA WidthIs ==
  ASSUME NEW t, t.bits \in Nat, t.bits > 0, t.signed \in BOOLEAN
  PROVE  /\ LowestOf(t) \in Int /\ Power(2, t.bits) \in Nat /\ Power(2, t.bits) > 0
         /\ LowestOf(t) <= 0 /\ HighestOf(t) \in Nat
         /\ HighestOf(t) = LowestOf(t) + Power(2, t.bits) - 1
<1> DEFINE p == Power(2, t.bits - 1)
<1>1. t.bits - 1 \in Nat /\ (t.bits - 1) + 1 = t.bits
  OBVIOUS
<1>2. p \in Nat /\ p > 0
  <2> DEFINE m == t.bits - 1
  <2>1. m \in Nat /\ 2 \in Nat /\ 2 > 0
    BY <1>1
  <2> HIDE DEF m
  <2> QED
    BY <2>1, PowerPositive DEF m
<1>3. Power(2, t.bits) = 2 * p
  BY <1>1, PowerNext
<1> HIDE DEF p
<1>4. LowestOf(t) = IF t.signed THEN -p ELSE 0
  BY DEF LowestOf, p
<1>5. HighestOf(t) = IF t.signed THEN p - 1 ELSE 2 * p - 1
  BY <1>3 DEF HighestOf, p
<1> QED
  BY <1>2, <1>3, <1>4, <1>5

LEMMA NarrowIs ==
  ASSUME NEW t, t.bits \in Nat, t.bits > 0, t.signed \in BOOLEAN, NEW i \in Int
  PROVE  /\ Narrow(i, t) \in LowestOf(t) .. HighestOf(t)
         /\ \E k \in Int : i - Narrow(i, t) = k * Power(2, t.bits)
<1> DEFINE low == LowestOf(t)
           w == Power(2, t.bits)
           x == i - low
<1>1. low \in Int /\ w \in Nat /\ w > 0 /\ HighestOf(t) = low + w - 1
  BY WidthIs
<1> HIDE DEF low, w
<1>2. x \in Int
  BY <1>1
<1>3. Narrow(i, t) = low + (x % w)
  BY DEF Narrow, low, w
<1> HIDE DEF x
<1>4. PICK q \in Int, r \in 0 .. w - 1 : Divides(x, w, q, r)
  BY <1>1, <1>2, Division
<1>5. Narrow(i, t) = low + r /\ x = w * q + r
  BY <1>3, <1>4 DEF Divides
<1>6. Narrow(i, t) \in low .. low + w - 1
  BY <1>1, <1>5
<1>7. w * q = q * w /\ w * q \in Int
  BY <1>1
<1>8. i - Narrow(i, t) = q * w
  BY <1>1, <1>5, <1>7 DEF x
<1> QED
  BY <1>1, <1>6, <1>8 DEF low, w

LEMMA UnitsAre ==
  UnitsPerOne \in Nat /\ UnitsPerOne > 0
<1>1. FloatDigits + 1 \in Nat
  BY Bases
<1> QED
  BY <1>1, Bases, PowerPositive DEF UnitsPerOne

\* The magnitude of the float that a text becomes.
FloatOf(text) == (TextValue(text) * UnitsPerOne) \div Power(Base, text.right)

LEMMA FloatFromTextIs ==
  ASSUME NEW text \in DigitTexts
  PROVE  /\ FloatOf(text) \in Nat
         /\ FloatFromText(text) =
              IF text.digits # <<>> THEN {IF text.minus THEN -FloatOf(text) ELSE FloatOf(text)} ELSE {}
<1> DEFINE p == Power(Base, text.right)
           x == TextValue(text) * UnitsPerOne
<1>1. TextValue(text) \in Nat /\ text.right \in Nat /\ Is(text, "digits")
  BY TextValueIs
<1>2. p \in Nat /\ p > 0
  BY <1>1, Bases, PowerPositive
<1>3. x \in Nat
  <2>1. UnitsPerOne \in Nat
    BY UnitsAre
  <2> QED
    BY <1>1, <2>1, ProductIsNat
<1> HIDE DEF p, x
<1>4. x \div p \in Nat
  BY <1>2, <1>3, WholeParts
<1>5. Accumulate(text.digits, Base, Power(Base, Len(text.digits))) = TextValue(text)
  BY TextValueIs
<1>6. FloatFromText(text) =
        IF text.digits # <<>> THEN {IF text.minus THEN -(x \div p) ELSE x \div p} ELSE {}
  BY <1>1, <1>5, Zenon DEF FloatFromText, x, p
<1> QED
  BY <1>4, <1>6 DEF FloatOf, x, p

LEMMA NotDigits ==
  ASSUME NEW text \in Texts, ~Is(text, "digits"), NEW t
  PROVE  IntFromText(text, t) = {} /\ FloatFromText(text) = {} /\ DecimalFromText(text) = {}
BY DEF IntFromText, FloatFromText, DecimalFromText

LEMMA IntFromTextTyped ==
  ASSUME NEW text, NEW t, NEW i \in IntFromText(text, t)
  PROVE  /\ i \in LowestOf(t) .. HighestOf(t)
         /\ Is(text, "digits") /\ text.digits # <<>> /\ ~text.dot
BY DEF IntFromText

\* The digits of a fraction, as many as there are, stand for that many billionths.
LEMMA FractionFromTextIs ==
  ASSUME NEW digits \in Seq(Digit), Len(digits) <= FractionDigits
  PROVE  /\ FractionFromText(digits) \in 0 .. Power(Base, FractionDigits) - 1
         /\ FractionFromText(digits) = ValueOf(digits, Base) * Power(Base, FractionDigits - Len(digits))
<1> DEFINE n == Len(digits)
           v == ValueOf(digits, Base)
           p == Power(Base, n)
           q == Power(Base, FractionDigits - n)
<1>1. n \in Nat /\ FractionDigits - n \in Nat /\ digits \in Seq(0 .. Base - 1)
  BY Bases DEF Digit
<1>2. v \in Nat /\ v < p
  BY <1>1, Bases, AccumulateIs
<1>3. p \in Nat /\ q \in Nat /\ q > 0
  BY <1>1, Bases, PowerPositive
<1>4. Power(Base, FractionDigits) = p * q
  BY <1>1, Bases, PowerGrows
<1>5. FractionFromText(digits) = v * q
  BY DEF FractionFromText, ValueOf
<1> HIDE DEF v, p, q
<1>6. v * q \in Nat /\ v * q < p * q
  <2>1. (v + 1) * q <= p * q
    BY <1>2, <1>3
  <2>2. (v + 1) * q = v * q + q /\ v * q \in Nat
    BY <1>2, <1>3
  <2>3. p * q \in Nat
    BY <1>3
  <2> QED
    BY <1>3, <2>1, <2>2, <2>3
<1>7. p * q \in Nat
  BY <1>3
<1> QED
  BY <1>4, <1>5, <1>6, <1>7 DEF v, q

LEMMA SaysText ==
  ASSUME NEW t, NEW minus, NEW value, NEW right, Says(t, minus, value, right)
  PROVE  t \in DigitTexts /\ t \in Texts
BY DEF Says, Texts

LEMMA TimestampTextIs ==
  ASSUME NEW m \in Moments
  PROVE  TimestampText(m) \in MomentTexts
<1> DEFINE f == IF m.fraction > 0 THEN DigitsOf(m.fraction, FractionDigits, Base) ELSE <<>>
<1>1. m.date \in Int /\ m.time \in Nat /\ m.fraction \in Nat
  <2>1. Power(Base, FractionDigits) \in Nat
    BY Bases, PowerNext
  <2> QED
    BY <2>1 DEF Moments
<1>2. f \in Seq(Digit) /\ Len(f) <= FractionDigits
  <2>1. /\ DigitsOf(m.fraction, FractionDigits, Base) \in Seq(Digit)
        /\ Len(DigitsOf(m.fraction, FractionDigits, Base)) = FractionDigits
    BY <1>1, Bases, DigitsAre DEF Digit
  <2> QED
    BY <2>1, Bases
<1>3. TimestampText(m) = [date |-> m.date, time |-> m.time, fraction |-> f]
  BY DEF TimestampText, MomentText
<1> HIDE DEF f
<1> QED
  BY <1>1, <1>2, <1>3 DEF MomentTexts

\* A value becomes a text.
LEMMA TextOfTyped ==
  ASSUME NEW v \in Held, NEW t \in TextOf(v)
  PROVE  t \in Texts
<1>1. CASE Is(v, "text")
  BY <1>1, HeldKinds DEF TextOf
<1>2. CASE ~Is(v, "text") /\ Is(v, "int")
  <2>1. t = IntText(v.int) /\ v.int \in Int
    BY <1>2, HeldKinds DEF TextOf
  <2> QED
    BY <2>1, IntTextSays, SaysText
<1>3. CASE ~Is(v, "text") /\ ~Is(v, "int") /\ Is(v, "float")
  <2>1. t = FloatText(v.float) /\ v.float \in Int
    BY <1>3, HeldKinds DEF TextOf
  <2> QED
    BY <2>1, FloatTextSays, SaysText
<1>4. CASE ~Is(v, "text") /\ ~Is(v, "int") /\ ~Is(v, "float") /\ Is(v, "decimal")
  <2>1. t = DecimalText(v.decimal) /\ v.decimal \in Decimals
    BY <1>4, HeldKinds DEF TextOf
  <2>2. v.decimal.value \in Nat /\ v.decimal.scale \in 0 .. MaxScale
    BY <2>1 DEF Decimals
  <2> QED
    BY <2>1, <2>2, DecimalTextSays, SaysText
<1>5. CASE /\ ~Is(v, "text") /\ ~Is(v, "int") /\ ~Is(v, "float") /\ ~Is(v, "decimal")
           /\ Is(v, "numeric")
  <2>1. v.numeric \in Numerics
    BY <1>5, HeldKinds
  <2>2. PICK d \in DecimalFromNumeric(v.numeric) : t = DecimalText(d)
    BY <1>5 DEF TextOf
  <2>3. v.numeric.val \in ValSet /\ v.numeric.scale \in 0 .. MaxScale
    BY <2>1 DEF Numerics, ValSet
  <2>4. d = Decimal(NumericValue(v.numeric), v.numeric.sign, v.numeric.precision, v.numeric.scale)
    BY <2>2, <2>3, DecimalFromNumericIs
  <2>5. d.value \in Nat /\ d.scale \in 0 .. MaxScale
    BY <2>3, <2>4, NumericValueIs DEF Decimal
  <2> QED
    BY <2>2, <2>5, DecimalTextSays, SaysText
<1>6. CASE /\ ~Is(v, "text") /\ ~Is(v, "int") /\ ~Is(v, "float") /\ ~Is(v, "decimal")
           /\ ~Is(v, "numeric") /\ Is(v, "guid")
  <2>1. t = [uuid |-> v.guid] /\ v.guid \in STRING
    BY <1>6, HeldKinds DEF TextOf
  <2> QED
    BY <2>1 DEF Texts
<1>7. CASE /\ ~Is(v, "text") /\ ~Is(v, "int") /\ ~Is(v, "float") /\ ~Is(v, "decimal")
           /\ ~Is(v, "numeric") /\ ~Is(v, "guid") /\ Is(v, "day")
  <2>1. t = [date |-> v.day, time |-> NoTime, fraction |-> <<>>] /\ v.day \in Int
    BY <1>7, HeldKinds DEF TextOf, MomentText
  <2>2. <<>> \in Seq(Digit) /\ Len(<<>>) <= FractionDigits
    BY Bases
  <2> QED
    BY <2>1, <2>2 DEF Texts, MomentTexts
<1>8. CASE /\ ~Is(v, "text") /\ ~Is(v, "int") /\ ~Is(v, "float") /\ ~Is(v, "decimal")
           /\ ~Is(v, "numeric") /\ ~Is(v, "guid") /\ ~Is(v, "day") /\ Is(v, "second")
  <2>1. t = [clock |-> v.second] /\ v.second \in Int
    BY <1>8, HeldKinds DEF TextOf
  <2> QED
    BY <2>1 DEF Texts
<1>9. CASE /\ ~Is(v, "text") /\ ~Is(v, "int") /\ ~Is(v, "float") /\ ~Is(v, "decimal")
           /\ ~Is(v, "numeric") /\ ~Is(v, "guid") /\ ~Is(v, "day") /\ ~Is(v, "second")
  <2>1. t = TimestampText(v.timestamp) /\ v.timestamp \in Moments
    <3>1. Is(v, "timestamp")
      BY <1>9, HeldKinds DEF Is
    <3> QED
      BY <1>9, <3>1, HeldKinds DEF TextOf
  <2> QED
    BY <2>1, TimestampTextIs DEF Texts
<1> QED
  BY <1>1, <1>2, <1>3, <1>4, <1>5, <1>6, <1>7, <1>8, <1>9

LEMMA MomentTextIs ==
  ASSUME NEW t \in Texts, Is(t, "date")
  PROVE  /\ Normal(t.date) \in Int
         /\ (IF t.time = NoTime THEN 0 ELSE t.time) \in Nat
         /\ FractionFromText(t.fraction) \in 0 .. Power(Base, FractionDigits) - 1
<1>1. t \in MomentTexts
  BY TextKinds
<1>2. /\ t.date \in Int /\ t.time \in Nat \cup {NoTime} /\ t.fraction \in Seq(Digit)
      /\ Len(t.fraction) <= FractionDigits
  BY <1>1 DEF MomentTexts
<1>3. FractionFromText(t.fraction) \in 0 .. Power(Base, FractionDigits) - 1
  BY <1>2, FractionFromTextIs
<1> QED
  BY <1>2, <1>3 DEF Normal

LEMMA TimestampFromTextTyped ==
  ASSUME NEW t \in Texts, NEW m \in TimestampFromText(t)
  PROVE  m \in Moments
<1>1. /\ Is(t, "date")
      /\ m = [date |-> Normal(t.date), time |-> IF t.time = NoTime THEN 0 ELSE t.time,
              fraction |-> FractionFromText(t.fraction)]
  BY DEF TimestampFromText, When
<1> QED
  BY <1>1, MomentTextIs DEF Moments

\* A text becomes something of the type of the buffer.
LEMMA FromTextTyped ==
  ASSUME NEW text \in Texts, NEW to, to.ctype \in CTypes, to.precision \in Nat,
         to.scale \in 0 .. MaxScale,
         NEW o \in FromText(text, to)
  PROVE  o \in Objects(to)
<1>1. CASE to.ctype \in IntCTypes
  <2>1. PICK i \in IntFromText(text, IntTypeOf(to.ctype)) : o = [int |-> i]
    BY <1>1 DEF FromText, IntCTypes
  <2>2. i \in IntsOf(to)
    BY IntFromTextTyped DEF IntsOf
  <2> QED
    BY <2>1, <2>2 DEF Objects
<1>2. CASE to.ctype = "double"
  <2>1. PICK x \in FloatFromText(text) : o = [float |-> x]
    BY <1>2 DEF FromText, IntCTypes
  <2>2. Is(text, "digits")
    BY <2>1, NotDigits
  <2>3. text \in DigitTexts
    BY <2>2, TextKinds
  <2>4. FloatOf(text) \in Nat /\ x \in {FloatOf(text), -FloatOf(text)}
    BY <2>1, <2>3, FloatFromTextIs
  <2>5. x \in Int
    BY <2>4
  <2> QED
    BY <2>1, <2>5 DEF Objects
<1>3. CASE to.ctype = "numeric"
  <2>1. PICK d \in DecimalFromText(text) :
          \E n \in NumericFromDecimal(d, to.precision, to.scale) : o = [numeric |-> n]
    BY <1>3 DEF FromText, IntCTypes
  <2>2. text \in DigitTexts
    BY <2>1, NotDigits, TextKinds
  <2>3. d \in Decimals
    BY <2>1, <2>2, DecimalFromTextTyped
  <2>4. PICK n \in NumericFromDecimal(d, to.precision, to.scale) : o = [numeric |-> n]
    BY <2>1
  <2>5. n \in Numerics /\ n.scale <= n.precision
    BY <2>3, NumericFromDecimalIs
  <2> QED
    BY <2>4, <2>5 DEF Objects
<1>4. CASE to.ctype \in {"guid", "date", "time"}
  <2>1. CASE to.ctype = "guid"
    <3>1. Is(text, "uuid") /\ o = [guid |-> text.uuid]
      BY <2>1 DEF FromText, IntCTypes, When
    <3> QED
      BY <3>1, TextKinds DEF Objects
  <2>2. CASE to.ctype = "date"
    <3>1. Is(text, "date") /\ o = [day |-> Normal(text.date)]
      BY <2>2 DEF FromText, IntCTypes, When
    <3> QED
      BY <3>1, MomentTextIs DEF Objects
  <2>3. CASE to.ctype = "time"
    <3>1. Is(text, "date") /\ o = [second |-> IF text.time = NoTime THEN 0 ELSE text.time]
      BY <2>3 DEF FromText, IntCTypes, When
    <3>2. (IF text.time = NoTime THEN 0 ELSE text.time) \in Int
      BY <3>1, MomentTextIs
    <3> QED
      BY <3>1, <3>2 DEF Objects
  <2> QED
    BY <1>4, <2>1, <2>2, <2>3
<1>5. CASE to.ctype = "timestamp"
  <2>1. PICK m \in TimestampFromText(text) : o = [timestamp |-> m]
    BY <1>5 DEF FromText, IntCTypes
  <2>2. m \in Moments
    BY TimestampFromTextTyped
  <2> QED
    BY <2>1, <2>2 DEF Objects
<1>6. CASE to.ctype \in {"char", "wchar"}
  <2>1. o = [text |-> text]
    BY <1>6 DEF FromText, IntCTypes
  <2> QED
    BY <2>1 DEF Objects
<1> QED
  BY <1>1, <1>2, <1>3, <1>4, <1>5, <1>6 DEF CTypes
-----------------------------------------------------------------------------
(* From a field to the buffer *)

\* What a field may hold, and what conversions start from.
Fields ==
  {Nothing} \cup [text : Texts] \cup [int : Int] \cup [float : Int] \cup [decimal : Decimals]
  \cup [guid : STRING] \cup [wireDate : Int] \cup [wireDateTime : Int]
  \cup [wireTicks : Int, precision : 0 .. FractionDigits]
Unwrapped ==
  [text : Texts] \cup [int : Int] \cup [float : Int] \cup [decimal : Decimals]
  \cup [guid : STRING] \cup [day : Int] \cup [timestamp : Moments]

LEMMA FieldKindsAre ==
  ASSUME NEW v \in Fields, v # Nothing
  PROVE  /\ Is(v, "wireDate") => v \in [wireDate : Int]
         /\ Is(v, "wireDateTime") => v \in [wireDateTime : Int]
         /\ Is(v, "wireTicks") => v \in [wireTicks : Int, precision : 0 .. FractionDigits]
         /\ ~Is(v, "wireDate") /\ ~Is(v, "wireDateTime") /\ ~Is(v, "wireTicks") => v \in Unwrapped
<1>1. v \in [text : Texts] \cup [int : Int] \cup [float : Int] \cup [decimal : Decimals]
            \cup [guid : STRING] => v \in Unwrapped
  BY DEF Unwrapped
<1>2. v \in [text : Texts] \/ v \in [int : Int] \/ v \in [float : Int] \/ v \in [decimal : Decimals]
        \/ v \in [guid : STRING] =>
        ~Is(v, "wireDate") /\ ~Is(v, "wireDateTime") /\ ~Is(v, "wireTicks")
  BY DEF Is
<1>3. v \in [wireDate : Int] => ~Is(v, "wireDateTime") /\ ~Is(v, "wireTicks") /\ Is(v, "wireDate")
  BY DEF Is
<1>4. v \in [wireDateTime : Int] =>
        ~Is(v, "wireDate") /\ ~Is(v, "wireTicks") /\ Is(v, "wireDateTime")
  BY DEF Is
<1>5. v \in [wireTicks : Int, precision : 0 .. FractionDigits] =>
        ~Is(v, "wireDate") /\ ~Is(v, "wireDateTime") /\ Is(v, "wireTicks")
  BY DEF Is
<1> QED
  BY <1>1, <1>2, <1>3, <1>4, <1>5 DEF Fields

LEMMA UnwrappedHeld ==
  ASSUME NEW v \in Unwrapped
  PROVE  v \in Held /\ ~Is(v, "numeric") /\ ~Is(v, "second")
BY DEF Unwrapped, Held, Is

LEMMA ClockIs ==
  ASSUME NEW seconds \in Int, NEW fraction \in 0 .. Power(Base, FractionDigits) - 1
  PROVE  Clock(seconds, fraction) \in [timestamp : Moments]
<1> DEFINE local == seconds + Offset
           q == local \div DaySeconds
           r == local % DaySeconds
<1>1. local \in Int
  BY Bases
<1>2. Clock(seconds, fraction) = [timestamp |-> [date |-> q, time |-> r, fraction |-> fraction]]
  BY DEF Clock
<1> HIDE DEF local
<1>3. q \in Int /\ r \in 0 .. DaySeconds - 1
  BY <1>1, Bases, Division DEF Divides
<1> HIDE DEF q, r
<1>4. r \in Nat
  BY <1>3, Bases
<1> QED
  BY <1>2, <1>3, <1>4 DEF Moments

LEMMA TicksFraction ==
  ASSUME NEW ticks \in Nat, NEW precision \in 0 .. FractionDigits
  PROVE  ticks % Power(Base, precision) \in 0 .. Power(Base, FractionDigits) - 1
<1> DEFINE p == Power(Base, precision)
<1>1. precision \in Nat /\ precision <= FractionDigits
  BY Bases
<1>2. p \in Nat /\ p > 0
  BY <1>1, Bases, PowerPositive
<1>3. p <= Power(Base, FractionDigits) /\ Power(Base, FractionDigits) \in Nat
  BY <1>1, Bases, PowerGrows, PowerNext
<1> HIDE DEF p
<1>4. ticks % p \in 0 .. p - 1
  BY <1>2, WholeParts
<1> QED
  BY <1>2, <1>3, <1>4 DEF p

LEMMA UnwiredTyped ==
  ASSUME NEW v \in Fields, v # Nothing, NEW u \in Unwired(v)
  PROVE  u \in Unwrapped
<1>1. 0 \in 0 .. Power(Base, FractionDigits) - 1
  <2>1. Power(Base, FractionDigits) \in Nat /\ Power(Base, FractionDigits) > 0
    BY Bases, PowerPositive
  <2> QED
    BY <2>1
<1>2. CASE Is(v, "wireDate")
  <2> DEFINE s == v.wireDate * DaySeconds
  <2>1. v.wireDate \in Int
    BY <1>2, FieldKindsAre
  <2>2. s \in Int
    BY <2>1, Bases
  <2>3. u = [day |-> Clock(s, 0).timestamp.date]
    BY <1>2 DEF Unwired
  <2> HIDE DEF s
  <2>4. Clock(s, 0) \in [timestamp : Moments]
    BY <1>1, <2>2, ClockIs
  <2>5. Clock(s, 0).timestamp.date \in Int
    BY <2>4 DEF Moments
  <2> QED
    BY <2>3, <2>5 DEF Unwrapped
<1>3. CASE ~Is(v, "wireDate") /\ Is(v, "wireDateTime")
  <2>1. v.wireDateTime \in Int /\ u = Clock(v.wireDateTime, 0)
    BY <1>3, FieldKindsAre DEF Unwired
  <2> QED
    BY <1>1, <2>1, ClockIs DEF Unwrapped
<1>4. CASE ~Is(v, "wireDate") /\ ~Is(v, "wireDateTime") /\ Is(v, "wireTicks")
  <2> DEFINE abs == Magnitude(v.wireTicks)
             p == Power(Base, v.precision)
  <2>1. v.wireTicks \in Int /\ v.precision \in 0 .. FractionDigits
    BY <1>4, FieldKindsAre
  <2>2. abs \in Nat /\ v.precision \in Nat
    BY <2>1, Bases DEF Magnitude
  <2>3. u \in ClockOfTicks(v.wireTicks, v.precision)
    BY <1>4 DEF Unwired
  <2>4. u = Clock(abs \div p, abs % p)
    BY <2>3 DEF ClockOfTicks, When, Magnitude
  <2> HIDE DEF abs
  <2>5. abs % p \in 0 .. Power(Base, FractionDigits) - 1
    BY <2>1, <2>2, TicksFraction
  <2>6. p \in Nat /\ p > 0
    BY <2>2, Bases, PowerPositive
  <2> HIDE DEF p
  <2>7. abs \div p \in Nat
    BY <2>2, <2>6, WholeParts
  <2>8. abs \div p \in Int
    BY <2>7
  <2>9. Clock(abs \div p, abs % p) \in [timestamp : Moments]
    BY <2>5, <2>8, ClockIs
  <2> QED
    BY <2>4, <2>9 DEF Unwrapped
<1>5. CASE ~Is(v, "wireDate") /\ ~Is(v, "wireDateTime") /\ ~Is(v, "wireTicks")
  BY <1>5, FieldKindsAre DEF Unwired
<1> QED
  BY <1>2, <1>3, <1>4, <1>5

\* The kind of value that a buffer takes.
LEMMA KindIs ==
  ASSUME NEW c \in CTypes
  PROVE  /\ KindOf(c) = "int" <=> c \in IntCTypes
         /\ KindOf(c) = "float" <=> c = "double"
         /\ KindOf(c) = "text" <=> c \in {"char", "wchar"}
         /\ c = "numeric" => KindOf(c) = "numeric"
         /\ c = "guid" => KindOf(c) = "guid"
         /\ c = "date" => KindOf(c) = "day"
         /\ c = "time" => KindOf(c) = "second"
         /\ c = "timestamp" => KindOf(c) = "timestamp"
BY DEF KindOf, CTypes, IntCTypes

LEMMA ConvertedTyped ==
  ASSUME NEW v \in Unwrapped, NEW to \in Targets, NEW o \in Converted(v, to)
  PROVE  o \in Objects(to)
<1> DEFINE k == KindOf(to.ctype)
<1>0. to.ctype \in CTypes /\ to.precision \in Nat /\ to.scale \in 0 .. MaxScale
  BY TargetsAssumption
<1>1. v \in Held /\ ~Is(v, "numeric") /\ ~Is(v, "second")
  BY UnwrappedHeld
<1>2. CASE k = "text"
  <2>1. PICK t \in TextOf(v) : o = [text |-> t]
    BY <1>2 DEF Converted
  <2>2. t \in Texts
    BY <1>1, TextOfTyped
  <2> QED
    BY <2>1, <2>2 DEF Objects
<1>3. CASE k # "text" /\ Is(v, "text")
  <2>1. o \in FromText(v.text, to) /\ v.text \in Texts
    BY <1>1, <1>3, HeldKinds DEF Converted
  <2> QED
    BY <1>0, <2>1, FromTextTyped
<1>4. CASE k # "text" /\ ~Is(v, "text") /\ Is(v, "int")
  <2>1. v.int \in Int
    BY <1>1, <1>4, HeldKinds
  <2>2. o \in IntConverted(v.int, to)
    BY <1>4 DEF Converted
  <2>3. CASE k = "int"
    <3>1. o = [int |-> Narrow(v.int, IntTypeOf(to.ctype))]
      BY <2>2, <2>3 DEF IntConverted
    <3>2. Narrow(v.int, IntTypeOf(to.ctype)) \in IntsOf(to)
      BY <2>1, IntTypeIs, NarrowIs DEF IntsOf
    <3> QED
      BY <3>1, <3>2 DEF Objects
  <2>4. CASE k = "float"
    <3>1. o = [float |-> v.int * UnitsPerOne]
      BY <2>2, <2>4 DEF IntConverted
    <3>2. v.int * UnitsPerOne \in Int
      BY <2>1, UnitsAre
    <3> QED
      BY <3>1, <3>2 DEF Objects
  <2>5. CASE k # "int" /\ k # "float"
    <3>1. o \in FromText(IntText(v.int), to)
      BY <2>2, <2>5 DEF IntConverted
    <3>2. IntText(v.int) \in Texts
      BY <2>1, IntTextSays, SaysText
    <3> QED
      BY <1>0, <3>1, <3>2, FromTextTyped
  <2> QED
    BY <2>3, <2>4, <2>5
<1>5. CASE k # "text" /\ ~Is(v, "text") /\ ~Is(v, "int") /\ Is(v, "float")
  <2>1. v.float \in Int
    BY <1>1, <1>5, HeldKinds
  <2>2. o \in FloatConverted(v.float, to)
    BY <1>5 DEF Converted
  <2>3. CASE k = "int"
    <3>1. PICK i \in FloatAsInt(v.float, IntTypeOf(to.ctype)) : o = [int |-> i]
      BY <2>2, <2>3 DEF FloatConverted
    <3>2. i \in IntsOf(to)
      BY <3>1 DEF FloatAsInt, IntsOf
    <3> QED
      BY <3>1, <3>2 DEF Objects
  <2>4. CASE k = "float"
    BY <2>1, <2>2, <2>4 DEF FloatConverted, Objects
  <2>5. CASE k # "int" /\ k # "float"
    <3>1. o \in FromText(FloatText(v.float), to)
      BY <2>2, <2>5 DEF FloatConverted
    <3>2. FloatText(v.float) \in Texts
      BY <2>1, FloatTextSays, SaysText
    <3> QED
      BY <1>0, <3>1, <3>2, FromTextTyped
  <2> QED
    BY <2>3, <2>4, <2>5
<1>6. CASE k # "text" /\ ~Is(v, "text") /\ ~Is(v, "int") /\ ~Is(v, "float") /\ Is(v, "decimal")
  <2>1. v.decimal \in Decimals
    BY <1>1, <1>6, HeldKinds
  <2>2. o \in DecimalConverted(v.decimal, to)
    BY <1>6 DEF Converted
  <2>3. PICK n \in NumericFromDecimal(v.decimal, to.precision, to.scale) : o = [numeric |-> n]
    BY <2>2 DEF DecimalConverted
  <2>4. n \in Numerics /\ n.scale <= n.precision
    BY <1>0, <2>1, NumericFromDecimalIs
  <2> QED
    BY <2>3, <2>4 DEF Objects
<1>7. CASE k # "text" /\ ~Is(v, "text") /\ ~Is(v, "int") /\ ~Is(v, "float") /\ ~Is(v, "decimal")
  <2>1. o = v
    BY <1>7 DEF Converted, When
  <2>2. v \in [guid : STRING] \/ v \in [day : Int] \/ v \in [timestamp : Moments]
    BY <1>7 DEF Unwrapped, Is
  <2> QED
    BY <2>1, <2>2 DEF Objects
<1> QED
  BY <1>2, <1>3, <1>4, <1>5, <1>6, <1>7
-----------------------------------------------------------------------------
(* The cells that a value leaves *)

LEMMA ClearedFields ==
  ASSUME NEW to
  PROVE  /\ DOMAIN Cleared(to) =
              {"ret", "got", "size", "indicator", "touched", "stored", "ended"}
         /\ Cleared(to).got = Nothing /\ Cleared(to).ret = "error"
<1> DEFINE i == IF to.indicator = "own" THEN 0 ELSE NoPtr
<1>1. Cleared(to) = [Untouched EXCEPT !.indicator = i]
  BY DEF Cleared
<1> HIDE DEF i
<1>2. /\ DOMAIN Untouched = {"ret", "got", "size", "indicator", "touched", "stored", "ended"}
      /\ Untouched.got = Nothing /\ Untouched.ret = "error"
  BY DEF Untouched
<1> QED
  BY <1>1, <1>2

LEMMA NothingIsNoObject ==
  /\ \A k : Is(Nothing, k) => k = "null"
  /\ \A t : [text |-> t] # Nothing
BY DEF Nothing, Is

\* What a text leaves in a buffer, whether or not it is written.
LEMMA FilledString ==
  ASSUME NEW text, NEW to, NEW c, c = FillString(text, to)
  PROVE  \/ c = Cleared(to)
         \/ c.ret \in {"success", "info"} /\ c.got = [text |-> text]
<1>1. CASE to.ptr /\ to.room % UnitOf(to.ctype) # 0
  BY <1>1 DEF FillString
<1>2. CASE ~(to.ptr /\ to.room % UnitOf(to.ctype) # 0)
  BY <1>2, ClearedFields DEF FillString
<1> QED
  BY <1>1, <1>2

LEMMA FilledPOD ==
  ASSUME NEW v, NEW to, NEW c, c = FillPOD(v, to)
  PROVE  c.ret = "success" /\ c.got = IF to.ptr THEN v ELSE Nothing
BY ClearedFields DEF FillPOD

LEMMA FilledNULL ==
  ASSUME NEW to, NEW c, c = FillNULL(to)
  PROVE  c.ret \in {"success", "error"} /\ c.got = Nothing
<1>1. CASE to.indicator = "none"
  BY <1>1 DEF FillNULL, Untouched
<1>2. CASE to.indicator # "none"
  BY <1>2 DEF FillNULL, Untouched
<1> QED
  BY <1>1, <1>2

\* A cell has what the value was converted into, or nothing.
LEMMA WrittenIs ==
  ASSUME NEW v, NEW to, NEW c \in WriteData(v, to)
  PROVE  /\ c.ret \in {"success", "info", "error"}
         /\ \/ c.got = Nothing
            \/ /\ v # Nothing
               /\ \E u \in Unwired(v) : \E o \in Converted(u, to) :
                    c.got = IF Is(o, "text") THEN [text |-> o.text] ELSE o
<1>1. CASE v = Nothing
  <2>1. c = FillNULL(to)
    BY <1>1 DEF WriteData
  <2> QED
    BY <2>1, FilledNULL
<1>2. CASE v # Nothing
  <2>1. CASE c = Cleared(to)
    BY <2>1, ClearedFields
  <2>2. CASE c # Cleared(to)
    <3>1. PICK u \in Unwired(v) : \E o \in Converted(u, to) :
            c = IF Is(o, "text") THEN FillString(o.text, to) ELSE FillPOD(o, to)
      BY <1>2, <2>2 DEF WriteData
    <3>2. PICK o \in Converted(u, to) :
            c = IF Is(o, "text") THEN FillString(o.text, to) ELSE FillPOD(o, to)
      BY <3>1
    <3>3. CASE ~Is(o, "text")
      BY <1>2, <3>2, <3>3, FilledPOD
    <3>4. CASE Is(o, "text")
      <4>1. c.ret \in {"success", "info"} /\ c.got = [text |-> o.text]
        BY <2>2, <3>2, <3>4, FilledString
      <4> QED
        BY <1>2, <3>4, <4>1
    <3> QED
      BY <3>3, <3>4
  <2> QED
    BY <2>1, <2>2
<1> QED
  BY <1>1, <1>2

LEMMA ObjectKinds ==
  ASSUME NEW to, NEW o \in Objects(to)
  PROVE  /\ o # Nothing
         /\ Is(o, "text") => o \in [text : Texts]
         /\ Is(o, "int") => o \in [int : IntsOf(to)]
         /\ Is(o, "float") => o \in [float : Int]
         /\ Is(o, "numeric") => o \in [numeric : {n \in Numerics : n.scale <= n.precision}]
         /\ Is(o, "guid") => o \in [guid : STRING]
         /\ Is(o, "day") => o \in [day : Int]
         /\ Is(o, "second") => o \in [second : Int]
         /\ Is(o, "timestamp") => o \in [timestamp : Moments]
         /\ ~Is(o, "decimal")
<1>1. \A k : Is(Nothing, k) => k = "null"
  BY NothingIsNoObject
<1>2. ~Is(o, "null")
  BY DEF Objects, Is
<1>3. o # Nothing
  BY <1>2 DEF Is, Nothing
<1> QED
  BY <1>3 DEF Objects, Is

LEMMA WrittenTyped ==
  ASSUME NEW v \in Fields, NEW to \in Targets, NEW c \in WriteData(v, to)
  PROVE  c.ret \in {"success", "info", "error"} /\ (c.got = Nothing \/ c.got \in Objects(to))
<1>1. c.ret \in {"success", "info", "error"}
  BY WrittenIs
<1>2. ASSUME c.got # Nothing PROVE c.got \in Objects(to)
  <2>1. v # Nothing
    BY <1>2, WrittenIs
  <2>2. PICK u \in Unwired(v) : \E o \in Converted(u, to) :
          c.got = IF Is(o, "text") THEN [text |-> o.text] ELSE o
    BY <1>2, WrittenIs
  <2>3. PICK o \in Converted(u, to) : c.got = IF Is(o, "text") THEN [text |-> o.text] ELSE o
    BY <2>2
  <2>4. u \in Unwrapped
    BY <2>1, UnwiredTyped
  <2>5. o \in Objects(to)
    BY <2>4, ConvertedTyped
  <2>6. CASE Is(o, "text")
    <3>1. o \in [text : Texts]
      BY <2>5, <2>6, ObjectKinds
    <3>2. o = [text |-> o.text]
      BY <3>1
    <3> QED
      BY <2>3, <2>5, <2>6, <3>2
  <2>7. CASE ~Is(o, "text")
    BY <2>3, <2>5, <2>7
  <2> QED
    BY <2>6, <2>7
<1> QED
  BY <1>1, <1>2

-----------------------------------------------------------------------------
(* What a parameter is sent as, and what a server's column is read as *)

LEMMA LengthIs ==
  ASSUME NEW t \in Texts
  PROVE  LengthOf(t) \in Nat
<1>1. CASE Is(t, "units")
  BY <1>1, TextKinds DEF LengthOf
<1>2. CASE ~Is(t, "units") /\ Is(t, "digits")
  <2>1. t \in DigitTexts
    BY <1>2, TextKinds
  <2>2. Len(t.digits) \in Nat
    BY <2>1, TextValueIs
  <2>3. LengthOf(t) = Len(t.digits) + (IF t.minus THEN 1 ELSE 0) + (IF t.dot THEN 1 ELSE 0)
    BY <1>2, Zenon DEF LengthOf
  <2>4. \E x, y \in Nat : LengthOf(t) = Len(t.digits) + x + y
    <3>1. (IF t.minus THEN 1 ELSE 0) \in Nat /\ (IF t.dot THEN 1 ELSE 0) \in Nat
      OBVIOUS
    <3> QED
      BY <2>3, <3>1
  <2> QED
    BY <2>2, <2>4
<1>3. CASE ~Is(t, "units") /\ ~Is(t, "digits") /\ Is(t, "date")
  <2>1. t.fraction \in Seq(Digit)
    BY <1>3, TextKinds DEF MomentTexts
  <2>2. Len(t.fraction) \in Nat
    BY <2>1
  <2> QED
    BY <1>3, <2>2 DEF LengthOf
<1>4. CASE ~Is(t, "units") /\ ~Is(t, "digits") /\ ~Is(t, "date")
  BY <1>4 DEF LengthOf
<1> QED
  BY <1>1, <1>2, <1>3, <1>4

LEMMA CutTyped ==
  ASSUME NEW t \in Texts, NEW n \in Nat
  PROVE  Cut(t, n) \in Texts
BY DEF Cut, Word, Texts

LEMMA ParamKinds ==
  ASSUME NEW v \in ParamValues, v # Nothing
  PROVE  v \in Held /\ ~Is(v, "decimal")
<1>1. v \in Held
  BY DEF ParamValues, Held
<1>2. ~Is(v, "decimal")
  BY DEF ParamValues, Is
<1> QED
  BY <1>1, <1>2

LEMMA DescribedIs ==
  ASSUME NEW p \in Params, Is(p.value, "numeric")
  PROVE  /\ Described(p) \in Numerics /\ Described(p).val = p.value.numeric.val
         /\ Described(p).sign = p.value.numeric.sign
         /\ Described(p).precision = p.precision /\ Described(p).scale = p.scale
         /\ p.value.numeric \in Numerics
<1>1. p.value \in ParamValues /\ p.precision \in Nat /\ p.scale \in 0 .. MaxScale
  BY ParamsAssumption
<1>2. p.value # Nothing
  BY NothingIsNoObject
<1>3. p.value.numeric \in Numerics
  BY <1>1, <1>2, ParamKinds, HeldKinds
<1> QED
  BY <1>1, <1>3 DEF Described, Numerics

LEMMA ParameterTextTyped ==
  ASSUME NEW p \in Params, NEW t \in ParameterText(p)
  PROVE  t = Nothing \/ t \in Texts
<1>1. /\ p.value \in ParamValues /\ p.indicator \in Int /\ p.size \in Int
  BY ParamsAssumption
<1>2. CASE p.value = Nothing
  BY <1>2 DEF ParameterText
<1>3. CASE p.value # Nothing /\ t = EmptyText
  <2>1. EmptyText \in Texts
    <3>1. EmptyText = [minus |-> FALSE, digits |-> <<>>, dot |-> FALSE, right |-> 0]
      BY DEF EmptyText, NumberText
    <3>2. <<>> \in Seq(Digit) /\ 0 <= Len(<<>>) /\ 0 \in 0 .. MaxScale
      BY Bases
    <3> QED
      BY <3>1, <3>2 DEF Texts, DigitTexts
  <2> QED
    BY <1>3, <2>1
<1>4. CASE p.value # Nothing /\ t # EmptyText
  <2>1. t \in Buffered(p)
    BY <1>4 DEF ParameterText
  <2>2. p.value \in Held
    BY <1>1, <1>4, ParamKinds
  <2>3. CASE Is(p.value, "numeric")
    <3>1. [numeric |-> Described(p)] \in Held
      BY <2>3, DescribedIs DEF Held
    <3>2. t \in TextOf([numeric |-> Described(p)])
      BY <2>1, <2>3 DEF Buffered
    <3> QED
      BY <3>1, <3>2, TextOfTyped
  <2>4. CASE ~Is(p.value, "numeric") /\ ~Is(p.value, "text")
    <3>1. t \in TextOf(p.value)
      BY <2>1, <2>4 DEF Buffered
    <3> QED
      BY <2>2, <3>1, TextOfTyped
  <2>5. CASE ~Is(p.value, "numeric") /\ Is(p.value, "text")
    <3>1. p.value.text \in Texts
      BY <2>2, <2>5, HeldKinds
    <3>2. CASE t = p.value.text
      BY <3>1, <3>2
    <3>3. CASE t # p.value.text
      <4> DEFINE u == UnitOf(p.ctype)
                 n == p.size \div u
      <4>1. t = Cut(p.value.text, n) /\ p.size >= 0
        BY <1>1, <2>1, <2>5, <3>3 DEF Buffered
      <4>2. u \in Nat /\ u > 0
        BY DEF UnitOf
      <4> HIDE DEF u
      <4>3. n \in Nat
        <5>1. p.size \in Nat
          BY <1>1, <4>1
        <5> QED
          BY <4>2, <5>1, WholeParts
      <4> HIDE DEF n
      <4> QED
        BY <3>1, <4>1, <4>3, CutTyped
    <3> QED
      BY <3>2, <3>3
  <2> QED
    BY <2>3, <2>4, <2>5
<1> QED
  BY <1>2, <1>3, <1>4

\* The columns of a server, and those that it makes of a parameter.
ColumnsMet == [value : ColumnValues \cup [text : Texts], precision : 0 .. FractionDigits,
               format : Formats]

LEMMA ColumnKinds ==
  ASSUME NEW v \in ColumnValues \cup [text : Texts], v # Nothing
  PROVE  /\ Is(v, "text") => v \in [text : Texts]
         /\ Is(v, "int") => v \in [int : Int]
         /\ Is(v, "float") => v \in [float : Int]
         /\ Is(v, "decimal") => v \in [decimal : Decimals]
         /\ Is(v, "guid") => v \in [guid : STRING]
         /\ Is(v, "day") => v \in [day : Int]
         /\ Is(v, "ticks") => v \in [ticks : Int]
         /\ \/ Is(v, "text") \/ Is(v, "int") \/ Is(v, "float") \/ Is(v, "decimal")
            \/ Is(v, "guid") \/ Is(v, "day") \/ Is(v, "ticks")
         /\ ~Is(v, "ticks") => v \in Held
         /\ ~Is(v, "decimal") /\ ~Is(v, "day") /\ ~Is(v, "ticks") => v \in Fields
<1>1. v \in [text : Texts] \cup [int : Int] \cup [float : Int] \cup [decimal : Decimals]
            \cup [guid : STRING] \cup [day : Int] \cup [ticks : Int]
  BY DEF ColumnValues
<1>2. /\ Is(v, "text") => v \in [text : Texts]
      /\ Is(v, "int") => v \in [int : Int]
      /\ Is(v, "float") => v \in [float : Int]
      /\ Is(v, "decimal") => v \in [decimal : Decimals]
      /\ Is(v, "guid") => v \in [guid : STRING]
      /\ Is(v, "day") => v \in [day : Int]
      /\ Is(v, "ticks") => v \in [ticks : Int]
      /\ \/ Is(v, "text") \/ Is(v, "int") \/ Is(v, "float") \/ Is(v, "decimal")
         \/ Is(v, "guid") \/ Is(v, "day") \/ Is(v, "ticks")
  BY <1>1 DEF Is
<1> QED
  BY <1>2 DEF Held, Fields

\* The digits that a server prints of a decimal, and of a float.
LEMMA ServerDecimal ==
  ASSUME NEW c, Is(c.value, "decimal"), c.value.decimal \in Decimals
  PROVE  Says(ServerText(c), c.value.decimal.sign = 0, c.value.decimal.value, c.value.decimal.scale)
<1> DEFINE d == c.value.decimal
           n == IF Count(d.value, Base) > d.scale THEN Count(d.value, Base) ELSE d.scale + 1
<1>1. d.value \in Nat /\ d.scale \in Nat /\ d.scale <= MaxScale
  BY Bases DEF Decimals
<1>2. ServerText(c) = NumberText(d.sign = 0, DigitsOf(d.value, n, Base), d.scale > 0, d.scale)
  BY DEF ServerText
<1> HIDE DEF d
<1>3. n \in Nat /\ n > 0 /\ d.value < Power(Base, n) /\ d.scale \in 0 .. n
  BY <1>1, DigitsEnough
<1> HIDE DEF n
<1>4. (d.sign = 0) \in BOOLEAN /\ (d.scale > 0) \in BOOLEAN
  OBVIOUS
<1>5. Says(NumberText(d.sign = 0, DigitsOf(d.value, n, Base), d.scale > 0, d.scale),
           d.sign = 0, d.value, d.scale)
  BY <1>1, <1>3, <1>4, NumberTextSays
<1> QED
  BY <1>2, <1>5 DEF d

LEMMA ServerFloat ==
  ASSUME NEW c, ~Is(c.value, "decimal"), Is(c.value, "float"), c.value.float \in Int
  PROVE  Says(ServerText(c), c.value.float < 0, Magnitude(c.value.float), FloatDigits + 1)
<1> DEFINE x == c.value.float
           v == Magnitude(x)
           right == FloatDigits + 1
           n == IF Count(v, Base) > right THEN Count(v, Base) ELSE right + 1
<1>1. v \in Nat /\ right \in Nat /\ right <= MaxScale /\ FloatDigits + 2 = right + 1 /\ right > 0
  BY Bases DEF Magnitude
<1>2. ServerText(c) = NumberText(x < 0, DigitsOf(v, n, Base), TRUE, right)
  BY <1>1 DEF ServerText, Magnitude
<1> HIDE DEF x, v, right
<1>3. n \in Nat /\ n > 0 /\ v < Power(Base, n) /\ right \in 0 .. n
  BY <1>1, DigitsEnough
<1> HIDE DEF n
<1>4. (x < 0) \in BOOLEAN /\ TRUE \in BOOLEAN /\ TRUE = (right > 0)
  BY <1>1
<1>5. Says(NumberText(x < 0, DigitsOf(v, n, Base), TRUE, right), x < 0, v, right)
  BY <1>1, <1>3, <1>4, NumberTextSays
<1> QED
  BY <1>2, <1>5 DEF x, v, right

\* What the server's clock shows for some ticks.
ServerSeconds(c) == c.value.ticks \div Power(Base, c.precision) + Offset
ServerFraction(c) == DigitsOf(c.value.ticks % Power(Base, c.precision), c.precision, Base)

LEMMA ServerTicks ==
  ASSUME NEW c, Is(c.value, "ticks"), c.value \in [ticks : Int], c.precision \in 0 .. FractionDigits
  PROVE  /\ ServerText(c) = [date |-> ServerSeconds(c) \div DaySeconds,
                             time |-> ServerSeconds(c) % DaySeconds, fraction |-> ServerFraction(c)]
         /\ ServerText(c) \in MomentTexts
         /\ ServerSeconds(c) \in Int
         /\ ServerFraction(c) \in Seq(Digit) /\ Len(ServerFraction(c)) = c.precision
         /\ c.value.ticks % Power(Base, c.precision) \in 0 .. Power(Base, c.precision) - 1
<1> DEFINE p == Power(Base, c.precision)
           q == c.value.ticks \div p
           r == c.value.ticks % p
           s == q + Offset
           f == DigitsOf(r, c.precision, Base)
<1>1. c.value.ticks \in Int /\ c.precision \in Nat /\ c.precision <= FractionDigits
  BY Bases
<1>2. p \in Nat /\ p > 0
  BY <1>1, Bases, PowerPositive
<1>3. ServerText(c) = [date |-> s \div DaySeconds, time |-> s % DaySeconds, fraction |-> f]
  <2>1. ~Is(c.value, "decimal") /\ ~Is(c.value, "float")
    BY DEF Is
  <2> QED
    BY <2>1 DEF ServerText, MomentText
<1> HIDE DEF p
<1>4. q \in Int /\ r \in 0 .. p - 1
  <2>1. \E x \in Int, y \in 0 .. p - 1 : Divides(c.value.ticks, p, x, y)
    BY <1>1, <1>2, Division
  <2> QED
    BY <2>1 DEF Divides
<1> HIDE DEF q, r
<1>5. s \in Int
  BY <1>4, Bases
<1>6. f \in Seq(Digit) /\ Len(f) = c.precision
  <2>1. r \in Nat
    BY <1>2, <1>4
  <2> QED
    BY <1>1, <2>1, Bases, DigitsAre DEF Digit
<1> HIDE DEF s, f
<1>7. s \div DaySeconds \in Int /\ s % DaySeconds \in Nat
  <2>1. \E x \in Int, y \in 0 .. DaySeconds - 1 : Divides(s, DaySeconds, x, y)
    BY <1>5, Bases, Division
  <2> QED
    BY <2>1, Bases DEF Divides
<1>8. ServerText(c) \in MomentTexts
  BY <1>1, <1>3, <1>6, <1>7 DEF MomentTexts
<1>9. s = ServerSeconds(c) /\ f = ServerFraction(c)
  BY DEF s, f, q, r, p, ServerSeconds, ServerFraction
<1> QED
  BY <1>3, <1>4, <1>5, <1>6, <1>8, <1>9 DEF r, p

\* Other columns are printed as the driver prints such a value.
LEMMA ServerOther ==
  ASSUME NEW c, c.value \in ColumnValues \cup [text : Texts], c.value # Nothing,
         ~Is(c.value, "decimal"), ~Is(c.value, "float"), ~Is(c.value, "ticks")
  PROVE  ServerText(c) \in TextOf(c.value) /\ c.value \in Held
<1>1. ServerText(c) = CHOOSE t \in TextOf(c.value) : TRUE
  BY DEF ServerText
<1>2. TextOf(c.value) # {}
  <2>1. Is(c.value, "text") \/ Is(c.value, "int") \/ Is(c.value, "guid") \/ Is(c.value, "day")
    BY ColumnKinds
  <2>2. ~Is(c.value, "numeric")
    BY DEF ColumnValues, Is, Nothing
  <2> QED
    BY <2>1, <2>2 DEF TextOf
<1> QED
  BY <1>1, <1>2, ColumnKinds

LEMMA ServerTextTyped ==
  ASSUME NEW c \in ColumnsMet, c.value # Nothing
  PROVE  ServerText(c) \in Texts
<1>0. c.value \in ColumnValues \cup [text : Texts] /\ c.precision \in 0 .. FractionDigits
  BY DEF ColumnsMet
<1>1. CASE Is(c.value, "decimal")
  <2>1. c.value.decimal \in Decimals
    BY <1>0, <1>1, ColumnKinds
  <2> QED
    BY <1>1, <2>1, ServerDecimal, SaysText
<1>2. CASE ~Is(c.value, "decimal") /\ Is(c.value, "float")
  <2>1. c.value.float \in Int
    BY <1>0, <1>2, ColumnKinds
  <2> QED
    BY <1>2, <2>1, ServerFloat, SaysText
<1>3. CASE Is(c.value, "ticks")
  <2>1. c.value \in [ticks : Int]
    BY <1>0, <1>3, ColumnKinds
  <2> QED
    BY <1>0, <1>3, <2>1, ServerTicks DEF Texts
<1>4. CASE ~Is(c.value, "decimal") /\ ~Is(c.value, "float") /\ ~Is(c.value, "ticks")
  BY <1>0, <1>4, ServerOther, TextOfTyped
<1> QED
  BY <1>1, <1>2, <1>3, <1>4
-----------------------------------------------------------------------------
(* Lengths on the wire *)

LEMMA PowerOfPower ==
  ASSUME NEW b \in Nat, NEW m \in Nat, NEW n \in Nat
  PROVE  Power(Power(b, m), n) = Power(b, m * n)
<1> DEFINE c == Power(b, m)
           T == {k \in Nat : Power(c, k) = Power(b, m * k)}
<1>1. c \in Nat
  BY PowerNext
<1>2. 0 \in T
  <2>1. m * 0 = 0
    OBVIOUS
  <2>2. Power(c, 0) = 1 /\ Power(b, 0) = 1
    <3> HIDE DEF c
    <3> QED
      BY <1>1, PowerNext
  <2> QED
    BY <2>1, <2>2
<1>3. ASSUME NEW k \in Nat, k \in T PROVE k + 1 \in T
  <2>1. m * (k + 1) = m * k + m /\ m * k \in Nat
    OBVIOUS
  <2>2. Power(b, m * k + m) = Power(b, m * k) * c
    BY <2>1, PowerSum
  <2>3. Power(c, k) \in Nat /\ Power(c, k + 1) = c * Power(c, k)
    <3> HIDE DEF c
    <3> QED
      BY <1>1, PowerNext
  <2>4. Power(c, k) = Power(b, m * k)
    BY <1>3
  <2>5. ASSUME NEW x \in Nat, NEW y \in Nat PROVE x * y = y * x
    OBVIOUS
  <2> HIDE DEF c
  <2> QED
    BY <1>1, <2>1, <2>2, <2>3, <2>4, <2>5
<1> HIDE DEF T
<1>4. n \in T
  BY <1>2, <1>3, Induction
<1> QED
  BY <1>4 DEF T

Chunk == Power(2, GroupBits)
GroupsOf(n) == IF n = 0 THEN 1 ELSE Count(n, Chunk)

LEMMA ChunkIs ==
  /\ Chunk \in Nat /\ Chunk > 1
  /\ \A k \in Nat : Power(2, GroupBits * k) = Power(Chunk, k) /\ GroupBits * k \in Nat
<1>1. GroupBits \in Nat /\ GroupBits > 0 /\ 2 \in Nat /\ 2 > 1
  BY NumeralsAssumption
<1>2. Chunk \in Nat /\ Chunk > 1
  <2>1. Power(2, GroupBits) \in Nat /\ Power(2, GroupBits) > GroupBits
    BY <1>1, PowerLarge
  <2> QED
    BY <1>1, <2>1 DEF Chunk
<1>3. ASSUME NEW k \in Nat
      PROVE  Power(2, GroupBits * k) = Power(Chunk, k) /\ GroupBits * k \in Nat
  <2>1. GroupBits * k \in Nat
    BY <1>1, ProductIsNat
  <2> QED
    BY <1>1, <2>1, PowerOfPower DEF Chunk
<1> QED
  BY <1>2, <1>3

\* The groups of a length, from its lowest bits to its highest.
LEMMA SizeOnWireIs ==
  ASSUME NEW n \in Nat
  PROVE  /\ GroupsOf(n) \in Nat /\ GroupsOf(n) > 0 /\ n < Power(Chunk, GroupsOf(n))
         /\ SizeOnWire(n) \in Seq(0 .. Chunk - 1) /\ Len(SizeOnWire(n)) = GroupsOf(n)
         /\ \A i \in 1 .. GroupsOf(n) :
              SizeOnWire(n)[i] = (n \div Power(Chunk, i - 1)) % Chunk
<1> DEFINE m == GroupsOf(n)
           ds == DigitsOf(n, m, Chunk)
<1>1. m \in Nat /\ m > 0 /\ n < Power(Chunk, m)
  <2>1. CASE n = 0
    <3>1. 1 \in Nat /\ Power(Chunk, 1) > 1 /\ Power(Chunk, 1) \in Nat
      BY ChunkIs, PowerLarge
    <3> QED
      BY <2>1, <3>1 DEF GroupsOf
  <2>2. CASE n # 0
    <3>1. Count(n, Chunk) \in Nat /\ n < Power(Chunk, Count(n, Chunk))
      BY ChunkIs, CountIs
    <3>2. Count(n, Chunk) # 0
      BY <2>2, <3>1, ChunkIs, PowerNext
    <3> QED
      BY <2>2, <3>1, <3>2 DEF GroupsOf
  <2> QED
    BY <2>1, <2>2
<1>2. SizeOnWire(n) = Reverse(ds)
  BY DEF SizeOnWire, Chunk, GroupsOf
<1> HIDE DEF m
<1>3. /\ ds \in Seq(0 .. Chunk - 1) /\ Len(ds) = m
      /\ \A i \in 1 .. m : ds[i] = (n \div Power(Chunk, m - i)) % Chunk
  BY <1>1, ChunkIs, DigitsAre
<1> HIDE DEF ds
<1>4. Reverse(ds) \in Seq(0 .. Chunk - 1) /\ Len(Reverse(ds)) = m
  BY <1>3, Reversed
<1>5. ASSUME NEW i \in 1 .. m
      PROVE  Reverse(ds)[i] = (n \div Power(Chunk, i - 1)) % Chunk
  <2>1. (m - i) + 1 \in 1 .. m /\ m - ((m - i) + 1) = i - 1
    BY <1>1
  <2>2. Reverse(ds)[i] = ds[(m - i) + 1]
    BY <1>3 DEF Reverse
  <2> QED
    BY <1>3, <2>1, <2>2
<1> QED
  BY <1>1, <1>2, <1>4, <1>5 DEF m

\* A group that keeps all its bits when it is shifted into its place.
LEMMA NotCut ==
  ASSUME NEW g \in Nat, NEW p \in Nat, p > 0, NEW w \in Nat, w > 0, ((g * p) % w) \div p = g
  PROVE  (g * p) % w = g * p
<1> DEFINE x == g * p
           s == x % w
<1>1. x \in Nat
  OBVIOUS
<1> HIDE DEF x
<1>2. PICK q \in Int, r \in 0 .. w - 1 : Divides(x, w, q, r)
  BY <1>1, Division
<1>3. q >= 0 /\ s = r /\ x = w * q + r
  BY <1>1, <1>2, Division DEF Divides
<1>4. s \in Nat /\ s <= x
  <2>1. w * q >= 0 /\ w * q \in Int
    BY <1>2, <1>3
  <2> QED
    BY <1>1, <1>2, <1>3, <2>1
<1> HIDE DEF s
<1>5. p * g <= s
  <2>1. s \div p = g
    BY DEF s, x
  <2>2. p * (s \div p) <= s
    BY <1>4, Bounds
  <2> QED
    BY <2>1, <2>2
<1>6. p * g = x
  BY DEF x
<1>7. s = x
  BY <1>1, <1>4, <1>5, <1>6
<1> QED
  BY <1>7 DEF s, x

LEMMA ElementOf ==
  ASSUME NEW T, NEW s \in Seq(T), NEW i \in 1 .. Len(s)
  PROVE  s[i] \in T
OBVIOUS

\* A length on the wire, of however many groups of however many bits, is read by
\* readSize() as the server wrote it, or the value is refused: never as another one.
THEOREM LengthsReadAsWritten ==
  ASSUME NEW n \in Nat
  PROVE  ReadSize(SizeOnWire(n)) \subseteq {n}
<1> DEFINE groups == SizeOnWire(n)
           m == GroupsOf(n)
           Shift(i) == GroupBits * (i - 1)
           w == Power(2, SizeBits)
           Segment(i) == (groups[i] * Power(2, Shift(i))) % w
           Fits(i) == Segment(i) \div Power(2, Shift(i)) = groups[i] /\ Shift(i) <= ShiftMax - GroupBits
           Whole(g) == g = [i \in 0 .. Len(groups) |-> IF i = 0 THEN 0 ELSE g[i - 1] + Segment(i)]
           Low(k) == n - Power(Chunk, k) * (n \div Power(Chunk, k))
<1> SUFFICES ASSUME \A i \in DOMAIN groups : Fits(i) PROVE ReadSize(groups) = {n}
  BY DEF ReadSize
<1>1. /\ m \in Nat /\ m > 0 /\ n < Power(Chunk, m) /\ groups \in Seq(0 .. Chunk - 1)
      /\ Len(groups) = m
      /\ \A i \in 1 .. m : groups[i] = (n \div Power(Chunk, i - 1)) % Chunk
  BY SizeOnWireIs
<1>2. ASSUME NEW k \in Nat
      PROVE  Power(Chunk, k) \in Nat /\ Power(Chunk, k) > 0 /\ n \div Power(Chunk, k) \in Nat
  <2> DEFINE p == Power(Chunk, k)
  <2>1. p \in Nat /\ p > 0
    BY ChunkIs, PowerPositive
  <2> HIDE DEF p
  <2>2. n \div p \in Nat
    BY <2>1, WholeParts
  <2> QED
    BY <2>1, <2>2 DEF p
<1>3. w \in Nat /\ w > 0
  <2>1. SizeBits \in Nat /\ 2 \in Nat /\ 2 > 0
    BY NumeralsAssumption
  <2> QED
    BY <2>1, PowerPositive
<1>4. ASSUME NEW i \in 1 .. m
      PROVE  Segment(i) = groups[i] * Power(Chunk, i - 1)
  <2> DEFINE p == Power(2, Shift(i))
             x == groups[i]
  <2>1. i - 1 \in Nat /\ i \in DOMAIN groups
    BY <1>1
  <2>2. p = Power(Chunk, i - 1)
    BY <2>1, ChunkIs
  <2>3. p \in Nat /\ p > 0
    BY <1>2, <2>1, <2>2
  <2>4. x \in Nat
    <3>1. i \in 1 .. Len(groups)
      BY <1>1
    <3>2. groups[i] \in 0 .. Chunk - 1
      BY <1>1, <3>1, ElementOf
    <3> QED
      BY <3>2, ChunkIs
  <2>5. ((x * p) % w) \div p = x
    BY <2>1
  <2> HIDE DEF x, p, w
  <2>6. (x * p) % w = x * p
    BY <1>3, <2>3, <2>4, <2>5, NotCut
  <2> QED
    BY <2>2, <2>6 DEF x, p, w
<1>5. ASSUME NEW k \in 1 .. m
      PROVE  Low(k) = Low(k - 1) + groups[k] * Power(Chunk, k - 1)
  <2> DEFINE p == Power(Chunk, k - 1)
             q == n \div p
             x == groups[k]
  <2>1. k - 1 \in Nat /\ (k - 1) + 1 = k
    OBVIOUS
  <2>2. p \in Nat /\ p > 0 /\ q \in Nat
    BY <1>2, <2>1
  <2>3. Power(Chunk, k) = Chunk * p
    BY <2>1, ChunkIs, PowerNext
  <2>4. x = q % Chunk
    BY <1>1
  <2>5. Low(k - 1) = n - p * q
    OBVIOUS
  <2>6. Chunk * p = p * Chunk /\ Chunk \in Nat /\ Chunk > 0
    BY <2>2, ChunkIs
  <2>7. n \div (p * Chunk) = q \div Chunk
    <3> HIDE DEF p
    <3>1. (n \div p) \div Chunk = n \div (p * Chunk)
      BY <2>2, <2>6, QuotientTwice
    <3> QED
      BY <3>1
  <2>8. Low(k) = n - (p * Chunk) * (q \div Chunk)
    BY <2>3, <2>6, <2>7
  <2> HIDE DEF x, q, p, Low
  <2>9. PICK y \in Int, r \in 0 .. Chunk - 1 : Divides(q, Chunk, y, r)
    <3>1. q \in Int
      BY <2>2
    <3> QED
      BY <2>6, <3>1, Division
  <2>10. q = Chunk * y + x /\ y = q \div Chunk /\ x \in 0 .. Chunk - 1
    BY <2>4, <2>9 DEF Divides
  <2>11. p * q = (p * Chunk) * y + x * p
    BY <2>2, <2>6, <2>10
  <2>12. (p * Chunk) * y \in Int /\ x * p \in Int /\ p * q \in Int
    BY <2>2, <2>6, <2>10
  <2>13. Low(k) = n - (p * Chunk) * y
    BY <2>8, <2>10
  <2> QED
    BY <2>5, <2>11, <2>12, <2>13 DEF x, p
<1>6. Low(0) = 0 /\ Low(m) = n
  <2>1. Power(Chunk, 0) = 1 /\ n \div 1 = n
    BY ChunkIs, PowerNext
  <2>2. n \div Power(Chunk, m) = 0
    <3> DEFINE p == Power(Chunk, m)
    <3>1. p \in Nat /\ p > 0 /\ n < p
      BY <1>1, <1>2
    <3> HIDE DEF p
    <3>2. p * 0 <= n /\ n < p * 0 + p
      BY <3>1
    <3>3. n \div p = 0
      BY <3>1, <3>2, Quotient
    <3> QED
      BY <3>3 DEF p
  <2>3. Power(Chunk, m) * 0 = 0
    BY <1>1, <1>2
  <2> QED
    BY <2>1, <2>2, <2>3
<1> DEFINE f == [k \in 0 .. m |-> Low(k)]
<1>7. \A k \in 0 .. m : f[k] = Low(k)
  OBVIOUS
<1>8. Whole(f)
  <2>1. ASSUME NEW k \in 0 .. m PROVE Low(k) = IF k = 0 THEN 0 ELSE f[k - 1] + Segment(k)
    <3>1. CASE k = 0
      BY <1>6, <3>1
    <3>2. CASE k # 0
      <4>1. k \in 1 .. m /\ k - 1 \in 0 .. m
        BY <1>1, <3>2
      <4>2. f[k - 1] = Low(k - 1)
        BY <1>7, <4>1
      <4> HIDE DEF Low, f, Segment
      <4> QED
        BY <1>4, <1>5, <3>2, <4>1, <4>2
    <3> QED
      BY <3>1, <3>2
  <2> HIDE DEF Low, Segment, m
  <2>2. f = [k \in 0 .. m |-> IF k = 0 THEN 0 ELSE f[k - 1] + Segment(k)]
    BY <2>1
  <2> QED
    BY <1>1, <2>2
<1> HIDE DEF f
<1>9. PICK g : ReadSize(groups) = {g[Len(groups)]} /\ Whole(g)
  <2>1. \E g : ReadSize(groups) = {g[Len(groups)]} /\ Whole(g)
    BY <1>8, Zenon DEF ReadSize
  <2> QED
    BY <2>1
<1>10. Together(m, f, g)
  <2>1. ASSUME NEW k \in 0 .. m PROVE g[k] = IF k = 0 THEN 0 ELSE g[k - 1] + Segment(k)
    <3> HIDE DEF Segment, m
    <3> QED
      BY <1>1, <1>9
  <2>2. ASSUME NEW k \in 0 .. m PROVE f[k] = IF k = 0 THEN 0 ELSE f[k - 1] + Segment(k)
    <3> HIDE DEF Segment, m
    <3> QED
      BY <1>1, <1>8
  <2> HIDE DEF Segment, m
  <2>3. f[0] = 0 /\ g[0] = 0
    BY <1>1, <2>1, <2>2
  <2>4. ASSUME NEW k \in 1 .. m, f[k - 1] = g[k - 1] PROVE f[k] = g[k]
    <3>1. k \in 0 .. m /\ k # 0
      BY <1>1
    <3> QED
      BY <2>1, <2>2, <2>4, <3>1
  <2> QED
    BY <2>3, <2>4 DEF Together
<1>11. g[m] = n
  <2> HIDE DEF m
  <2>1. \A k \in 0 .. m : f[k] = g[k]
    BY <1>1, <1>10, SameValues
  <2>2. m \in 0 .. m
    BY <1>1
  <2>3. f[m] = Low(m)
    BY <1>7, <2>2
  <2> HIDE DEF Low
  <2> QED
    BY <1>6, <2>1, <2>2, <2>3
<1> QED
  BY <1>1, <1>9, <1>11

-----------------------------------------------------------------------------
(* Every value is in the range of its type *)

\* What RowBinary reads of a text is the text.
LEMMA ReadTexts ==
  ASSUME NEW c, c.value \in [text : Texts], NEW v \in ReadRowBinary(c)
  PROVE  v = c.value
<1> DEFINE t == c.value.text
<1>1. t \in Texts /\ c.value = [text |-> t] /\ c.value # Nothing /\ Is(c.value, "text")
  BY DEF Is, Nothing
<1>2. LengthOf(t) \in Nat
  BY <1>1, LengthIs
<1>3. PICK n \in ReadSize(SizeOnWire(LengthOf(t))) : v = [text |-> Cut(t, n)]
  BY <1>1 DEF ReadRowBinary
<1>4. n = LengthOf(t)
  <2> HIDE DEF t
  <2>1. ReadSize(SizeOnWire(LengthOf(t))) \subseteq {LengthOf(t)}
    BY <1>2, LengthsReadAsWritten
  <2> QED
    BY <1>3, <2>1
<1>5. Cut(t, n) = t
  BY <1>2, <1>4 DEF Cut
<1> QED
  BY <1>1, <1>3, <1>5

LEMMA ReadValueTyped ==
  ASSUME NEW c \in ColumnsMet, NEW v \in ReadValue(c)
  PROVE  v \in Fields
<1>0. c.value \in ColumnValues \cup [text : Texts] /\ c.precision \in 0 .. FractionDigits
  BY DEF ColumnsMet
<1>1. CASE c.value = Nothing
  <2>1. v = Nothing
    BY <1>1 DEF ReadValue, ReadODBCDriver2, ReadRowBinary
  <2> QED
    BY <2>1 DEF Fields
<1>2. CASE c.value # Nothing /\ c.format = "ODBCDriver2"
  <2>1. v = [text |-> ServerText(c)]
    BY <1>2 DEF ReadValue, ReadODBCDriver2
  <2> QED
    BY <1>2, <2>1, ServerTextTyped DEF Fields
<1>3. CASE c.value # Nothing /\ c.format # "ODBCDriver2"
  <2>1. v \in ReadRowBinary(c)
    BY <1>3 DEF ReadValue
  <2>2. CASE Is(c.value, "text")
    <3>1. c.value \in [text : Texts]
      BY <1>0, <1>3, <2>2, ColumnKinds
    <3>2. v = c.value
      BY <2>1, <3>1, ReadTexts
    <3> QED
      BY <3>1, <3>2 DEF Fields
  <2>3. CASE ~Is(c.value, "text") /\ Is(c.value, "decimal")
    <3>1. v = c.value
      BY <1>3, <2>1, <2>3 DEF ReadRowBinary, When
    <3>2. v \in [decimal : Decimals]
      BY <1>0, <1>3, <2>3, <3>1, ColumnKinds
    <3> QED
      BY <3>2 DEF Fields
  <2>4. CASE ~Is(c.value, "text") /\ ~Is(c.value, "decimal") /\ Is(c.value, "day")
    <3>1. v = [wireDate |-> c.value.day]
      BY <1>3, <2>1, <2>4 DEF ReadRowBinary
    <3>2. c.value.day \in Int
      BY <1>0, <1>3, <2>4, ColumnKinds
    <3> QED
      BY <3>1, <3>2 DEF Fields
  <2>5. CASE ~Is(c.value, "text") /\ ~Is(c.value, "decimal") /\ ~Is(c.value, "day") /\ Is(c.value, "ticks")
    <3>1. c.value.ticks \in Int
      BY <1>0, <1>3, <2>5, ColumnKinds
    <3>2. CASE c.precision = 0
      <4>1. v = [wireDateTime |-> c.value.ticks]
        BY <1>3, <2>1, <2>5, <3>2 DEF ReadRowBinary
      <4> QED
        BY <3>1, <4>1 DEF Fields
    <3>3. CASE c.precision # 0
      <4>1. v = [wireTicks |-> c.value.ticks, precision |-> c.precision]
        BY <1>3, <2>1, <2>5, <3>3 DEF ReadRowBinary
      <4> QED
        BY <1>0, <3>1, <4>1 DEF Fields
    <3> QED
      BY <3>2, <3>3
  <2>6. CASE ~Is(c.value, "text") /\ ~Is(c.value, "decimal") /\ ~Is(c.value, "day") /\ ~Is(c.value, "ticks")
    <3>1. v = c.value
      BY <1>3, <2>1, <2>6 DEF ReadRowBinary
    <3> QED
      BY <1>0, <1>3, <2>6, <3>1, ColumnKinds
  <2> QED
    BY <2>2, <2>3, <2>4, <2>5, <2>6
<1> QED
  BY <1>1, <1>2, <1>3

\* Where a value is, and what it is made of there.
Stages == {"idle", "sent", "answered", "read", "given", "failed"}
Typed ==
  /\ at \in Stages
  /\ param.text = Nothing \/ param.text \in Texts
  /\ at \in {"answered", "read", "given"} => column \in ColumnsMet
  /\ field \in Fields
  /\ at = "given" => target \in Targets /\ cell \in WriteData(field, target)
  /\ at # "given" => cell = Untouched

LEMMA StartsTyped == Init => Typed
<1>1. Nothing \in Fields
  BY DEF Fields
<1> QED
  BY <1>1 DEF Init, Typed, Stages, NoParam

LEMMA StaysTyped == Typed /\ [Next]_vars => Typed'
<1> SUFFICES ASSUME Typed, [Next]_vars PROVE Typed'
  OBVIOUS
<1> USE DEF Typed, Stages
<1>1. ASSUME NEW p \in Params, SendParameter(p) PROVE Typed'
  <2>1. PICK t \in ParameterText(p) : param' = [bound |-> p, text |-> t]
    BY <1>1 DEF SendParameter
  <2>2. param'.text = Nothing \/ param'.text \in Texts
    BY <2>1, ParameterTextTyped
  <2> QED
    BY <1>1, <2>2 DEF SendParameter
<1>2. ASSUME NEW p \in Params, RefuseParameter(p) PROVE Typed'
  <2>1. param'.text = Nothing
    BY <1>2 DEF RefuseParameter
  <2> QED
    BY <1>2, <2>1 DEF RefuseParameter
<1>3. ASSUME NEW f \in Formats, Echo(f) PROVE Typed'
  <2>1. (IF param.text = Nothing THEN Nothing ELSE [text |-> param.text])
          \in ColumnValues \cup [text : Texts]
    BY DEF ColumnValues
  <2>2. 0 \in 0 .. FractionDigits
    BY Bases
  <2>3. column' \in ColumnsMet
    BY <1>3, <2>1, <2>2 DEF Echo, ColumnsMet
  <2> QED
    BY <1>3, <2>3 DEF Echo
<1>4. ASSUME NEW k \in Columns, NEW f \in Formats, Answer(k, f) PROVE Typed'
  <2>1. k.value \in ColumnValues /\ k.precision \in 0 .. FractionDigits
    BY ColumnsAssumption
  <2>2. column' \in ColumnsMet
    BY <1>4, <2>1 DEF Answer, ColumnsMet
  <2> QED
    BY <1>4, <2>2 DEF Answer
<1>5. CASE Read
  <2>1. field' \in ReadValue(column) /\ column \in ColumnsMet
    BY <1>5 DEF Read
  <2>2. field' \in Fields
    BY <2>1, ReadValueTyped
  <2> QED
    BY <1>5, <2>2 DEF Read
<1>6. CASE ReadFails
  BY <1>6 DEF ReadFails
<1>7. ASSUME NEW to \in Targets, Extract(to) PROVE Typed'
  BY <1>7 DEF Extract
<1>8. CASE UNCHANGED vars
  BY <1>8 DEF vars
<1> QED
  BY <1>1, <1>2, <1>3, <1>4, <1>5, <1>6, <1>7, <1>8 DEF Next

LEMMA AlwaysTyped == Spec => []Typed
<1>1. Init => Typed
  BY StartsTyped
<1>2. Typed /\ [Next]_vars => Typed'
  BY StaysTyped
<1> QED
  BY <1>1, <1>2, PTL DEF Spec

\* A cell has a value of the type of its buffer.
LEMMA CellTyped ==
  ASSUME Typed
  PROVE  /\ cell.ret \in {"success", "info", "error"}
         /\ cell.got = Nothing \/ (at = "given" /\ target \in Targets /\ cell.got \in Objects(target))
<1>1. CASE at = "given"
  BY <1>1, WrittenTyped DEF Typed
<1>2. CASE at # "given"
  <2>1. cell = Untouched
    BY <1>2 DEF Typed
  <2> QED
    BY <2>1 DEF Untouched
<1> QED
  BY <1>1, <1>2

\* Every value is in the range of its type, in memory and in the buffer, whatever
\* the widths, bases and scales: an integer that is narrowed, a NUMERIC that is
\* rescaled into its bytes, the fraction of a moment from any number of digits
\* (type_info.h).
THEOREM ValuesFitTheirTypes == Spec => []TypeOK
<1>1. Typed => TypeOK
  <2> SUFFICES ASSUME Typed PROVE TypeOK
    OBVIOUS
  <2>1. at \in {"idle", "sent", "answered", "read", "given", "failed"}
    BY DEF Typed, Stages
  <2>2. DOMAIN field \subseteq FieldKinds /\ (Is(field, "decimal") => field.decimal \in Decimals)
    <3>1. field \in Fields
      BY DEF Typed
    <3> QED
      BY <3>1 DEF Fields, FieldKinds, Is, Nothing
  <2>3. cell.ret \in {"success", "info", "error"}
    BY CellTyped
  <2>4. CASE cell.got = Nothing
    <3>1. ~Is(cell.got, "int") /\ ~Is(cell.got, "numeric") /\ ~Is(cell.got, "timestamp")
            /\ ~Is(cell.got, "text")
      BY <2>4, NothingIsNoObject
    <3> QED
      BY <2>1, <2>2, <2>3, <3>1 DEF TypeOK
  <2>5. CASE cell.got # Nothing
    <3>1. target \in Targets /\ cell.got \in Objects(target)
      BY <2>5, CellTyped
    <3>2. Is(cell.got, "int") =>
            cell.got.int \in LowestOf(IntTypeOf(target.ctype)) .. HighestOf(IntTypeOf(target.ctype))
      BY <3>1, ObjectKinds DEF IntsOf
    <3>3. Is(cell.got, "numeric") =>
            /\ cell.got.numeric.val \in [1 .. ValBytes -> 0 .. ByteBase - 1]
            /\ cell.got.numeric.scale <= cell.got.numeric.precision
      <4> SUFFICES ASSUME Is(cell.got, "numeric")
                   PROVE  /\ cell.got.numeric.val \in [1 .. ValBytes -> 0 .. ByteBase - 1]
                          /\ cell.got.numeric.scale <= cell.got.numeric.precision
        OBVIOUS
      <4>1. cell.got.numeric \in Numerics /\ cell.got.numeric.scale <= cell.got.numeric.precision
        BY <3>1, ObjectKinds
      <4> QED
        BY <4>1 DEF Numerics
    <3>4. Is(cell.got, "timestamp") =>
            cell.got.timestamp.fraction \in 0 .. Power(Base, FractionDigits) - 1
      <4>1. Is(cell.got, "timestamp") => cell.got.timestamp \in Moments
        BY <3>1, ObjectKinds
      <4> QED
        BY <4>1 DEF Moments
    <3>5. Is(cell.got, "text") => LengthOf(cell.got.text) \in Nat
      <4>1. Is(cell.got, "text") => cell.got.text \in Texts
        BY <3>1, ObjectKinds
      <4> QED
        BY <4>1, LengthIs
    <3> QED
      BY <2>1, <2>2, <2>3, <3>2, <3>3, <3>4, <3>5 DEF TypeOK
  <2> QED
    BY <2>4, <2>5
<1> QED
  BY <1>1, AlwaysTyped, PTL

-----------------------------------------------------------------------------
(* Texts in buffers *)

\* What fillOutputString() promises of the cell it leaves.
Honest(text, to, c) ==
    LET n == LengthOf(text)
    IN  /\ c.size = n * UnitOf(to.ctype)
        /\ c.touched <= to.room
        /\ to.ptr /\ to.room > 0 => c.ended
        /\ c.ret = "success" /\ to.ptr => c.stored = n
        /\ c.ret = "info" /\ to.ptr => c.stored < n \/ ~c.ended

\* A unit of the buffer is one byte or two, and whole units fit.
LEMMA Units ==
    ASSUME NEW to \in Targets, NEW n \in Nat, to.ptr => to.room % UnitOf(to.ctype) = 0
    PROVE  /\ UnitOf(to.ctype) \in {1, 2}
           /\ to.room \in Nat /\ to.ptr \in BOOLEAN
           /\ to.room \div UnitOf(to.ctype) \in Nat
           /\ to.ptr => to.room = (to.room \div UnitOf(to.ctype)) * UnitOf(to.ctype)
<1>1. UnitOf(to.ctype) \in {1, 2}
    BY DEF UnitOf
<1>2. to.room \in Nat /\ to.ptr \in BOOLEAN
    BY TargetsAssumption
<1>3. CASE UnitOf(to.ctype) = 1
    BY <1>2, <1>3
<1>4. CASE UnitOf(to.ctype) = 2
    BY <1>2, <1>4
<1> QED
    BY <1>1, <1>3, <1>4

\* A text is cut at the room there is, terminated within it, and reported whole.
LEMMA FillStringIsHonest ==
    ASSUME NEW to \in Targets, NEW text, LengthOf(text) \in Nat,
           FillString(text, to).ret # "error"
    PROVE  Honest(text, to, FillString(text, to))
<1> DEFINE n == LengthOf(text)
           u == UnitOf(to.ctype)
           m == to.room \div u
           end == IF n < m THEN n ELSE m - 1
           copied == Least(n * u, to.room)
           c == FillString(text, to)
<1>1. ~(to.ptr /\ to.room % u # 0)
    BY ClearedFields DEF FillString
<1>2. /\ u \in {1, 2} /\ to.room \in Nat /\ to.ptr \in BOOLEAN /\ m \in Nat
      /\ to.ptr => to.room = m * u
  <2>1. to.ptr => to.room % u = 0
    BY <1>1
  <2> QED
    BY <2>1, Units
<1>3. c = [Cleared(to) EXCEPT
             !.ret = IF n + 1 > m THEN "info" ELSE "success",
             !.got = [text |-> text], !.size = n * u,
             !.ended = to.ptr /\ m > 0,
             !.stored = IF to.ptr /\ m > 0 THEN end ELSE 0,
             !.touched = IF ~to.ptr THEN 0
                         ELSE IF copied > (end + 1) * u THEN copied ELSE (end + 1) * u]
    BY <1>1 DEF FillString
<1>4. /\ c.ret = IF n + 1 > m THEN "info" ELSE "success"
      /\ c.size = n * u
      /\ c.ended = (to.ptr /\ m > 0)
      /\ c.stored = IF to.ptr /\ m > 0 THEN end ELSE 0
      /\ c.touched = IF ~to.ptr THEN 0
                     ELSE IF copied > (end + 1) * u THEN copied ELSE (end + 1) * u
  <2> HIDE DEF c, n, u, m, end, copied
  <2> QED
    BY <1>3, ClearedFields
<1>5. to.ptr => /\ (IF copied > (end + 1) * u THEN copied ELSE (end + 1) * u) <= to.room
                /\ to.room > 0 => m > 0
                /\ n + 1 <= m => end = n /\ m > 0
                /\ n + 1 > m /\ m > 0 => end < n
  <2> SUFFICES ASSUME to.ptr
               PROVE  /\ (IF copied > (end + 1) * u THEN copied ELSE (end + 1) * u) <= to.room
                      /\ to.room > 0 => m > 0
                      /\ n + 1 <= m => end = n /\ m > 0
                      /\ n + 1 > m /\ m > 0 => end < n
    OBVIOUS
  <2>1. n \in Nat /\ m \in Nat /\ u \in {1, 2} /\ to.room \in Nat /\ to.room = m * u
    BY <1>2
  <2> HIDE DEF n, m, u
  <2>2. CASE u = 1
    BY <2>1, <2>2 DEF Least
  <2>3. CASE u = 2
    BY <2>1, <2>3 DEF Least
  <2> QED
    BY <2>1, <2>2, <2>3
<1>6. n \in Nat /\ 0 <= to.room
    BY <1>2
<1> HIDE DEF c, n, u, m, end, copied
<1>7. CASE ~to.ptr
    BY <1>2, <1>4, <1>6, <1>7 DEF Honest, n, u, c
<1>8. CASE to.ptr
  <2>1. c.touched <= to.room
    BY <1>4, <1>5, <1>8
  <2>2. to.room > 0 => c.ended
    BY <1>4, <1>5, <1>8
  <2>3. c.ret = "success" => c.stored = n
    BY <1>2, <1>4, <1>5, <1>6, <1>8
  <2>4. c.ret = "info" => c.stored < n \/ ~c.ended
    BY <1>2, <1>4, <1>5, <1>6, <1>8
  <2> QED
    BY <1>4, <1>8, <2>1, <2>2, <2>3, <2>4 DEF Honest, n, u, c
<1> QED
    BY <1>2, <1>7, <1>8

\* A cell that a value leaves has a text only if fillOutputString() wrote it.
LEMMA TextIsFilled ==
    ASSUME NEW v, NEW to, NEW c \in WriteData(v, to), Is(c.got, "text"), c.ret # "error"
    PROVE  c = FillString(c.got.text, to)
<1>1. ~Is(Nothing, "text")
    BY DEF Is, Nothing
<1>2. c # FillNULL(to)
  <2>1. FillNULL(to).got = Nothing
    <3>1. CASE to.indicator = "none"
        BY <3>1 DEF FillNULL, Untouched
    <3>2. CASE to.indicator # "none"
        BY <3>2 DEF FillNULL, Untouched
    <3> QED
        BY <3>1, <3>2
  <2> QED
    BY <1>1, <2>1
<1>3. c # Cleared(to)
    BY <1>1, ClearedFields
<1>4. PICK o : c = IF Is(o, "text") THEN FillString(o.text, to) ELSE FillPOD(o, to)
    BY <1>2, <1>3 DEF WriteData
<1>5. CASE Is(o, "text")
  <2>1. c = FillString(o.text, to)
    BY <1>4, <1>5
  <2>2. FillString(o.text, to) # Cleared(to)
    BY <2>1, <1>3
  <2>3. c.got = [text |-> o.text]
    BY <2>1, <2>2, ClearedFields DEF FillString
  <2> QED
    BY <2>1, <2>3
<1>6. CASE ~Is(o, "text")
  <2>1. c.got = IF to.ptr THEN o ELSE Nothing
    BY <1>4, <1>6, ClearedFields DEF FillPOD
  <2> QED
    BY <1>1, <1>6, <2>1
<1> QED
    BY <1>5, <1>6

\* However large the buffer and however long the text, in narrow or wide
\* characters: a text buffer tells when it is cut, is terminated, is not
\* overrun, and reports the length of all of the text (fillOutputString()).
THEOREM TextBuffersStayHonest == Spec => []TextBufferHonest
<1>1. Typed => TextBufferHonest
  <2> SUFFICES ASSUME Typed, at = "given", Is(cell.got, "text"), cell.ret # "error"
               PROVE  Honest(cell.got.text, target, cell)
    BY DEF TextBufferHonest, Honest
  <2>1. target \in Targets /\ cell \in WriteData(field, target)
    BY DEF Typed
  <2>2. cell = FillString(cell.got.text, target)
    BY <2>1, TextIsFilled
  <2>3. FillString(cell.got.text, target).ret # "error"
    BY <2>2
  <2>4. LengthOf(cell.got.text) \in Nat
    <3>1. cell.got # Nothing
      BY NothingIsNoObject
    <3>2. cell.got \in Objects(target)
      BY <3>1, CellTyped
    <3>3. cell.got.text \in Texts
      BY <3>2, ObjectKinds
    <3> QED
      BY <3>3, LengthIs
  <2>5. Honest(cell.got.text, target, FillString(cell.got.text, target))
    BY <2>1, <2>3, <2>4, FillStringIsHonest
  <2> QED
    BY <2>2, <2>5
<1> QED
  BY <1>1, AlwaysTyped, PTL
-----------------------------------------------------------------------------
(* What numbers amount to *)

Signed(minus, n) == IF minus THEN -n ELSE n

\* How many units the last of some digits right of the dot is worth.
Place(scale) == Power(Base, MaxScale - scale)

LEMMA PlaceIs ==
  ASSUME NEW s \in 0 .. MaxScale
  PROVE  Place(s) \in Nat /\ Place(s) > 0
<1>1. MaxScale - s \in Nat
  BY Bases
<1> QED
  BY <1>1, Bases, PowerPositive DEF Place

\* A place is worth as many of a smaller one as there are digits between them.
LEMMA PlaceSplits ==
  ASSUME NEW s \in 0 .. MaxScale, NEW r \in s .. MaxScale
  PROVE  /\ Place(s) = Power(Base, r - s) * Place(r)
         /\ Power(Base, r - s) \in Nat /\ Power(Base, r - s) > 0 /\ Place(r) <= Place(s)
<1>1. r - s \in Nat /\ MaxScale - r \in Nat /\ (r - s) + (MaxScale - r) = MaxScale - s
  BY Bases
<1> DEFINE m == r - s
           n == MaxScale - r
<1>2. m \in Nat /\ n \in Nat /\ m + n = MaxScale - s
  BY <1>1
<1> HIDE DEF m, n
<1>3. Power(Base, m + n) = Power(Base, m) * Power(Base, n)
  BY <1>2, Bases, PowerSum
<1>4. Power(Base, m) \in Nat /\ Power(Base, m) > 0 /\ Power(Base, n) \in Nat
  BY <1>2, Bases, PowerPositive
<1>5. ASSUME NEW x \in Nat, NEW y \in Nat, x > 0 PROVE y <= x * y
  BY <1>5
<1>6. Place(s) = Power(Base, m) * Place(r) /\ Place(r) = Power(Base, n)
  BY <1>2, <1>3 DEF Place, n
<1> QED
  BY <1>4, <1>5, <1>6 DEF m

LEMMA SignedIs ==
  ASSUME NEW minus \in BOOLEAN, NEW n \in Int
  PROVE  Signed(minus, n) \in Int
BY DEF Signed

\* Nearer than some loss, or not different at all.
Near(diff, loss) == diff = 0 \/ (diff < loss /\ -diff < loss)

LEMMA NearBoth ==
  ASSUME NEW x \in Int, NEW y \in Int, NEW a \in Nat, NEW b \in Nat, Near(x, a), Near(y, b)
  PROVE  Near(x + y, a + b)
BY DEF Near

LEMMA NearEnough ==
  ASSUME NEW x \in Int, NEW a \in Nat, NEW b \in Nat, a <= b, Near(x, a)
  PROVE  Near(x, b)
BY DEF Near

LEMMA NearSigned ==
  ASSUME NEW minus \in BOOLEAN, NEW x \in Int, NEW y \in Int, NEW loss \in Nat, Near(x - y, loss)
  PROVE  Near(Signed(minus, x) - Signed(minus, y), loss)
BY DEF Near, Signed

LEMMA AmountOfInt ==
  ASSUME NEW v, Is(v, "int"), v.int \in Int
  PROVE  Amount(v) = v.int * Place(0) /\ Amount(v) \in Int
<1>1. Place(0) \in Nat
  BY Bases, PlaceIs
<1>2. Amount(v) = v.int * Place(0)
  BY DEF Amount, Place
<1> QED
  BY <1>1, <1>2

LEMMA AmountOfFloat ==
  ASSUME NEW v, ~Is(v, "int"), Is(v, "float"), v.float \in Int
  PROVE  Amount(v) = v.float * Place(FloatDigits + 1) /\ Amount(v) \in Int
<1>1. Place(FloatDigits + 1) \in Nat
  <2>1. FloatDigits + 1 \in 0 .. MaxScale
    BY Bases
  <2> QED
    BY <2>1, PlaceIs
<1>2. Amount(v) = v.float * Place(FloatDigits + 1)
  BY DEF Amount, Place
<1> HIDE DEF Place
<1> QED
  BY <1>1, <1>2

LEMMA AmountOfText ==
  ASSUME NEW v, ~Is(v, "int"), ~Is(v, "float"), Is(v, "text"), v.text \in DigitTexts
  PROVE  /\ Amount(v) = Signed(v.text.minus, TextValue(v.text) * Place(v.text.right))
         /\ TextValue(v.text) * Place(v.text.right) \in Nat /\ Amount(v) \in Int
<1> DEFINE t == v.text
<1>1. /\ TextValue(t) \in Nat /\ t.right \in 0 .. MaxScale /\ t.minus \in BOOLEAN
      /\ Accumulate(t.digits, Base, Power(Base, Len(t.digits))) = TextValue(t)
  BY TextValueIs, Bases
<1>2. Place(t.right) \in Nat
  BY <1>1, PlaceIs
<1>3. Amount(v) = Signed(t.minus, TextValue(t) * Place(t.right))
  BY <1>1 DEF Amount, Place, Signed
<1> HIDE DEF t
<1>4. TextValue(t) * Place(t.right) \in Nat
  BY <1>1, <1>2, ProductIsNat
<1> QED
  BY <1>1, <1>3, <1>4, SignedIs DEF t

LEMMA AmountOfDecimal ==
  ASSUME NEW v, ~Is(v, "int"), ~Is(v, "float"), ~Is(v, "text"), Is(v, "decimal"),
         v.decimal \in Decimals
  PROVE  /\ Amount(v) = Signed(v.decimal.sign = 0, v.decimal.value * Place(v.decimal.scale))
         /\ v.decimal.value * Place(v.decimal.scale) \in Nat /\ Amount(v) \in Int
<1> DEFINE d == v.decimal
<1>1. d.value \in Nat /\ d.scale \in 0 .. MaxScale
  BY DEF Decimals
<1>2. Place(d.scale) \in Nat
  BY <1>1, PlaceIs
<1>3. Amount(v) = Signed(d.sign = 0, d.value * Place(d.scale))
  BY DEF Amount, Place, Signed
<1> HIDE DEF d
<1>4. d.value * Place(d.scale) \in Nat
  BY <1>1, <1>2, ProductIsNat
<1>5. Signed(d.sign = 0, d.value * Place(d.scale)) \in Int
  BY <1>4 DEF Signed
<1> QED
  BY <1>3, <1>4, <1>5 DEF d

LEMMA AmountOfNumeric ==
  ASSUME NEW v, ~Is(v, "int"), ~Is(v, "float"), ~Is(v, "text"), ~Is(v, "decimal"),
         v.numeric \in Numerics
  PROVE  /\ Amount(v) = Signed(v.numeric.sign = 0, NumericValue(v.numeric) * Place(v.numeric.scale))
         /\ NumericValue(v.numeric) * Place(v.numeric.scale) \in Nat /\ Amount(v) \in Int
<1> DEFINE n == v.numeric
           max == Power(ByteBase, ValBytes)
<1>1. n.val \in ValSet /\ n.scale \in 0 .. MaxScale
  BY DEF Numerics, ValSet
<1>2. Place(n.scale) \in Nat
  BY <1>1, PlaceIs
<1>3. Amount(v) = Signed(n.sign = 0, Accumulate(Reverse(n.val), ByteBase, max) * Place(n.scale))
  BY DEF Amount, Place, Signed
<1>4. max \in Nat
  BY Bases, PowerNext
<1> HIDE DEF n, max
<1>5. /\ NumericValue(n) \in Nat /\ NumericValue(n) < max
      /\ Accumulate(Reverse(n.val), ByteBase, max) = UpTo(NumericValue(n), max)
  BY <1>1, <1>4, NumericValueIs DEF max
<1>6. Accumulate(Reverse(n.val), ByteBase, max) = NumericValue(n)
  BY <1>4, <1>5 DEF UpTo
<1>7. NumericValue(n) * Place(n.scale) \in Nat
  BY <1>2, <1>5, ProductIsNat
<1>8. Signed(n.sign = 0, NumericValue(n) * Place(n.scale)) \in Int
  BY <1>7 DEF Signed
<1> QED
  BY <1>3, <1>6, <1>7, <1>8 DEF n

-----------------------------------------------------------------------------
(* What a conversion loses *)

LEMMA Associative ==
  ASSUME NEW x \in Int, NEW y \in Int, NEW z \in Int
  PROVE  (x * y) * z = x * (y * z) /\ x * y = y * x /\ x * y \in Int
OBVIOUS

LEMMA Distributive ==
  ASSUME NEW x \in Int, NEW y \in Int, NEW z \in Int
  PROVE  (x + y) * z = x * z + y * z /\ (x - y) * z = x * z - y * z
OBVIOUS

\* Cutting v to w places of p each, of units that are worth q.
LEMMA CutOff ==
  ASSUME NEW v \in Nat, NEW p \in Nat, NEW q \in Nat, q > 0, NEW w \in Nat,
         p * w <= v, v < p * w + p
  PROVE  Near(v * q - w * (p * q), p * q) /\ v * q - w * (p * q) \in Nat
<1> DEFINE x == p * w
           e == v - x
<1>1. x \in Nat /\ e \in Nat /\ e + 1 <= p /\ v = x + e
  BY ProductIsNat
<1>2. w * (p * q) = x * q
  <2>1. (w * p) * q = w * (p * q) /\ w * p = p * w
    BY Associative
  <2> QED
    BY <2>1
<1> HIDE DEF x, e
<1>3. v * q = x * q + e * q
  BY <1>1, Distributive
<1>4. e * q \in Nat /\ x * q \in Nat /\ p * q \in Nat
  BY <1>1, ProductIsNat
<1>5. e * q + q <= p * q
  <2>1. (e + 1) * q <= p * q
    BY <1>1
  <2>2. (e + 1) * q = e * q + q
    BY <1>1
  <2> QED
    BY <2>1, <2>2
<1>6. v * q - w * (p * q) = e * q
  BY <1>2, <1>3, <1>4
<1> QED
  BY <1>4, <1>5, <1>6 DEF Near

\* A scale that is too small costs less than its last digit.
LEMMA RescaledNear ==
  ASSUME NEW d \in Decimals, NEW s \in 0 .. MaxScale, NEW w \in Rescaled(d, s)
  PROVE  Near(d.value * Place(d.scale) - w * Place(s), Place(s))
<1> DEFINE v == d.value
           r == d.scale
<1>1. v \in Nat /\ r \in 0 .. MaxScale /\ s \in Nat
  BY Bases DEF Decimals
<1>2. /\ w \in Nat
      /\ r < s => w = v * Power(Base, s - r)
      /\ r >= s => w = v \div Power(Base, r - s)
  BY <1>1, RescaledIs, Bases
<1> HIDE DEF v, r
<1>3. CASE r < s
  <2> DEFINE p == Power(Base, s - r)
  <2>1. p \in Nat /\ Place(r) = p * Place(s) /\ Place(s) \in Nat
    BY <1>1, <1>3, PlaceSplits, PlaceIs, Bases
  <2>2. w = v * p
    BY <1>2, <1>3
  <2> HIDE DEF p
  <2>3. v * (p * Place(s)) = (v * p) * Place(s) /\ (v * p) * Place(s) \in Int
    BY <1>1, <2>1, Associative
  <2>4. v * Place(r) - w * Place(s) = 0
    BY <2>1, <2>2, <2>3
  <2> QED
    BY <2>4 DEF Near, v, r
<1>4. CASE r >= s
  <2> DEFINE p == Power(Base, r - s)
             q == Place(r)
  <2>1. p \in Nat /\ p > 0 /\ Place(s) = p * q /\ q \in Nat /\ q > 0
    BY <1>1, <1>4, PlaceSplits, PlaceIs, Bases
  <2>2. w = v \div p
    BY <1>2, <1>4
  <2> HIDE DEF p, q
  <2>3. p * w <= v /\ v < p * w + p
    BY <1>1, <2>1, <2>2, Bounds
  <2>4. Near(v * q - w * (p * q), p * q)
    BY <1>1, <1>2, <2>1, <2>3, CutOff
  <2> QED
    BY <2>1, <2>4 DEF v, r, q
<1> QED
  BY <1>1, <1>3, <1>4

LEMMA NumericNear ==
  ASSUME NEW v, v \in [decimal : Decimals], NEW precision \in Nat, NEW scale \in 0 .. MaxScale,
         NEW n \in NumericFromDecimal(v.decimal, precision, scale), NEW o, o = [numeric |-> n]
  PROVE  /\ Near(Amount(v) - Amount(o), Place(n.scale)) /\ Amount(o) \in Int
         /\ n.scale \in 0 .. MaxScale
<1> DEFINE d == v.decimal
           s == ScaleFor(d, precision, scale)
           x == d.value * Place(d.scale)
           y == NumericValue(n) * Place(n.scale)
<1>1. /\ n \in Numerics /\ n.sign = d.sign /\ n.scale = s /\ NumericValue(n) \in Rescaled(d, s)
      /\ d \in Decimals
  BY NumericFromDecimalIs
<1>2. s \in 0 .. MaxScale
  BY <1>1 DEF Numerics
<1>3. Near(x - y, Place(n.scale))
  BY <1>1, <1>2, RescaledNear
<1>4. Amount(v) = Signed(d.sign = 0, x) /\ x \in Nat
  BY <1>1, AmountOfDecimal DEF Is
<1>5. Amount(o) = Signed(n.sign = 0, y) /\ y \in Nat /\ Amount(o) \in Int
  BY <1>1, AmountOfNumeric DEF Is
<1>6. Place(n.scale) \in Nat
  BY <1>1, <1>2, PlaceIs
<1> HIDE DEF x, y, d, s
<1>7. \A b \in BOOLEAN : Near(Signed(b, x) - Signed(b, y), Place(n.scale))
  BY <1>3, <1>4, <1>5, <1>6, NearSigned
<1>8. Near(Signed(d.sign = 0, x) - Signed(d.sign = 0, y), Place(n.scale))
  BY <1>7
<1> QED
  BY <1>1, <1>2, <1>4, <1>5, <1>8

\* A text that shows a Decimal amounts to it.
LEMMA TextAsDecimal ==
  ASSUME NEW v, v \in [text : DigitTexts], NEW d \in DecimalFromText(v.text),
         NEW o, o = [decimal |-> d]
  PROVE  Amount(v) = Amount(o) /\ d \in Decimals /\ Amount(o) \in Int
<1> DEFINE t == v.text
<1>1. /\ d = Decimal(TextValue(t), SignOf(t), Len(t.digits), t.right) /\ d \in Decimals
      /\ t \in DigitTexts
  BY DecimalFromTextIs, DecimalFromTextTyped
<1>2. d.value = TextValue(t) /\ d.sign = SignOf(t) /\ d.scale = t.right
  BY <1>1 DEF Decimal
<1>3. /\ Amount(v) = Signed(t.minus, TextValue(t) * Place(t.right))
      /\ TextValue(t) * Place(t.right) \in Nat
  BY <1>1, AmountOfText DEF Is
<1>4. Amount(o) = Signed(d.sign = 0, d.value * Place(d.scale)) /\ Amount(o) \in Int
  BY <1>1, AmountOfDecimal DEF Is
<1>5. TextValue(t) \in Nat /\ t.minus \in BOOLEAN /\ Place(t.right) \in Nat
  <2>1. t.right \in 0 .. MaxScale /\ TextValue(t) \in Nat /\ t.minus \in BOOLEAN
    BY <1>1, TextValueIs, Bases
  <2> QED
    BY <2>1, PlaceIs
<1>6. SignOf(t) = IF t.minus /\ TextValue(t) # 0 THEN 0 ELSE 1
  BY DEF SignOf
<1> HIDE DEF t
<1>7. CASE TextValue(t) = 0
  <2>1. 0 * Place(t.right) = 0
    BY <1>5
  <2> QED
    BY <1>1, <1>2, <1>3, <1>4, <1>7, <2>1 DEF Signed
<1>8. CASE TextValue(t) # 0
  <2>1. t.minus = (d.sign = 0)
    BY <1>2, <1>5, <1>6, <1>8
  <2> QED
    BY <1>1, <1>2, <1>3, <1>4, <2>1
<1> QED
  BY <1>7, <1>8

\* A text amounts to the number that it shows.
LEMMA SaysAmount ==
  ASSUME NEW t, NEW minus \in BOOLEAN, NEW value \in Nat, NEW right \in 0 .. MaxScale,
         Says(t, minus, value, right)
  PROVE  /\ minus => Amount([text |-> t]) = -(value * Place(right))
         /\ ~minus => Amount([text |-> t]) = value * Place(right)
         /\ Amount([text |-> t]) \in Int /\ value * Place(right) \in Nat
         /\ [text |-> t] \in [text : DigitTexts]
<1> DEFINE o == [text |-> t]
<1>1. /\ t \in DigitTexts /\ t.minus = minus /\ t.right = right /\ TextValue(t) = value
  BY DEF Says, TextValue
<1>2. o.text = t /\ ~Is(o, "int") /\ ~Is(o, "float") /\ Is(o, "text")
  BY DEF Is
<1> HIDE DEF o
<1>3. /\ Amount(o) = Signed(minus, value * Place(right)) /\ Amount(o) \in Int
      /\ value * Place(right) \in Nat
  BY <1>1, <1>2, AmountOfText
<1> QED
  BY <1>1, <1>3 DEF Signed, o

LEMMA IntAsText ==
  ASSUME NEW i \in Int, NEW v, v = [int |-> i], NEW o, o = [text |-> IntText(i)]
  PROVE  Amount(v) = Amount(o) /\ Amount(v) \in Int /\ o \in [text : DigitTexts]
<1>1. Says(IntText(i), i < 0, Magnitude(i), 0) /\ Magnitude(i) \in Nat /\ (i < 0) \in BOOLEAN
  BY IntTextSays DEF Magnitude
<1>2. 0 \in 0 .. MaxScale
  BY Bases
<1>3. /\ i < 0 => Amount(o) = -(Magnitude(i) * Place(0))
      /\ ~(i < 0) => Amount(o) = Magnitude(i) * Place(0)
      /\ o \in [text : DigitTexts]
  BY <1>1, <1>2, SaysAmount
<1>4. Amount(v) = i * Place(0) /\ Amount(v) \in Int
  BY AmountOfInt DEF Is
<1>5. Place(0) \in Nat
  BY <1>2, PlaceIs
<1>6. /\ i < 0 => -(Magnitude(i) * Place(0)) = i * Place(0)
      /\ ~(i < 0) => Magnitude(i) * Place(0) = i * Place(0)
  BY <1>5 DEF Magnitude
<1> QED
  BY <1>3, <1>4, <1>6

LEMMA DecimalAsText ==
  ASSUME NEW d \in Decimals, NEW v, v = [decimal |-> d], NEW o, o = [text |-> DecimalText(d)]
  PROVE  Amount(v) = Amount(o) /\ Amount(v) \in Int /\ o \in [text : DigitTexts]
<1> DEFINE x == d.value * Place(d.scale)
<1>1. d.value \in Nat /\ d.scale \in 0 .. MaxScale
  BY DEF Decimals
<1>2. Says(DecimalText(d), d.sign = 0 /\ d.value # 0, d.value, d.scale)
  BY <1>1, DecimalTextSays
<1>3. /\ d.sign = 0 /\ d.value # 0 => Amount(o) = -x
      /\ ~(d.sign = 0 /\ d.value # 0) => Amount(o) = x
      /\ o \in [text : DigitTexts]
  <2>1. (d.sign = 0 /\ d.value # 0) \in BOOLEAN
    OBVIOUS
  <2> QED
    BY <1>1, <1>2, <2>1, SaysAmount
<1>4. Amount(v) = Signed(d.sign = 0, x) /\ Amount(v) \in Int
  BY AmountOfDecimal DEF Is
<1>5. d.value = 0 => x = 0
  <2>1. Place(d.scale) \in Nat
    BY <1>1, PlaceIs
  <2> QED
    BY <2>1
<1> HIDE DEF x
<1> QED
  BY <1>3, <1>4, <1>5 DEF Signed

LEMMA NumericAsText ==
  ASSUME NEW n \in Numerics, NEW v, v = [numeric |-> n], NEW d \in DecimalFromNumeric(n),
         NEW o, o = [text |-> DecimalText(d)]
  PROVE  Amount(v) = Amount(o) /\ Amount(v) \in Int /\ o \in [text : DigitTexts]
<1> DEFINE x == d.value * Place(d.scale)
<1>1. n.val \in ValSet /\ n.scale \in 0 .. MaxScale
  BY DEF Numerics, ValSet
<1>2. d = Decimal(NumericValue(n), n.sign, n.precision, n.scale) /\ NumericValue(n) \in Nat
  BY <1>1, DecimalFromNumericIs, NumericValueIs
<1>3. /\ d.value = NumericValue(n) /\ d.sign = n.sign /\ d.scale = n.scale
      /\ d.value \in Nat /\ d.scale \in 0 .. MaxScale
  BY <1>1, <1>2 DEF Decimal
<1>4. Says(DecimalText(d), d.sign = 0 /\ d.value # 0, d.value, d.scale)
  BY <1>1, <1>2, <1>3, DecimalTextSays
<1>5. /\ d.sign = 0 /\ d.value # 0 => Amount(o) = -x
      /\ ~(d.sign = 0 /\ d.value # 0) => Amount(o) = x
      /\ o \in [text : DigitTexts]
  <2>1. (d.sign = 0 /\ d.value # 0) \in BOOLEAN
    OBVIOUS
  <2> QED
    BY <1>3, <1>4, <2>1, SaysAmount
<1>6. Amount(v) = Signed(d.sign = 0, x) /\ Amount(v) \in Int
  BY <1>3, AmountOfNumeric DEF Is
<1>7. d.value = 0 => x = 0
  <2>1. Place(d.scale) \in Nat
    BY <1>1, <1>3, PlaceIs
  <2> QED
    BY <2>1
<1> HIDE DEF x
<1> QED
  BY <1>5, <1>6, <1>7 DEF Signed

\* A float as text loses what is behind its last digit.
LEMMA FloatAsText ==
  ASSUME NEW x \in Int, NEW v, v = [float |-> x], NEW o, o = [text |-> FloatText(x)]
  PROVE  /\ Near(Amount(v) - Amount(o), Place(FloatDigits))
         /\ Amount(v) \in Int /\ Amount(o) \in Int /\ o \in [text : DigitTexts]
<1> DEFINE a == Magnitude(x)
           s == Shown(x)
           F == Place(FloatDigits + 1)
<1>1. Says(FloatText(x), x < 0, s, FloatDigits) /\ s \in Nat /\ a \in Nat /\ (x < 0) \in BOOLEAN
  BY FloatTextSays DEF Magnitude
<1>2. FloatDigits \in 0 .. MaxScale /\ FloatDigits + 1 \in FloatDigits .. MaxScale
      /\ FloatDigits + 1 \in 0 .. MaxScale
  BY Bases
<1>3. Place(FloatDigits) = Base * F /\ F \in Nat /\ F > 0
  <2>1. Place(FloatDigits) = Power(Base, (FloatDigits + 1) - FloatDigits) * F
    BY <1>2, PlaceSplits
  <2>2. (FloatDigits + 1) - FloatDigits = 0 + 1
    BY Bases
  <2>3. Power(Base, 0 + 1) = Base * Power(Base, 0) /\ Power(Base, 0) = 1
    BY Bases, PowerNext
  <2>4. Power(Base, (FloatDigits + 1) - FloatDigits) = Base
    BY <2>2, <2>3, Bases
  <2> QED
    BY <1>2, <2>1, <2>4, PlaceIs
<1>4. /\ x < 0 => Amount(o) = -(s * (Base * F))
      /\ ~(x < 0) => Amount(o) = s * (Base * F)
      /\ Amount(o) \in Int
      /\ o \in [text : DigitTexts] /\ s * (Base * F) \in Nat
  <2> DEFINE L == Place(FloatDigits)
  <2> HIDE DEF F, s
  <2>1. /\ x < 0 => Amount(o) = -(s * L)
        /\ ~(x < 0) => Amount(o) = s * L
        /\ Amount(o) \in Int
        /\ o \in [text : DigitTexts] /\ s * L \in Nat
    BY <1>1, <1>2, SaysAmount
  <2>2. L = Base * F
    BY <1>3
  <2> HIDE DEF L
  <2> QED
    BY <2>1, <2>2
<1>5. Amount(v) = x * F /\ Amount(v) \in Int
  BY AmountOfFloat DEF Is
<1>6. 2 * Base * s <= 2 * a + Base /\ 2 * a + Base < 2 * Base * s + 2 * Base
  <2> DEFINE n == 2 * a + Base
             m == 2 * Base
  <2>1. n \in Nat /\ m \in Nat /\ m > 0 /\ s = n \div m
    BY <1>1, Bases DEF Shown
  <2> HIDE DEF n, m, s
  <2>2. m * s <= n /\ n < m * s + m
    BY <2>1, Bounds
  <2> QED
    BY <2>2 DEF n, m
<1> HIDE DEF a, s, F
<1>7. Near(a * F - s * (Base * F), Base * F)
  <2> DEFINE y == Base * s
             e == a - y
             L == Base * F
  <2>1. y \in Nat /\ L \in Nat /\ Base \in Nat
    BY <1>1, <1>3, Bases, ProductIsNat
  <2>2. e < Base /\ -e < Base /\ e \in Int
    <3>1. 2 * Base * s = 2 * y
      BY <1>1, Bases
    <3> HIDE DEF y
    <3> QED
      BY <1>1, <1>6, <2>1, <3>1, Bases
  <2>3. s * (Base * F) = y * F
    BY <1>1, <1>3, Bases, Associative
  <2>4. a * F - y * F = e * F
    BY <1>1, <1>3, <2>1, Distributive
  <2>5. Near(e * F, L)
    <3>1. e * F < Base * F
      BY <1>3, <2>1, <2>2
    <3>2. (-e) * F < Base * F
      BY <1>3, <2>1, <2>2
    <3>3. (-e) * F = -(e * F)
      BY <1>3, <2>2
    <3> QED
      BY <3>1, <3>2, <3>3 DEF Near
  <2> HIDE DEF y, e, L
  <2> QED
    BY <2>3, <2>4, <2>5 DEF L
<1>8. /\ x < 0 => x * F = -(a * F)
      /\ ~(x < 0) => x * F = a * F
      /\ a * F \in Nat
  BY <1>3, ProductIsNat DEF a, Magnitude
<1> DEFINE y == a * F
           z == s * (Base * F)
           L == Base * F
<1>9. y \in Nat /\ z \in Nat /\ L \in Nat /\ Near(y - z, L)
  BY <1>3, <1>4, <1>7, <1>8, Bases, ProductIsNat
<1>10. /\ x < 0 => Amount(v) = -y /\ Amount(o) = -z
       /\ ~(x < 0) => Amount(v) = y /\ Amount(o) = z
  BY <1>4, <1>5, <1>8
<1>11. Place(FloatDigits) = L
  BY <1>3
<1> HIDE DEF y, z, L
<1>12. Near(Amount(v) - Amount(o), L)
  BY <1>1, <1>9, <1>10 DEF Near
<1> QED
  BY <1>4, <1>5, <1>11, <1>12

LEMMA Multiples ==
  ASSUME NEW k \in Int, NEW m \in Nat, m > 0
  PROVE  (k * m) % m = 0
<1> DEFINE x == k * m
<1>1. x \in Int
  OBVIOUS
<1> HIDE DEF x
<1>2. PICK q \in Int, r \in 0 .. m - 1 : Divides(x, m, q, r)
  BY <1>1, Division
<1> DEFINE e == k - q
<1>3. e * m = r
  <2>1. k * m = m * q + r
    BY <1>2 DEF Divides, x
  <2>2. (k - q) * m = k * m - q * m /\ q * m = m * q /\ m * q \in Int
    BY Distributive, Associative
  <2> QED
    BY <2>1, <2>2
<1>4. e \in Int
  OBVIOUS
<1> HIDE DEF e
<1>5. ASSUME e > 0 PROVE FALSE
  <2>1. e * m >= m
    BY <1>4, <1>5
  <2> QED
    BY <1>3, <2>1
<1>6. ASSUME e < 0 PROVE FALSE
  <2>1. e * m < 0
    BY <1>4, <1>6
  <2> QED
    BY <1>3, <2>1
<1>7. r = 0
  <2>1. e = 0
    BY <1>4, <1>5, <1>6
  <2> QED
    BY <1>3, <2>1
<1> QED
  BY <1>2, <1>7 DEF Divides, x

LEMMA Scaled ==
  ASSUME NEW d \in Int, NEW p \in Nat, p > 0, NEW e \in 0 .. p - 1, NEW f \in Nat, f > 0,
         d * p = e * f
  PROVE  d >= 0 /\ d < f
<1>1. e * f >= 0 /\ e * f \in Nat /\ p * f \in Nat
  BY ProductIsNat
<1>2. ASSUME d < 0 PROVE FALSE
  <2>1. d * p < 0
    BY <1>2
  <2> QED
    BY <1>1, <2>1
<1>3. ASSUME d >= f PROVE FALSE
  <2>1. d * p >= f * p /\ f * p = p * f
    BY <1>3
  <2>2. (e + 1) * f <= p * f /\ (e + 1) * f = e * f + f
    BY <1>1
  <2> QED
    BY <1>1, <2>1, <2>2
<1> QED
  BY <1>2, <1>3

\* A text as a float loses the digits that no float has here.
LEMMA TextAsFloat ==
  ASSUME NEW v, v \in [text : DigitTexts], NEW x \in FloatFromText(v.text),
         NEW o, o = [float |-> x]
  PROVE  Near(Amount(v) - Amount(o), Place(FloatDigits + 1)) /\ Amount(o) \in Int
<1> DEFINE t == v.text
           T == TextValue(t)
           U == UnitsPerOne
           P == Power(Base, t.right)
           q == FloatOf(t)
           F == Place(FloatDigits + 1)
           R == Place(t.right)
<1>1. t \in DigitTexts
  OBVIOUS
<1>2. T \in Nat /\ t.right \in 0 .. MaxScale /\ t.minus \in BOOLEAN
  BY <1>1, TextValueIs, Bases
<1>3. U \in Nat /\ U > 0
  BY UnitsAre
<1>4. FloatDigits + 1 \in 0 .. MaxScale /\ 0 \in 0 .. MaxScale
  BY Bases
<1>5. F \in Nat /\ F > 0 /\ R \in Nat /\ R > 0 /\ Place(0) = U * F
  <2>1. Place(0) = Power(Base, (FloatDigits + 1) - 0) * F
    BY <1>4, PlaceSplits
  <2>2. (FloatDigits + 1) - 0 = FloatDigits + 1
    BY Bases
  <2> QED
    BY <1>2, <1>4, <2>1, <2>2, PlaceIs DEF UnitsPerOne
<1>6. P \in Nat /\ P > 0 /\ Place(0) = P * R
  <2>1. Place(0) = Power(Base, t.right - 0) * R /\ Power(Base, t.right - 0) \in Nat
        /\ Power(Base, t.right - 0) > 0
    BY <1>2, <1>4, PlaceSplits
  <2>2. t.right - 0 = t.right
    BY <1>2
  <2> QED
    BY <2>1, <2>2
<1>7. q \in Nat /\ P * q <= T * U /\ T * U < P * q + P
  <2> DEFINE n == T * U
  <2>1. n \in Nat /\ q = n \div P
    BY <1>2, <1>3, ProductIsNat DEF FloatOf
  <2>2. q \in Nat
    BY <1>1, FloatFromTextIs
  <2> HIDE DEF n, P, q
  <2>3. P * q <= n /\ n < P * q + P
    BY <1>6, <2>1, Bounds
  <2> QED
    BY <2>2, <2>3 DEF n
<1>8. Amount(v) = Signed(t.minus, T * R) /\ T * R \in Nat
  BY <1>1, AmountOfText DEF Is
<1>9. x = Signed(t.minus, q)
  <2>1. FloatFromText(t) \subseteq {IF t.minus THEN -q ELSE q}
    BY <1>1, FloatFromTextIs
  <2> QED
    BY <2>1 DEF Signed
<1>10. Amount(o) = x * F /\ Amount(o) \in Int
  <2>1. x \in Int
    BY <1>7, <1>9 DEF Signed
  <2> QED
    BY <2>1, AmountOfFloat DEF Is
<1> DEFINE d == T * R - q * F
           e == T * U - P * q
<1>11. d * P = e * F
  <2> HIDE DEF T, R, q, F, U, P
  <2>1. d * P = (T * R) * P - (q * F) * P
    BY <1>2, <1>5, <1>6, <1>7, Distributive, ProductIsNat
  <2>2. e * F = (T * U) * F - (P * q) * F
    BY <1>2, <1>3, <1>5, <1>6, <1>7, Distributive, ProductIsNat
  <2>3. (T * R) * P = (T * U) * F
    <3>1. (T * R) * P = T * (R * P) /\ R * P = P * R
      BY <1>2, <1>5, <1>6, Associative
    <3>2. (T * U) * F = T * (U * F)
      BY <1>2, <1>3, <1>5, Associative
    <3>3. U * F = P * R
      BY <1>5, <1>6
    <3> QED
      BY <3>1, <3>2, <3>3
  <2>4. (q * F) * P = (P * q) * F
    <3>1. (q * F) * P = q * (F * P) /\ F * P = P * F
      BY <1>5, <1>6, <1>7, Associative
    <3>2. (P * q) * F = (q * P) * F /\ (q * P) * F = q * (P * F)
      BY <1>5, <1>6, <1>7, Associative
    <3> QED
      BY <3>1, <3>2
  <2> QED
    BY <2>1, <2>2, <2>3, <2>4
<1>12. e \in 0 .. P - 1 /\ d \in Int
  <2> HIDE DEF T, R, q, F, U, P
  <2>1. T * U \in Nat /\ P * q \in Nat /\ T * R \in Nat /\ q * F \in Nat
    BY <1>2, <1>3, <1>5, <1>6, <1>7, ProductIsNat
  <2> QED
    BY <1>6, <1>7, <2>1
<1> HIDE DEF d, e, F, P
<1>13. d >= 0 /\ d < F
  BY <1>5, <1>6, <1>11, <1>12, Scaled
<1>14. Near(d, F)
  BY <1>5, <1>12, <1>13 DEF Near
<1> DEFINE y == T * R
           z == q * F
<1>15. y \in Nat /\ z \in Nat /\ d = y - z
  <2>1. q * F \in Nat
    BY <1>5, <1>7, ProductIsNat
  <2> QED
    BY <1>8, <2>1 DEF d
<1>16. Signed(t.minus, q) * F = Signed(t.minus, z)
  BY <1>2, <1>5, <1>7 DEF Signed
<1> HIDE DEF y, z
<1>17. Near(Signed(t.minus, y) - Signed(t.minus, z), F)
  <2>1. \A b \in BOOLEAN : Near(Signed(b, y) - Signed(b, z), F)
    BY <1>5, <1>14, <1>15, NearSigned
  <2> QED
    BY <1>2, <2>1
<1> QED
  BY <1>8, <1>9, <1>10, <1>16, <1>17 DEF y, F

\* A text as an integer is exact, or the negative of an unsigned one modulo its width.
LEMMA TextAsInt ==
  ASSUME NEW v, v \in [text : DigitTexts], NEW t, t.signed \in BOOLEAN,
         NEW i \in IntFromText(v.text, t), NEW o, o = [int |-> i]
  PROVE  /\ ~v.text.dot /\ Amount(o) \in Int
         /\ Amount(v) # Amount(o) =>
              ~t.signed /\ (Amount(v) - Amount(o)) % (Power(2, WideBits) * Place(0)) = 0
<1> DEFINE x == v.text
           T == TextValue(x)
           W == Power(2, WideBits)
           wide == IntType(WideBits, t.signed)
           abs == Accumulate(x.digits, Base, W)
           value == IF x.minus THEN -abs ELSE abs
           Z == Place(0)
<1>1. x \in DigitTexts /\ wide.bits = WideBits /\ wide.signed = t.signed
  BY DEF IntType
<1>2. /\ ~x.dot /\ abs >= 0 /\ i \in LowestOf(t) .. HighestOf(t)
      /\ i = IF t.signed THEN value ELSE Narrow(value, wide)
  BY DEF IntFromText
<1>3. W \in Nat /\ W > 0
  <2>1. 2 \in Nat /\ 2 > 0 /\ WideBits \in Nat
    BY Bases
  <2> QED
    BY <2>1, PowerPositive
<1>4. /\ T \in Nat /\ x.minus \in BOOLEAN /\ x.right = 0
      /\ abs = UpTo(T, W)
  <2> HIDE DEF W
  <2>1. /\ T \in Nat /\ x.minus \in BOOLEAN /\ x.right \in Nat /\ (x.right > 0 => x.dot)
        /\ abs = UpTo(T, W)
    BY <1>1, <1>3, TextValueIs
  <2> QED
    BY <1>2, <2>1
<1>5. abs = T
  BY <1>2, <1>4 DEF UpTo
<1>6. value = Signed(x.minus, T) /\ value \in Int
  BY <1>4, <1>5 DEF Signed
<1>7. Z \in Nat /\ Z > 0
  BY Bases, PlaceIs
<1>8. Amount(v) = value * Z
  <2>1. Amount(v) = Signed(x.minus, T * Z)
    BY <1>1, <1>4, AmountOfText DEF Is
  <2>2. Signed(x.minus, T * Z) = Signed(x.minus, T) * Z
    <3> HIDE DEF T, Z
    <3> QED
      BY <1>4, <1>7 DEF Signed
  <2> QED
    BY <1>6, <2>1, <2>2
<1> HIDE DEF value, W, Z
<1>9. CASE t.signed
  <2>1. i = value
    BY <1>2, <1>9
  <2>2. Amount(o) = i * Z /\ Amount(o) \in Int
    BY <1>6, <2>1, AmountOfInt DEF Is, Z
  <2> QED
    BY <1>2, <1>8, <2>1, <2>2
<1>10. CASE ~t.signed
  <2>1. PICK k \in Int : value - Narrow(value, wide) = k * W
    BY <1>1, <1>6, Bases, NarrowIs DEF W
  <2>2. i = Narrow(value, wide) /\ i \in Int
    <3>1. Narrow(value, wide) \in LowestOf(wide) .. HighestOf(wide)
      BY <1>1, <1>6, Bases, NarrowIs
    <3> QED
      BY <1>2, <1>10, <3>1
  <2>3. Amount(o) = i * Z /\ Amount(o) \in Int
    BY <2>2, AmountOfInt DEF Is, Z
  <2>4. Amount(v) - Amount(o) = k * (W * Z)
    <3>1. value * Z - i * Z = (value - i) * Z
      BY <1>6, <1>7, <2>2, Distributive
    <3>2. (k * W) * Z = k * (W * Z)
      BY <1>3, <1>7, Associative
    <3> QED
      BY <1>8, <2>1, <2>2, <2>3, <3>1, <3>2
  <2>5. W * Z \in Nat /\ W * Z > 0
    BY <1>3, <1>7
  <2> DEFINE m == W * Z
  <2> HIDE DEF m
  <2>6. (k * m) % m = 0
    BY <2>5, Multiples DEF m
  <2> QED
    BY <1>2, <1>10, <2>3, <2>4, <2>6 DEF m, W, Z
<1> QED
  BY <1>9, <1>10

-----------------------------------------------------------------------------
(* What a text becomes, and what it loses *)

LEMMA FromTextKinds ==
  ASSUME NEW text, NEW to, to.ctype \in CTypes, NEW o \in FromText(text, to)
  PROVE  /\ Is(o, "int") => /\ to.ctype \in IntCTypes
                            /\ \E i \in IntFromText(text, IntTypeOf(to.ctype)) : o = [int |-> i]
         /\ Is(o, "float") => \E x \in FloatFromText(text) : o = [float |-> x]
         /\ Is(o, "numeric") =>
              \E d \in DecimalFromText(text) :
                \E n \in NumericFromDecimal(d, to.precision, to.scale) : o = [numeric |-> n]
         /\ Is(o, "text") => o = [text |-> text]
         /\ Is(o, "guid") => Is(text, "uuid") /\ o = [guid |-> text.uuid]
         /\ Is(o, "day") => Is(text, "date") /\ o = [day |-> Normal(text.date)]
         /\ Is(o, "second") => Is(text, "date")
         /\ Is(o, "timestamp") => \E m \in TimestampFromText(text) : o = [timestamp |-> m]
<1>1. CASE to.ctype \in IntCTypes
  <2>1. PICK i \in IntFromText(text, IntTypeOf(to.ctype)) : o = [int |-> i]
    BY <1>1 DEF FromText, IntCTypes
  <2> QED
    BY <1>1, <2>1 DEF Is
<1>2. CASE to.ctype = "double"
  <2>1. PICK x \in FloatFromText(text) : o = [float |-> x]
    BY <1>2 DEF FromText, IntCTypes
  <2> QED
    BY <2>1 DEF Is
<1>3. CASE to.ctype = "numeric"
  <2>1. PICK d \in DecimalFromText(text) :
          \E n \in NumericFromDecimal(d, to.precision, to.scale) : o = [numeric |-> n]
    BY <1>3 DEF FromText, IntCTypes
  <2> QED
    BY <2>1 DEF Is
<1>4. CASE to.ctype = "guid"
  <2>1. Is(text, "uuid") /\ o = [guid |-> text.uuid]
    BY <1>4 DEF FromText, IntCTypes, When
  <2> QED
    BY <2>1 DEF Is
<1>5. CASE to.ctype = "date"
  <2>1. Is(text, "date") /\ o = [day |-> Normal(text.date)]
    BY <1>5 DEF FromText, IntCTypes, When
  <2> QED
    BY <2>1 DEF Is
<1>6. CASE to.ctype = "time"
  <2>1. Is(text, "date") /\ o = [second |-> IF text.time = NoTime THEN 0 ELSE text.time]
    BY <1>6 DEF FromText, IntCTypes, When
  <2> QED
    BY <2>1 DEF Is
<1>7. CASE to.ctype = "timestamp"
  <2>1. PICK m \in TimestampFromText(text) : o = [timestamp |-> m]
    BY <1>7 DEF FromText, IntCTypes
  <2> QED
    BY <2>1 DEF Is
<1>8. CASE to.ctype \in {"char", "wchar"}
  <2>1. o = [text |-> text]
    BY <1>8 DEF FromText, IntCTypes
  <2> QED
    BY <2>1 DEF Is
<1> QED
  BY <1>1, <1>2, <1>3, <1>4, <1>5, <1>6, <1>7, <1>8 DEF CTypes

\* What the type of a number cannot say of the number it is made from.
Loss(o) == IF Is(o, "float") THEN Place(FloatDigits + 1)
           ELSE IF Is(o, "numeric") THEN Place(o.numeric.scale) ELSE 0

LEMMA LossIs ==
  ASSUME NEW to, NEW o \in Objects(to)
  PROVE  Loss(o) \in Nat
<1>1. Place(FloatDigits + 1) \in Nat
  <2>1. FloatDigits + 1 \in 0 .. MaxScale
    BY Bases
  <2> QED
    BY <2>1, PlaceIs
<1>2. Is(o, "numeric") => Place(o.numeric.scale) \in Nat
  <2> SUFFICES ASSUME Is(o, "numeric") PROVE Place(o.numeric.scale) \in Nat
    OBVIOUS
  <2>1. o.numeric \in Numerics
    BY ObjectKinds
  <2>2. o.numeric.scale \in 0 .. MaxScale
    BY <2>1 DEF Numerics
  <2> QED
    BY <2>2, PlaceIs
<1> QED
  BY <1>1, <1>2 DEF Loss

\* The width of what an unsigned integer is read from.
WholeWidth == Power(2, WideBits) * Place(0)
Unsigned == {"ubigint", "utinyint"}

\* The number that is made of a text: an integer exactly or modulo its width, others
\* up to what their type loses.
Made(v, o, to) ==
  IF Is(o, "int")
  THEN /\ ~v.text.dot
       /\ Amount(v) # Amount(o) =>
            to.ctype \in Unsigned /\ (Amount(v) - Amount(o)) % WholeWidth = 0
  ELSE Near(Amount(v) - Amount(o), Loss(o))

Suits(to) == to.ctype \in CTypes /\ to.precision \in Nat /\ to.scale \in 0 .. MaxScale

LEMMA TextGives ==
  ASSUME NEW v, v \in [text : DigitTexts], NEW to, Suits(to),
         NEW o \in FromText(v.text, to), IsNumber(o)
  PROVE  Made(v, o, to) /\ Amount(o) \in Int /\ Amount(v) \in Int
<1>0. to.ctype \in CTypes /\ to.precision \in Nat /\ to.scale \in 0 .. MaxScale
  BY DEF Suits
<1>v. Amount(v) \in Int
  <2>1. ~Is(v, "int") /\ ~Is(v, "float") /\ Is(v, "text") /\ v.text \in DigitTexts
    BY DEF Is
  <2> QED
    BY <2>1, AmountOfText
<1>o. v.text \in Texts /\ o \in Objects(to)
  <2>1. v.text \in Texts
    BY DEF Texts
  <2> QED
    BY <1>0, <2>1, FromTextTyped
<1>1. CASE Is(o, "int")
  <2>1. PICK i \in IntFromText(v.text, IntTypeOf(to.ctype)) : o = [int |-> i]
    BY <1>0, <1>1, FromTextKinds
  <2>2. IntTypeOf(to.ctype).signed \in BOOLEAN
    BY IntTypeIs
  <2>3. to.ctype \in IntCTypes
    BY <1>0, <1>1, FromTextKinds
  <2>4. ~IntTypeOf(to.ctype).signed => to.ctype \in Unsigned
    BY <2>3 DEF IntTypeOf, IntType, IntCTypes, Unsigned
  <2>5. /\ ~v.text.dot /\ Amount(o) \in Int
        /\ Amount(v) # Amount(o) =>
              ~IntTypeOf(to.ctype).signed /\ (Amount(v) - Amount(o)) % WholeWidth = 0
    BY <2>1, <2>2, TextAsInt DEF WholeWidth
  <2> QED
    BY <1>v, <1>1, <2>4, <2>5 DEF Made
<1>2. CASE Is(o, "float") /\ ~Is(o, "int")
  <2>1. PICK x \in FloatFromText(v.text) : o = [float |-> x]
    BY <1>0, <1>2, FromTextKinds
  <2>2. Near(Amount(v) - Amount(o), Place(FloatDigits + 1)) /\ Amount(o) \in Int
    BY <2>1, TextAsFloat
  <2>3. Loss(o) = Place(FloatDigits + 1)
    BY <1>2 DEF Loss
  <2> QED
    BY <1>v, <1>2, <2>2, <2>3 DEF Made
<1>3. CASE Is(o, "numeric") /\ ~Is(o, "int") /\ ~Is(o, "float")
  <2>1. PICK d \in DecimalFromText(v.text) :
          \E n \in NumericFromDecimal(d, to.precision, to.scale) : o = [numeric |-> n]
    BY <1>0, <1>3, FromTextKinds
  <2>2. PICK n \in NumericFromDecimal(d, to.precision, to.scale) : o = [numeric |-> n]
    BY <2>1
  <2> DEFINE w == [decimal |-> d]
  <2>3. Amount(v) = Amount(w) /\ d \in Decimals
    BY TextAsDecimal
  <2>4. w \in [decimal : Decimals] /\ w.decimal = d
    BY <2>3
  <2> HIDE DEF w
  <2>5. Near(Amount(w) - Amount(o), Place(n.scale)) /\ Amount(o) \in Int
    BY <1>0, <2>2, <2>4, NumericNear
  <2>6. Loss(o) = Place(n.scale)
    BY <1>3, <2>2 DEF Loss
  <2> QED
    BY <1>v, <1>3, <2>3, <2>5, <2>6 DEF Made
<1>4. CASE Is(o, "text") /\ ~Is(o, "int") /\ ~Is(o, "float") /\ ~Is(o, "numeric")
  <2>1. o = [text |-> v.text]
    BY <1>0, <1>4, FromTextKinds
  <2>2. o = v
    BY <2>1
  <2>3. Near(Amount(v) - Amount(o), Loss(o))
    BY <1>v, <1>4, <2>2 DEF Near, Loss
  <2> QED
    BY <1>v, <1>4, <2>2, <2>3 DEF Made
<1>5. ~Is(o, "decimal")
  BY <1>o, ObjectKinds
<1> QED
  BY <1>1, <1>2, <1>3, <1>4, <1>5 DEF IsNumber, NumberKinds

\* What may be lost between a value and what is found of it.
LEMMA UnsaidIs ==
  ASSUME NEW v, NEW to, NEW got \in Objects(to), NEW texted \in BOOLEAN
  PROVE  /\ Unsaid(v, got, texted) =
              (IF Is(v, "float") /\ texted THEN Place(FloatDigits) ELSE 0) + Loss(got)
              + (IF Is(got, "int") /\ Is(v, "float") THEN Place(0) ELSE 0)
         /\ Place(0) = Power(Base, MaxScale) /\ Place(0) \in Nat /\ Place(0) > 0
         /\ Place(FloatDigits) \in Nat
<1>1. /\ Place(0) = Power(Base, MaxScale)
      /\ Place(FloatDigits) = Power(Base, MaxScale - FloatDigits)
      /\ Place(FloatDigits + 1) = Power(Base, MaxScale - FloatDigits - 1)
  <2>1. /\ MaxScale - 0 = MaxScale
        /\ MaxScale - (FloatDigits + 1) = MaxScale - FloatDigits - 1
    BY Bases
  <2> QED
    BY <2>1 DEF Place
<1>2. Place(0) \in Nat /\ Place(0) > 0 /\ Place(FloatDigits) \in Nat /\ Place(FloatDigits + 1) \in Nat
  <2>1. 0 \in 0 .. MaxScale /\ FloatDigits \in 0 .. MaxScale /\ FloatDigits + 1 \in 0 .. MaxScale
    BY Bases
  <2> QED
    BY <2>1, PlaceIs
<1>3. ~(Is(got, "float") /\ Is(got, "numeric"))
  BY DEF Objects, Is
<1>4. Is(got, "numeric") => Place(got.numeric.scale) \in Nat
  BY <1>3, LossIs DEF Loss
<1> DEFINE a == IF Is(v, "float") /\ texted THEN Place(FloatDigits) ELSE 0
           b == IF Is(got, "float") THEN Place(FloatDigits + 1) ELSE 0
           c == IF Is(got, "numeric") THEN Place(got.numeric.scale) ELSE 0
           d == IF Is(got, "int") /\ Is(v, "float") THEN Place(0) ELSE 0
<1>5. Unsaid(v, got, texted) = a + b + c + d
  BY <1>1 DEF Unsaid, Place
<1>6. a \in Nat /\ b \in Nat /\ c \in Nat /\ d \in Nat
  BY <1>2, <1>4
<1>7. Loss(got) = b + c
  BY <1>2, <1>3, <1>4 DEF Loss
<1> HIDE DEF a, b, c, d
<1>8. Unsaid(v, got, texted) = a + Loss(got) + d
  BY <1>5, <1>6, <1>7
<1> QED
  BY <1>1, <1>2, <1>8 DEF a, d

LEMMA NearIsSame ==
  ASSUME NEW v, NEW to, NEW got \in Objects(to), NEW texted \in BOOLEAN, NEW modulus,
         Amount(v) \in Int, Amount(got) \in Int, NEW loss \in Nat,
         Near(Amount(v) - Amount(got), loss), loss <= Unsaid(v, got, texted)
  PROVE  SameNumber(v, got, texted, modulus)
<1> DEFINE n == Unsaid(v, got, texted)
           diff == Amount(v) - Amount(got)
<1>1. n \in Nat
  <2> DEFINE a == IF Is(v, "float") /\ texted THEN Place(FloatDigits) ELSE 0
             b == IF Is(got, "int") /\ Is(v, "float") THEN Place(0) ELSE 0
  <2>1. Loss(got) \in Nat /\ n = a + Loss(got) + b
    BY LossIs, UnsaidIs
  <2>2. a \in Nat /\ b \in Nat
    BY UnsaidIs
  <2> HIDE DEF n, a, b
  <2> QED
    BY <2>1, <2>2
<1>2. diff \in Int
  OBVIOUS
<1> HIDE DEF n, diff
<1>3. Near(diff, n)
  BY <1>1, <1>2, NearEnough DEF n, diff
<1> QED
  BY <1>3 DEF SameNumber, Near, n, diff

LEMMA ExactIsSame ==
  ASSUME NEW v, NEW got, NEW texted, NEW modulus, Amount(v) = Amount(got), Amount(v) \in Int
  PROVE  SameNumber(v, got, texted, modulus)
<1>1. Amount(v) - Amount(got) = 0
  OBVIOUS
<1> QED
  BY <1>1 DEF SameNumber

\* What is left of a value that went into an integer as a text, or at once.
LEMMA WholeIsSame ==
  ASSUME NEW v, NEW to, NEW got \in Objects(to), NEW texted \in BOOLEAN, NEW modulus \in Nat,
         modulus # 0, (Amount(v) - Amount(got)) % (modulus * Place(0)) = 0
  PROVE  SameNumber(v, got, texted, modulus)
<1>1. Place(0) = Power(Base, MaxScale)
  BY UnsaidIs
<1> QED
  BY <1>1 DEF SameNumber

\* The way of a number over a text into a buffer.
LEMMA TextIsSame ==
  ASSUME NEW v, NEW texted \in BOOLEAN, Amount(v) \in Int,
         NEW w, w \in [text : DigitTexts],
         Near(Amount(v) - Amount(w), IF Is(v, "float") /\ texted THEN Place(FloatDigits) ELSE 0),
         Is(v, "float") => w.text.dot,
         NEW to, Suits(to), NEW o \in FromText(w.text, to), IsNumber(o),
         NEW modulus, Is(o, "int") /\ to.ctype \in Unsigned => modulus = Power(2, WideBits)
  PROVE  SameNumber(v, o, texted, modulus)
<1> DEFINE first == IF Is(v, "float") /\ texted THEN Place(FloatDigits) ELSE 0
           last == IF Is(o, "int") /\ Is(v, "float") THEN Place(0) ELSE 0
<1>1. Made(w, o, to) /\ Amount(o) \in Int /\ Amount(w) \in Int
  BY TextGives
<1>2. o \in Objects(to)
  <2>1. w.text \in Texts /\ to.ctype \in CTypes /\ to.precision \in Nat /\ to.scale \in 0 .. MaxScale
    BY DEF Texts, Suits
  <2> QED
    BY <2>1, FromTextTyped
<1>3. /\ Unsaid(v, o, texted) = first + Loss(o) + last
      /\ Place(0) \in Nat /\ Place(FloatDigits) \in Nat /\ Loss(o) \in Nat
  BY <1>2, UnsaidIs, LossIs
<1>4. first \in Nat /\ last \in Nat
  BY <1>3
<1>5. CASE ~Is(o, "int")
  <2> DEFINE a == Amount(v) - Amount(w)
             b == Amount(w) - Amount(o)
  <2>1. a \in Int /\ b \in Int /\ Near(a, first) /\ Near(b, Loss(o))
    BY <1>1, <1>5 DEF Made
  <2>2. a + b = Amount(v) - Amount(o)
    BY <1>1
  <2> HIDE DEF a, b, first, last
  <2>3. Near(a + b, first + Loss(o))
    BY <1>3, <1>4, <2>1, NearBoth
  <2>4. first + Loss(o) \in Nat /\ first + Loss(o) <= Unsaid(v, o, texted)
    BY <1>3, <1>4
  <2> DEFINE loss == first + Loss(o)
  <2>5. loss \in Nat /\ Near(Amount(v) - Amount(o), loss) /\ loss <= Unsaid(v, o, texted)
    BY <2>2, <2>3, <2>4
  <2> HIDE DEF loss
  <2> QED
    BY <1>1, <1>2, <2>5, NearIsSame
<1>6. CASE Is(o, "int")
  <2>1. ~w.text.dot
    BY <1>1, <1>6 DEF Made
  <2>2. first = 0
    BY <2>1
  <2>3. Amount(v) = Amount(w)
    BY <1>1, <2>2 DEF Near
  <2>4. CASE Amount(w) = Amount(o)
    <3>1. Near(Amount(v) - Amount(o), 0) /\ 0 <= Unsaid(v, o, texted)
      BY <1>1, <1>3, <1>4, <2>3, <2>4 DEF Near
    <3> QED
      BY <1>1, <1>2, <3>1, NearIsSame
  <2>5. CASE Amount(w) # Amount(o)
    <3>1. to.ctype \in Unsigned /\ (Amount(v) - Amount(o)) % WholeWidth = 0
      BY <1>1, <1>6, <2>3, <2>5 DEF Made
    <3>2. modulus \in Nat /\ modulus # 0
      <4>1. 2 \in Nat /\ 2 > 0 /\ WideBits \in Nat
        BY Bases
      <4>2. Power(2, WideBits) \in Nat /\ Power(2, WideBits) > 0
        BY <4>1, PowerPositive
      <4> QED
        BY <1>6, <3>1, <4>2
    <3>3. (Amount(v) - Amount(o)) % (modulus * Place(0)) = 0
      BY <1>6, <3>1 DEF WholeWidth
    <3> QED
      BY <1>2, <3>2, <3>3, WholeIsSame
  <2> QED
    BY <2>4, <2>5
<1> QED
  BY <1>5, <1>6

-----------------------------------------------------------------------------
(* What a value becomes without a text between *)

LEMMA ConvertedText ==
  ASSUME NEW t, NEW to, to.ctype \in CTypes
  PROVE  Converted([text |-> t], to) = FromText(t, to)
<1> DEFINE w == [text |-> t]
<1>1. Is(w, "text") /\ w.text = t
  BY DEF Is
<1>2. CASE to.ctype \in {"char", "wchar"}
  <2>1. Converted(w, to) = {[text |-> x] : x \in TextOf(w)}
    BY <1>2, KindIs DEF Converted
  <2>2. TextOf(w) = {t}
    BY <1>1 DEF TextOf
  <2>3. FromText(t, to) = {[text |-> t]}
    BY <1>2 DEF FromText, IntCTypes
  <2> HIDE DEF w
  <2> QED
    BY <2>1, <2>2, <2>3 DEF w
<1>3. CASE to.ctype \notin {"char", "wchar"}
  BY <1>1, <1>3, KindIs DEF Converted
<1> QED
  BY <1>2, <1>3

\* A structure stays what it is, unless a text is asked for.
LEMMA ConvertedOther ==
  ASSUME NEW v, ~Is(v, "text"), ~Is(v, "int"), ~Is(v, "float"), ~Is(v, "decimal"),
         NEW to, NEW o \in Converted(v, to)
  PROVE  (\E t \in TextOf(v) : o = [text |-> t]) \/ o = v
BY DEF Converted, When

\* A float as an integer loses its fraction.
LEMMA FloatAsWhole ==
  ASSUME NEW x \in Int, NEW v, v = [float |-> x], NEW o, o = [int |-> Truncated(x)]
  PROVE  /\ Near(Amount(v) - Amount(o), Place(0))
         /\ Amount(v) \in Int /\ Amount(o) \in Int /\ Truncated(x) \in Int
<1> DEFINE a == Magnitude(x)
           U == UnitsPerOne
           F == Place(FloatDigits + 1)
           w == a \div U
<1>1. U \in Nat /\ U > 0 /\ a \in Nat
  BY UnitsAre DEF Magnitude
<1>2. F \in Nat /\ F > 0 /\ Place(0) = U * F
  <2>1. 0 \in 0 .. MaxScale /\ FloatDigits + 1 \in 0 .. MaxScale /\ (FloatDigits + 1) - 0 = FloatDigits + 1
    BY Bases
  <2>2. Place(0) = Power(Base, (FloatDigits + 1) - 0) * F
    BY <2>1, PlaceSplits
  <2> QED
    BY <2>1, <2>2, PlaceIs DEF UnitsPerOne
<1>3. w \in Nat /\ U * w <= a /\ a < U * w + U
  <2> HIDE DEF U, a
  <2> QED
    BY <1>1, WholeParts, Bounds
<1>4. Truncated(x) = IF x < 0 THEN -w ELSE w
  BY DEF Truncated, Magnitude
<1>5. Amount(v) = x * F /\ Amount(v) \in Int
  BY AmountOfFloat DEF Is
<1>6. Truncated(x) \in Int
  <2> HIDE DEF w
  <2> QED
    BY <1>3, <1>4
<1>7. Amount(o) = Truncated(x) * Place(0) /\ Amount(o) \in Int
  BY <1>6, AmountOfInt DEF Is
<1>8. x = IF x < 0 THEN -a ELSE a
  BY DEF Magnitude
<1> HIDE DEF a, U, F, w
<1> DEFINE y == a * F
           z == w * (U * F)
           L == U * F
<1>9. Near(y - z, L) /\ y \in Nat /\ z \in Nat /\ L \in Nat
  BY <1>1, <1>2, <1>3, CutOff, ProductIsNat
<1>10. Amount(v) = IF x < 0 THEN -y ELSE y
  BY <1>1, <1>2, <1>5, <1>8
<1>11. Amount(o) = IF x < 0 THEN -z ELSE z
  <2>1. Amount(o) = Truncated(x) * L
    BY <1>2, <1>7
  <2>2. L \in Nat /\ z = w * L
    BY <1>9
  <2> HIDE DEF L, z
  <2> QED
    BY <1>3, <1>4, <2>1, <2>2
<1> HIDE DEF y, z, L
<1>12. Near(Amount(v) - Amount(o), L)
  BY <1>9, <1>10, <1>11 DEF Near
<1> QED
  BY <1>2, <1>5, <1>6, <1>7, <1>12 DEF L

\* RowBinary keeps the low bits of an integer, and all others lose only what the
\* type of the buffer cannot say; a float out of range of an integer is undefined.
KeptBits(to) == IF to.ctype \in IntCTypes THEN Power(2, IntTypeOf(to.ctype).bits) ELSE 0

LEMMA KeptBitsAre ==
  ASSUME NEW to
  PROVE  /\ KeptBits(to) \in Nat
         /\ to.ctype \in IntCTypes =>
              KeptBits(to) = Power(2, IntTypeOf(to.ctype).bits) /\ KeptBits(to) # 0
<1> DEFINE b == IntTypeOf(to.ctype).bits
<1>1. b \in Nat /\ 2 \in Nat /\ 2 > 0
  BY IntTypeIs
<1> HIDE DEF b
<1>2. Power(2, b) \in Nat /\ Power(2, b) > 0
  BY <1>1, PowerPositive
<1> QED
  BY <1>2 DEF KeptBits, b

LEMMA IntConvertedSame ==
  ASSUME NEW v, v \in [int : Int], NEW to \in Targets, KindOf(to.ctype) # "text",
         NEW o \in Converted(v, to), IsNumber(o)
  PROVE  SameNumber(v, o, TRUE, KeptBits(to))
<1> DEFINE i == v.int
<1>0. to.ctype \in CTypes /\ Suits(to)
  BY TargetsAssumption DEF Suits
<1>1. i \in Int /\ v = [int |-> i] /\ ~Is(v, "text") /\ Is(v, "int") /\ ~Is(v, "float")
  BY DEF Is
<1>2. o \in Objects(to) /\ o \in IntConverted(i, to)
  <2>1. v \in Unwrapped
    BY DEF Unwrapped
  <2> QED
    BY <1>1, <2>1, ConvertedTyped DEF Converted
<1>3. Amount(v) = i * Place(0) /\ Amount(v) \in Int
  BY <1>1, AmountOfInt
<1>4. Place(0) \in Nat /\ Place(0) > 0
  BY Bases, PlaceIs
<1>5. CASE KindOf(to.ctype) = "int"
  <2> DEFINE t == IntTypeOf(to.ctype)
             n == Narrow(i, t)
             W == Power(2, t.bits)
             Z == Place(0)
  <2>1. o = [int |-> n]
    BY <1>2, <1>5 DEF IntConverted
  <2>2. t.bits \in Nat /\ t.bits > 0 /\ t.signed \in BOOLEAN
    BY IntTypeIs
  <2>3. n \in Int /\ W \in Nat /\ W > 0
    <3> HIDE DEF t
    <3>1. n \in LowestOf(t) .. HighestOf(t)
      BY <1>1, <2>2, NarrowIs
    <3>2. W \in Nat /\ W > 0
      BY <2>2, WidthIs
    <3> HIDE DEF n, W
    <3> QED
      BY <3>1, <3>2
  <2>4. PICK k \in Int : i - n = k * W
    <3> HIDE DEF t
    <3> QED
      BY <1>1, <2>2, NarrowIs
  <2>5. Amount(o) = n * Z
    BY <2>1, <2>3, AmountOfInt DEF Is
  <2> HIDE DEF n, W, Z, t
  <2>6. Amount(v) - Amount(o) = k * (W * Z)
    <3>1. i * Z - n * Z = (i - n) * Z
      BY <1>1, <1>4, <2>3, Distributive DEF Z
    <3>2. (k * W) * Z = k * (W * Z)
      BY <1>4, <2>3, Associative DEF Z
    <3> QED
      BY <1>3, <2>4, <2>5, <3>1, <3>2 DEF Z
  <2>7. W * Z \in Nat /\ W * Z > 0
    BY <1>4, <2>3 DEF Z
  <2> DEFINE m == W * Z
  <2> HIDE DEF m
  <2>8. (k * m) % m = 0
    BY <2>7, Multiples DEF m
  <2>9. KeptBits(to) = W /\ KeptBits(to) # 0
    <3>1. to.ctype \in IntCTypes
      BY <1>0, <1>5, KindIs
    <3> QED
      BY <3>1, KeptBitsAre DEF W, t
  <2>10. (Amount(v) - Amount(o)) % (KeptBits(to) * Place(0)) = 0
    BY <2>6, <2>8, <2>9 DEF m, Z
  <2> QED
    BY <1>2, <2>9, <2>10, KeptBitsAre, WholeIsSame
<1>6. CASE KindOf(to.ctype) = "float"
  <2> DEFINE U == UnitsPerOne
             F == Place(FloatDigits + 1)
  <2>1. o = [float |-> i * U]
    BY <1>2, <1>6 DEF IntConverted
  <2>2. U \in Nat /\ F \in Nat /\ Place(0) = U * F
    <3>1. 0 \in 0 .. MaxScale /\ FloatDigits + 1 \in 0 .. MaxScale
          /\ (FloatDigits + 1) - 0 = FloatDigits + 1
      BY Bases
    <3>2. Place(0) = Power(Base, (FloatDigits + 1) - 0) * F
      BY <3>1, PlaceSplits
    <3> QED
      BY <3>1, <3>2, PlaceIs, UnitsAre DEF UnitsPerOne
  <2>3. i * U \in Int
    BY <1>1, <2>2
  <2>4. Amount(o) = (i * U) * F /\ Amount(o) \in Int
    BY <2>1, <2>3, AmountOfFloat DEF Is
  <2> HIDE DEF U, F
  <2>5. (i * U) * F = i * (U * F)
    BY <1>1, <2>2, Associative
  <2>6. Amount(v) - Amount(o) = 0
    BY <1>3, <2>2, <2>4, <2>5
  <2> QED
    BY <2>6 DEF SameNumber
<1>7. CASE KindOf(to.ctype) \notin {"int", "float"}
  <2> DEFINE w == [text |-> IntText(i)]
  <2>1. Amount(v) = Amount(w) /\ w \in [text : DigitTexts] /\ w.text = IntText(i)
    BY <1>1, IntAsText
  <2>2. o \in FromText(w.text, to)
    BY <1>2, <1>7 DEF IntConverted
  <2>3. ~Is(o, "int")
    BY <1>0, <1>7, <2>2, FromTextKinds, KindIs
  <2> HIDE DEF w
  <2>4. Near(Amount(v) - Amount(w), IF Is(v, "float") /\ TRUE THEN Place(FloatDigits) ELSE 0)
    BY <1>3, <2>1 DEF Near
  <2>5. SameNumber(v, o, TRUE, KeptBits(to))
    BY <1>0, <1>1, <1>3, <2>1, <2>2, <2>3, <2>4, TextIsSame
  <2> QED
    BY <2>5
<1> QED
  BY <1>5, <1>6, <1>7

\* A float that is out of range of the integer it is assigned to.
OutOfRange(v, o, to) ==
  /\ Is(v, "float") /\ Is(o, "int") /\ Truncated(v.float) # o.int
  /\ Truncated(v.float) \notin IntsOf(to)

LEMMA FloatConvertedSame ==
  ASSUME NEW v, v \in [float : Int], NEW to \in Targets, KindOf(to.ctype) # "text",
         NEW o \in Converted(v, to), IsNumber(o)
  PROVE  SameNumber(v, o, TRUE, KeptBits(to)) \/ OutOfRange(v, o, to)
<1> DEFINE x == v.float
<1>0. to.ctype \in CTypes /\ Suits(to)
  BY TargetsAssumption DEF Suits
<1>1. x \in Int /\ v = [float |-> x] /\ ~Is(v, "text") /\ ~Is(v, "int") /\ Is(v, "float")
  BY DEF Is
<1>2. o \in Objects(to) /\ o \in FloatConverted(x, to)
  <2>1. v \in Unwrapped
    BY DEF Unwrapped
  <2> QED
    BY <1>1, <2>1, ConvertedTyped DEF Converted
<1>3. Amount(v) \in Int
  BY <1>1, AmountOfFloat
<1>4. CASE KindOf(to.ctype) = "int"
  <2>1. PICK i \in FloatAsInt(x, IntTypeOf(to.ctype)) : o = [int |-> i]
    BY <1>2, <1>4 DEF FloatConverted
  <2>2. Is(o, "int") /\ o.int = i
    BY <2>1 DEF Is
  <2>3. CASE Truncated(x) \in IntsOf(to)
    <3>1. i = Truncated(x)
      BY <2>1, <2>3 DEF FloatAsInt, IntsOf
    <3>2. Near(Amount(v) - Amount(o), Place(0)) /\ Amount(o) \in Int
      BY <1>1, <2>1, <3>1, FloatAsWhole
    <3>3. Place(0) \in Nat /\ Place(0) <= Unsaid(v, o, TRUE)
      <4> DEFINE a == IF Is(v, "float") /\ TRUE THEN Place(FloatDigits) ELSE 0
      <4>1. /\ Unsaid(v, o, TRUE) = a + Loss(o) + Place(0)
            /\ Place(0) \in Nat
        BY <1>1, <1>2, <2>2, UnsaidIs
      <4>2. a \in Nat /\ Loss(o) \in Nat
        BY <1>2, UnsaidIs, LossIs
      <4> DEFINE n == Unsaid(v, o, TRUE)
                 l == Loss(o)
                 p == Place(0)
      <4>3. n = a + l + p /\ p \in Nat /\ a \in Nat /\ l \in Nat
        BY <4>1, <4>2
      <4> HIDE DEF a, n, l, p
      <4>4. p \in Nat /\ p <= n
        BY <4>3
      <4> QED
        BY <4>4 DEF p, n
    <3> QED
      BY <1>2, <1>3, <3>2, <3>3, NearIsSame
  <2>4. CASE Truncated(x) \notin IntsOf(to)
    <3>1. i \in IntsOf(to)
      BY <2>1 DEF FloatAsInt, IntsOf
    <3> QED
      BY <1>1, <2>2, <2>4, <3>1 DEF OutOfRange
  <2> QED
    BY <2>3, <2>4
<1>5. CASE KindOf(to.ctype) = "float"
  <2>1. o = v
    BY <1>1, <1>2, <1>5 DEF FloatConverted
  <2> QED
    BY <1>3, <2>1, ExactIsSame
<1>6. CASE KindOf(to.ctype) \notin {"int", "float"}
  <2> DEFINE w == [text |-> FloatText(x)]
  <2>1. Near(Amount(v) - Amount(w), Place(FloatDigits)) /\ w \in [text : DigitTexts]
        /\ w.text = FloatText(x)
    BY <1>1, FloatAsText
  <2>2. o \in FromText(w.text, to)
    BY <1>2, <1>6 DEF FloatConverted
  <2>3. ~Is(o, "int")
    BY <1>0, <1>6, <2>2, FromTextKinds, KindIs
  <2>4. w.text.dot
    <3>1. Says(FloatText(x), x < 0, Shown(x), FloatDigits)
      BY <1>1, FloatTextSays
    <3>2. FloatText(x).dot = (FloatDigits > 0)
      BY <3>1 DEF Says
    <3> QED
      BY <2>1, <3>2, Bases
  <2> HIDE DEF w
  <2>5. Near(Amount(v) - Amount(w), IF Is(v, "float") /\ TRUE THEN Place(FloatDigits) ELSE 0)
    BY <1>1, <2>1
  <2> QED
    BY <1>0, <1>1, <1>3, <2>1, <2>2, <2>3, <2>4, <2>5, TextIsSame
<1> QED
  BY <1>4, <1>5, <1>6

LEMMA DecimalConvertedSame ==
  ASSUME NEW v, v \in [decimal : Decimals], NEW to \in Targets, KindOf(to.ctype) # "text",
         NEW o \in Converted(v, to)
  PROVE  SameNumber(v, o, TRUE, KeptBits(to))
<1>0. to.precision \in Nat /\ to.scale \in 0 .. MaxScale
  BY TargetsAssumption
<1>1. ~Is(v, "text") /\ ~Is(v, "int") /\ ~Is(v, "float") /\ Is(v, "decimal") /\ v.decimal \in Decimals
  BY DEF Is
<1>2. o \in Objects(to) /\ o \in DecimalConverted(v.decimal, to)
  <2>1. v \in Unwrapped
    BY DEF Unwrapped
  <2> QED
    BY <1>1, <2>1, ConvertedTyped DEF Converted
<1>3. PICK n \in NumericFromDecimal(v.decimal, to.precision, to.scale) : o = [numeric |-> n]
  BY <1>2 DEF DecimalConverted
<1>4. Near(Amount(v) - Amount(o), Place(n.scale)) /\ Amount(o) \in Int
  BY <1>0, <1>3, NumericNear
<1>5. Amount(v) \in Int
  BY <1>1, AmountOfDecimal
<1>6. Is(o, "numeric") /\ ~Is(o, "float") /\ ~Is(o, "int") /\ o.numeric = n
  BY <1>3 DEF Is
<1>7. Loss(o) = Place(n.scale) /\ Loss(o) \in Nat
  BY <1>2, <1>6, LossIs DEF Loss
<1>8. Loss(o) <= Unsaid(v, o, TRUE)
  <2> DEFINE u == Unsaid(v, o, TRUE)
             l == Loss(o)
  <2>1. u = 0 + l + 0 /\ l \in Nat
    BY <1>1, <1>2, <1>6, <1>7, UnsaidIs
  <2> HIDE DEF u, l
  <2>2. l <= u
    BY <2>1
  <2> QED
    BY <2>2 DEF u, l
<1>9. Near(Amount(v) - Amount(o), Loss(o))
  BY <1>4, <1>7
<1> QED
  BY <1>2, <1>4, <1>5, <1>7, <1>8, <1>9, NearIsSame

\* A number as the text of a buffer.
LEMMA ShownSame ==
  ASSUME NEW v, v \in [int : Int] \cup [float : Int] \cup [decimal : Decimals],
         NEW to \in Targets, NEW t \in TextOf(v), NEW o, o = [text |-> t], NEW modulus
  PROVE  SameNumber(v, o, TRUE, modulus)
<1>0. Is(o, "text") /\ ~Is(o, "int") /\ ~Is(o, "float") /\ ~Is(o, "numeric") /\ Loss(o) = 0
  BY DEF Is, Loss
<1>1. o \in Objects(to)
  <2>1. v \in Held
    BY DEF Held
  <2>2. t \in Texts
    BY <2>1, TextOfTyped
  <2> QED
    BY <2>2 DEF Objects
<1>2. CASE v \in [int : Int]
  <2>1. t = IntText(v.int) /\ v = [int |-> v.int] /\ v.int \in Int
    BY <1>2 DEF TextOf, Is
  <2>2. Amount(v) = Amount(o) /\ Amount(v) \in Int
    BY <2>1, IntAsText
  <2> QED
    BY <2>2, ExactIsSame
<1>3. CASE v \in [float : Int]
  <2>1. t = FloatText(v.float) /\ v = [float |-> v.float] /\ v.float \in Int /\ Is(v, "float")
    BY <1>3 DEF TextOf, Is
  <2>2. /\ Near(Amount(v) - Amount(o), Place(FloatDigits))
        /\ Amount(v) \in Int /\ Amount(o) \in Int
    BY <2>1, FloatAsText
  <2>3. Unsaid(v, o, TRUE) = Place(FloatDigits) + 0 + 0 /\ Place(FloatDigits) \in Nat
    BY <1>0, <1>1, <2>1, UnsaidIs
  <2> DEFINE loss == Place(FloatDigits)
             n == Unsaid(v, o, TRUE)
  <2>5. n = loss + 0 + 0 /\ loss \in Nat /\ Near(Amount(v) - Amount(o), loss)
    BY <2>2, <2>3
  <2> HIDE DEF loss, n
  <2>6. loss <= n
    BY <2>5
  <2>4. loss \in Nat /\ loss <= Unsaid(v, o, TRUE) /\ Near(Amount(v) - Amount(o), loss)
    BY <2>5, <2>6 DEF n
  <2> QED
    BY <1>1, <2>2, <2>4, NearIsSame
<1>4. CASE v \in [decimal : Decimals]
  <2>1. t = DecimalText(v.decimal) /\ v = [decimal |-> v.decimal] /\ v.decimal \in Decimals
    BY <1>4 DEF TextOf, Is
  <2>2. Amount(v) = Amount(o) /\ Amount(v) \in Int
    BY <2>1, DecimalAsText
  <2> QED
    BY <2>2, ExactIsSame
<1> QED
  BY <1>2, <1>3, <1>4

\* A number that RowBinary reads, in any buffer.
LEMMA NumberConvertedSame ==
  ASSUME NEW v, v \in [int : Int] \cup [float : Int] \cup [decimal : Decimals],
         NEW to \in Targets, NEW o \in Converted(v, to), IsNumber(o)
  PROVE  SameNumber(v, o, TRUE, KeptBits(to)) \/ OutOfRange(v, o, to)
<1>1. CASE KindOf(to.ctype) = "text"
  <2>1. PICK t \in TextOf(v) : o = [text |-> t]
    BY <1>1 DEF Converted
  <2> QED
    BY <2>1, ShownSame
<1>2. CASE KindOf(to.ctype) # "text"
  BY <1>2, IntConvertedSame, FloatConvertedSame, DecimalConvertedSame
<1> QED
  BY <1>1, <1>2

\* A text that shows all digits of a float, and one that shows those of a Decimal.
LEMMA FloatShown ==
  ASSUME NEW x \in Int, NEW v, v = [float |-> x], NEW t,
         Says(t, x < 0, Magnitude(x), FloatDigits + 1), NEW o, o = [text |-> t]
  PROVE  Amount(v) = Amount(o) /\ Amount(o) \in Int /\ o \in [text : DigitTexts] /\ t.dot
<1> DEFINE a == Magnitude(x)
           right == FloatDigits + 1
           F == Place(right)
<1>1. a \in Nat /\ (x < 0) \in BOOLEAN /\ x = IF x < 0 THEN -a ELSE a
  BY DEF Magnitude
<1>2. right \in 0 .. MaxScale /\ right > 0
  BY Bases
<1>3. /\ x < 0 => Amount(o) = -(a * F)
      /\ ~(x < 0) => Amount(o) = a * F
      /\ Amount(o) \in Int /\ o \in [text : DigitTexts]
  BY <1>1, <1>2, SaysAmount
<1>4. Amount(v) = x * F
  BY AmountOfFloat DEF Is
<1>5. F \in Nat
  BY <1>2, PlaceIs
<1>6. t.dot = (right > 0)
  BY DEF Says
<1> HIDE DEF a, F
<1>7. Amount(v) = Amount(o)
  BY <1>1, <1>3, <1>4, <1>5
<1> QED
  BY <1>2, <1>3, <1>6, <1>7

LEMMA DecimalShown ==
  ASSUME NEW d \in Decimals, NEW v, v = [decimal |-> d], NEW t,
         Says(t, d.sign = 0, d.value, d.scale), NEW o, o = [text |-> t]
  PROVE  Amount(v) = Amount(o) /\ Amount(o) \in Int /\ o \in [text : DigitTexts]
<1> DEFINE y == d.value * Place(d.scale)
<1>1. d.value \in Nat /\ d.scale \in 0 .. MaxScale /\ (d.sign = 0) \in BOOLEAN
  BY DEF Decimals
<1>2. /\ d.sign = 0 => Amount(o) = -y
      /\ ~(d.sign = 0) => Amount(o) = y
      /\ Amount(o) \in Int /\ o \in [text : DigitTexts]
  BY <1>1, SaysAmount
<1>3. Amount(v) = Signed(d.sign = 0, y)
  BY AmountOfDecimal DEF Is
<1> HIDE DEF y
<1> QED
  BY <1>2, <1>3 DEF Signed

\* A number that ODBCDriver2 reads as its text, in any buffer.
LEMMA ServerAmount ==
  ASSUME NEW c, c.value \in [int : Int] \cup [float : Int] \cup [decimal : Decimals],
         NEW w, w = [text |-> ServerText(c)]
  PROVE  /\ Amount(c.value) = Amount(w) /\ Amount(w) \in Int
         /\ w \in [text : DigitTexts] /\ (Is(c.value, "float") => w.text.dot)
<1> DEFINE v == c.value
<1>1. CASE v \in [int : Int]
  <2>1. /\ ~Is(v, "decimal") /\ ~Is(v, "float") /\ ~Is(v, "ticks") /\ ~Is(v, "text") /\ Is(v, "int")
        /\ v = [int |-> v.int] /\ v.int \in Int
    BY <1>1 DEF Is
  <2>2. TextOf(v) = {IntText(v.int)}
    BY <2>1 DEF TextOf
  <2>3. ServerText(c) = IntText(v.int)
    BY <2>1, <2>2 DEF ServerText
  <2> HIDE DEF v
  <2>4. Amount(v) = Amount(w) /\ Amount(v) \in Int /\ w \in [text : DigitTexts]
    BY <2>1, <2>3, IntAsText
  <2> QED
    BY <2>1, <2>4 DEF v
<1>2. CASE v \in [float : Int]
  <2>1. /\ ~Is(v, "decimal") /\ Is(v, "float")
        /\ v = [float |-> v.float] /\ v.float \in Int
    BY <1>2 DEF Is
  <2>2. Says(ServerText(c), v.float < 0, Magnitude(v.float), FloatDigits + 1)
    BY <2>1, ServerFloat
  <2> QED
    BY <2>1, <2>2, FloatShown
<1>3. CASE v \in [decimal : Decimals]
  <2>1. /\ Is(v, "decimal") /\ ~Is(v, "float")
        /\ v = [decimal |-> v.decimal] /\ v.decimal \in Decimals
    BY <1>3 DEF Is
  <2>2. Says(ServerText(c), v.decimal.sign = 0, v.decimal.value, v.decimal.scale)
    BY <2>1, ServerDecimal
  <2> QED
    BY <2>1, <2>2, DecimalShown
<1> QED
  BY <1>1, <1>2, <1>3

-----------------------------------------------------------------------------
(* Where a value comes from *)

\* A column of the server, and one that it makes of a parameter's text.
Answered(c) ==
  /\ c.value \in ColumnValues /\ c.precision \in 0 .. FractionDigits /\ c.format \in Formats
  /\ Is(c.value, "ticks") => LocalMoment(c).date # ZeroDate
Echoed(c, text) ==
  c.value = (IF text = Nothing THEN Nothing ELSE [text |-> text]) /\ c.format \in Formats
Sent(par) == par.bound \in Params /\ par.text \in ParameterText(par.bound)

\* A column has what the server was sent or had, and a field is read of it.
History ==
  /\ at = "idle" => param = NoParam
  /\ at = "sent" => param # NoParam
  /\ at \in {"sent", "answered", "read", "given"} /\ param # NoParam => Sent(param)
  /\ at \in {"answered", "read", "given"} =>
       (IF param = NoParam THEN Answered(column) ELSE Echoed(column, param.text))
  /\ at \in {"read", "given"} => field \in ReadValue(column)

LEMMA StartsWithHistory == Init => History
BY DEF Init, History

LEMMA BoundIsParam ==
  ASSUME NEW p \in Params, NEW t
  PROVE  [bound |-> p, text |-> t] # NoParam
<1>1. p # Nothing
  <2>1. p \in [ctype : CTypes, value : ParamValues, indicator : Int, size : Int,
               precision : Nat, scale : 0 .. MaxScale]
    BY ParamsAssumption
  <2>2. "ctype" \in DOMAIN p /\ "ctype" \notin DOMAIN Nothing
    BY <2>1 DEF Nothing
  <2> QED
    BY <2>2
<1> QED
  BY <1>1 DEF NoParam

LEMMA KeepsHistory == History /\ [Next]_vars => History'
<1> SUFFICES ASSUME History, [Next]_vars PROVE History'
  OBVIOUS
<1> USE DEF History
<1>1. ASSUME NEW p \in Params, SendParameter(p) PROVE History'
  <2>1. PICK t \in ParameterText(p) : param' = [bound |-> p, text |-> t]
    BY <1>1 DEF SendParameter
  <2>2. param' # NoParam /\ Sent(param')
    BY <2>1, BoundIsParam DEF Sent
  <2> QED
    BY <1>1, <2>2 DEF SendParameter
<1>2. ASSUME NEW p \in Params, RefuseParameter(p) PROVE History'
  BY <1>2 DEF RefuseParameter
<1>3. ASSUME NEW f \in Formats, Echo(f) PROVE History'
  <2>1. Echoed(column', param.text)
    BY <1>3 DEF Echo, Echoed
  <2> QED
    BY <1>3, <2>1 DEF Echo
<1>4. ASSUME NEW k \in Columns, NEW f \in Formats, Answer(k, f) PROVE History'
  <2>1. column' = [value |-> k.value, precision |-> k.precision, format |-> f]
    BY <1>4 DEF Answer
  <2>2. column'.value = k.value /\ column'.precision = k.precision /\ column'.format = f
    BY <2>1
  <2>3. LocalMoment(column') = LocalMoment(k)
    BY <2>2 DEF LocalMoment
  <2>4. Answered(column')
    BY <2>2, <2>3, ColumnsAssumption DEF Answered
  <2> QED
    BY <1>4, <2>4 DEF Answer
<1>5. CASE Read
  BY <1>5 DEF Read
<1>6. CASE ReadFails
  BY <1>6 DEF ReadFails
<1>7. ASSUME NEW to \in Targets, Extract(to) PROVE History'
  BY <1>7 DEF Extract
<1>8. CASE UNCHANGED vars
  BY <1>8 DEF vars
<1> QED
  BY <1>1, <1>2, <1>3, <1>4, <1>5, <1>6, <1>7, <1>8 DEF Next

LEMMA AlwaysKnown == Spec => [](Typed /\ History)
<1>1. Init => History
  BY StartsWithHistory
<1>2. History /\ [Next]_vars => History'
  BY KeepsHistory
<1>3. Spec => []History
  BY <1>1, <1>2, PTL DEF Spec
<1> QED
  BY <1>3, AlwaysTyped, PTL

\* What is found in a buffer was converted from the field.
Found(v, to, got) ==
  \E u \in Unwired(v) : u \in Unwrapped /\ got \in Converted(u, to)

LEMMA FoundIs ==
  ASSUME Typed, at = "given", cell.got # Nothing
  PROVE  /\ target \in Targets /\ Suits(target) /\ cell.got \in Objects(target)
         /\ field \in Fields /\ field # Nothing /\ Found(field, target, cell.got)
<1>1. target \in Targets /\ cell \in WriteData(field, target) /\ field \in Fields
  BY DEF Typed
<1>2. Suits(target)
  BY <1>1, TargetsAssumption DEF Suits
<1>3. cell.got \in Objects(target)
  BY CellTyped
<1>4. field # Nothing
  BY <1>1, WrittenIs
<1>5. PICK u \in Unwired(field) : \E o \in Converted(u, target) :
        cell.got = IF Is(o, "text") THEN [text |-> o.text] ELSE o
  BY <1>1, WrittenIs
<1>6. PICK o \in Converted(u, target) :
        cell.got = IF Is(o, "text") THEN [text |-> o.text] ELSE o
  BY <1>5
<1>7. u \in Unwrapped
  BY <1>1, <1>4, UnwiredTyped
<1>8. o \in Objects(target)
  BY <1>1, <1>7, ConvertedTyped
<1>9. cell.got = o
  <2>1. CASE Is(o, "text")
    <3>1. o \in [text : Texts]
      BY <1>8, <2>1, ObjectKinds
    <3>2. o = [text |-> o.text]
      BY <3>1
    <3> QED
      BY <1>6, <2>1, <3>2
  <2>2. CASE ~Is(o, "text")
    BY <1>6, <2>2
  <2> QED
    BY <2>1, <2>2
<1>10. Found(field, target, cell.got)
  BY <1>5, <1>6, <1>7, <1>9 DEF Found
<1> QED
  BY <1>1, <1>2, <1>3, <1>4, <1>10

-----------------------------------------------------------------------------
(* What is found of a column *)

LEMMA WholeQuotient ==
  ASSUME NEW b \in Nat, b > 0, NEW q \in Int, NEW r \in 0 .. b - 1
  PROVE  (q * b + r) \div b = q
<1> DEFINE x == q * b + r
<1>1. q * b \in Int /\ b * q = q * b
  OBVIOUS
<1>2. x \in Int
  BY <1>1
<1> HIDE DEF x
<1>3. PICK p \in Int, s \in 0 .. b - 1 : Divides(x, b, p, s)
  BY <1>2, Division
<1>4. b * p + s = b * q + r /\ p = x \div b
  BY <1>1, <1>3 DEF Divides, x
<1>5. b * (p - q) = b * p - b * q /\ b * p \in Int /\ b * q \in Int /\ p - q \in Int
  BY <1>3
<1> DEFINE e == p - q
<1>6. e \in Int /\ b * e = r - s
  BY <1>3, <1>4, <1>5
<1> HIDE DEF e
<1>7. e = 0
  <2>1. ASSUME e >= 1 PROVE FALSE
    <3>1. b * e >= b
      BY <1>6, <2>1
    <3> QED
      BY <1>3, <1>6, <3>1
  <2>2. ASSUME e <= -1 PROVE FALSE
    <3>1. b * e <= -b
      BY <1>6, <2>2
    <3> QED
      BY <1>3, <1>6, <3>1
  <2> QED
    BY <1>6, <2>1, <2>2
<1>8. p = q
  BY <1>3, <1>7 DEF e
<1> QED
  BY <1>4, <1>8 DEF x

\* What ODBCDriver2 reads is the text of the server.
LEMMA FoundInText ==
  ASSUME NEW c, c.format = "ODBCDriver2", NEW v \in ReadValue(c), v # Nothing,
         NEW to, to.ctype \in CTypes, NEW got, Found(v, to, got)
  PROVE  c.value # Nothing /\ got \in FromText(ServerText(c), to)
<1>1. c.value # Nothing /\ v = [text |-> ServerText(c)]
  BY DEF ReadValue, ReadODBCDriver2
<1>2. Unwired(v) = {v}
  BY <1>1 DEF Unwired, Is
<1>3. got \in Converted(v, to)
  BY <1>2 DEF Found
<1> QED
  BY <1>1, <1>3, ConvertedText

\* What RowBinary reads is the value, a date and a time in the local time zone.
LEMMA FoundInBinary ==
  ASSUME NEW c, Answered(c), c.format = "RowBinary", NEW v \in ReadValue(c), v # Nothing,
         NEW to, NEW got, Found(v, to, got)
  PROVE  /\ c.value # Nothing
         /\ c.value \in [int : Int] \cup [float : Int] \cup [decimal : Decimals] \cup [guid : STRING]
              => got \in Converted(c.value, to)
         /\ c.value \in [day : Int]
              => got \in Converted([day |-> Clock(c.value.day * DaySeconds, 0).timestamp.date], to)
         /\ c.value \in [ticks : Int]
              => \E u \in IF c.precision = 0 THEN {Clock(c.value.ticks, 0)}
                          ELSE ClockOfTicks(c.value.ticks, c.precision) :
                   u \in Unwrapped /\ got \in Converted(u, to)
<1> DEFINE w == c.value
<1>1. w # Nothing /\ v \in ReadRowBinary(c)
  BY DEF ReadValue, ReadRowBinary
<1>2. PICK u \in Unwired(v) : u \in Unwrapped /\ got \in Converted(u, to)
  BY DEF Found
<1>3. ASSUME w \in [int : Int] \/ w \in [float : Int] \/ w \in [decimal : Decimals]
               \/ w \in [guid : STRING]
      PROVE  got \in Converted(w, to)
  <2>1. /\ ~Is(w, "text") /\ ~Is(w, "day") /\ ~Is(w, "ticks") /\ ~Is(w, "wireDate")
        /\ ~Is(w, "wireDateTime") /\ ~Is(w, "wireTicks")
    BY <1>3 DEF Is
  <2>2. v = w
    BY <1>1, <2>1 DEF ReadRowBinary, When
  <2>3. u = w
    BY <1>2, <2>1, <2>2 DEF Unwired
  <2> QED
    BY <1>2, <2>3
<1>4. ASSUME w \in [day : Int]
      PROVE  got \in Converted([day |-> Clock(w.day * DaySeconds, 0).timestamp.date], to)
  <2>1. ~Is(w, "text") /\ ~Is(w, "decimal") /\ Is(w, "day")
    BY <1>4 DEF Is
  <2>2. v = [wireDate |-> w.day]
    BY <1>1, <2>1 DEF ReadRowBinary
  <2>3. u = [day |-> Clock(w.day * DaySeconds, 0).timestamp.date]
    <3>1. Is(v, "wireDate") /\ v.wireDate = w.day
      BY <2>2 DEF Is
    <3> QED
      BY <1>2, <3>1 DEF Unwired
  <2> QED
    BY <1>2, <2>3
<1>5. ASSUME w \in [ticks : Int]
      PROVE  u \in IF c.precision = 0 THEN {Clock(w.ticks, 0)} ELSE ClockOfTicks(w.ticks, c.precision)
  <2>1. ~Is(w, "text") /\ ~Is(w, "decimal") /\ ~Is(w, "day") /\ Is(w, "ticks")
    BY <1>5 DEF Is
  <2>2. CASE c.precision = 0
    <3>1. v = [wireDateTime |-> w.ticks]
      BY <1>1, <2>1, <2>2 DEF ReadRowBinary
    <3>2. ~Is(v, "wireDate") /\ Is(v, "wireDateTime") /\ v.wireDateTime = w.ticks
      BY <3>1 DEF Is
    <3> QED
      BY <1>2, <2>2, <3>2 DEF Unwired
  <2>3. CASE c.precision # 0
    <3>1. v = [wireTicks |-> w.ticks, precision |-> c.precision]
      BY <1>1, <2>1, <2>3 DEF ReadRowBinary
    <3>2. /\ ~Is(v, "wireDate") /\ ~Is(v, "wireDateTime") /\ Is(v, "wireTicks")
          /\ v.wireTicks = w.ticks /\ v.precision = c.precision
      BY <3>1 DEF Is
    <3> QED
      BY <1>2, <2>3, <3>2 DEF Unwired
  <2> QED
    BY <2>2, <2>3
<1> QED
  BY <1>1, <1>2, <1>3, <1>4, <1>5

-----------------------------------------------------------------------------
(* Columns *)

LEMMA ColumnNumber ==
  ASSUME NEW c, Answered(c), NEW v \in ReadValue(c), v # Nothing,
         NEW to \in Targets, Suits(to), NEW got, Found(v, to, got),
         c.value \in [int : Int] \cup [float : Int] \cup [decimal : Decimals], IsNumber(got)
  PROVE  IF c.format = "RowBinary"
         THEN SameNumber(c.value, got, TRUE, KeptBits(to)) \/ OutOfRange(c.value, got, to)
         ELSE SameNumber(c.value, got, FALSE,
                         IF to.ctype \in Unsigned THEN Power(2, WideBits) ELSE 0)
<1>1. CASE c.format = "RowBinary"
  <2>1. got \in Converted(c.value, to)
    BY <1>1, FoundInBinary
  <2> QED
    BY <1>1, <2>1, NumberConvertedSame
<1>2. CASE c.format # "RowBinary"
  <2> DEFINE w == [text |-> ServerText(c)]
             modulus == IF to.ctype \in Unsigned THEN Power(2, WideBits) ELSE 0
  <2>1. c.format = "ODBCDriver2" /\ to.ctype \in CTypes
    BY <1>2 DEF Answered, Formats, Suits
  <2>2. got \in FromText(w.text, to)
    BY <2>1, FoundInText
  <2>3. /\ Amount(c.value) = Amount(w) /\ Amount(w) \in Int
        /\ w \in [text : DigitTexts] /\ (Is(c.value, "float") => w.text.dot)
    BY ServerAmount
  <2> HIDE DEF w
  <2>4. Amount(c.value) - Amount(w) = 0
    BY <2>3
  <2>5. Near(Amount(c.value) - Amount(w),
             IF Is(c.value, "float") /\ FALSE THEN Place(FloatDigits) ELSE 0)
    BY <2>4 DEF Near
  <2>6. Is(got, "int") /\ to.ctype \in Unsigned => modulus = Power(2, WideBits)
    OBVIOUS
  <2> HIDE DEF modulus
  <2>7. FALSE \in BOOLEAN
    OBVIOUS
  <2>8. SameNumber(c.value, got, FALSE, modulus)
    BY <2>2, <2>3, <2>5, <2>6, <2>7, TextIsSame
  <2> QED
    BY <1>2, <2>8 DEF modulus
<1> QED
  BY <1>1, <1>2

LEMMA ColumnGuid ==
  ASSUME NEW c, Answered(c), NEW v \in ReadValue(c), v # Nothing,
         NEW to, Suits(to), NEW got, Found(v, to, got),
         c.value \in [guid : STRING], Is(got, "guid")
  PROVE  got = c.value
<1>1. /\ ~Is(c.value, "text") /\ ~Is(c.value, "int") /\ ~Is(c.value, "float")
      /\ ~Is(c.value, "decimal") /\ ~Is(c.value, "numeric") /\ Is(c.value, "guid")
      /\ ~Is(c.value, "ticks")
  BY DEF Is
<1>2. CASE c.format = "RowBinary"
  <2>1. got \in Converted(c.value, to)
    BY <1>2, FoundInBinary
  <2>2. \A t : ~Is([text |-> t], "guid")
    BY DEF Is
  <2> QED
    BY <1>1, <2>1, <2>2, ConvertedOther
<1>3. CASE c.format # "RowBinary"
  <2>1. c.format = "ODBCDriver2" /\ to.ctype \in CTypes
    BY <1>3 DEF Answered, Formats, Suits
  <2>2. got \in FromText(ServerText(c), to)
    BY <2>1, FoundInText
  <2>3. ServerText(c) = [uuid |-> c.value.guid]
    BY <1>1 DEF ServerText, TextOf
  <2>4. got = [guid |-> ServerText(c).uuid]
    BY <2>1, <2>2, FromTextKinds
  <2> QED
    BY <2>3, <2>4
<1> QED
  BY <1>2, <1>3

LEMMA ColumnDay ==
  ASSUME NEW c, Answered(c), NEW v \in ReadValue(c), v # Nothing,
         NEW to, Suits(to), NEW got, Found(v, to, got),
         c.value \in [day : Int \ {ZeroDate}], Is(got, "day"),
         c.format = "RowBinary" => Offset >= 0
  PROVE  got.day = c.value.day
<1>1. CASE c.format = "RowBinary"
  <2> DEFINE w == [day |-> Clock(c.value.day * DaySeconds, 0).timestamp.date]
  <2>1. got \in Converted(w, to)
    BY <1>1, FoundInBinary
  <2>2. ~Is(w, "text") /\ ~Is(w, "int") /\ ~Is(w, "float") /\ ~Is(w, "decimal")
    BY DEF Is
  <2>3. \A t : ~Is([text |-> t], "day")
    BY DEF Is
  <2>4. got = w
    <3> HIDE DEF w
    <3> QED
      BY <2>1, <2>2, <2>3, ConvertedOther
  <2>5. Offset \in 0 .. DaySeconds - 1
    BY <1>1, ValuesAssumption
  <2>6. (c.value.day * DaySeconds + Offset) \div DaySeconds = c.value.day
    BY <2>5, Bases, WholeQuotient
  <2>7. got.day = (c.value.day * DaySeconds + Offset) \div DaySeconds
    BY <2>4 DEF Clock
  <2> QED
    BY <2>6, <2>7
<1>2. CASE c.format # "RowBinary"
  <2>1. c.format = "ODBCDriver2" /\ to.ctype \in CTypes
    BY <1>2 DEF Answered, Formats, Suits
  <2>2. got \in FromText(ServerText(c), to)
    BY <2>1, FoundInText
  <2>3. ServerText(c) = MomentText(c.value.day, NoTime, <<>>)
    BY DEF ServerText, TextOf, Is
  <2>4. got = [day |-> Normal(ServerText(c).date)]
    BY <2>1, <2>2, FromTextKinds
  <2>5. ServerText(c).date = c.value.day
    BY <2>3 DEF MomentText
  <2> QED
    BY <2>4, <2>5 DEF Normal
<1> QED
  BY <1>1, <1>2

\* The server's clock, as its text shows it.
LEMMA ServerShowsMoment ==
  ASSUME NEW c, Answered(c), c.value \in [ticks : Int], NEW m \in TimestampFromText(ServerText(c))
  PROVE  m = LocalMoment(c)
<1> DEFINE p == Power(Base, c.precision)
           r == c.value.ticks % p
           f == ServerFraction(c)
           text == ServerText(c)
           d == ServerSeconds(c) \div DaySeconds
           s == ServerSeconds(c) % DaySeconds
           k == Power(Base, FractionDigits - c.precision)
<1>1. c.precision \in 0 .. FractionDigits /\ Is(c.value, "ticks") /\ LocalMoment(c).date # ZeroDate
  BY DEF Answered, Is
<1>2. /\ text = [date |-> d, time |-> s, fraction |-> f] /\ text \in MomentTexts
      /\ f \in Seq(Digit) /\ Len(f) = c.precision /\ r \in 0 .. p - 1
  BY <1>1, ServerTicks
<1>3. LocalMoment(c) = [date |-> d, time |-> s, fraction |-> r * k]
  BY DEF LocalMoment, ServerSeconds
<1>4. m = [date |-> Normal(text.date),
           time |-> IF text.time = NoTime THEN 0 ELSE text.time,
           fraction |-> FractionFromText(text.fraction)]
  BY DEF TimestampFromText, When
<1>5. f = DigitsOf(r, c.precision, Base)
  BY DEF ServerFraction
<1>6. c.precision \in Nat /\ c.precision <= FractionDigits
  BY <1>1, Bases
<1>7. p \in Nat
  BY <1>6, Bases, PowerPositive
<1>8. s # NoTime
  <2>1. text.time = s
    BY <1>2
  <2>2. ServerSeconds(c) \in Int
    BY <1>1, ServerTicks
  <2>3. s \in 0 .. DaySeconds - 1
    BY <2>2, Bases, Division
  <2> QED
    BY <2>3, Bases DEF NoTime
<1>9. FractionFromText(f) = r * k
  <2>1. FractionFromText(f) = ValueOf(f, Base) * Power(Base, FractionDigits - Len(f))
    BY <1>2, <1>6, FractionFromTextIs
  <2>2. ValueOf(f, Base) = r
    <3>1. r \in Nat /\ r < p
      <4> HIDE DEF r, p
      <4> QED
        BY <1>2, <1>7
    <3> QED
      BY <1>5, <1>6, <3>1, Bases, DigitsValue
  <2> QED
    BY <1>2, <2>1, <2>2
<1>10. d # ZeroDate
  BY <1>1, <1>3
<1> HIDE DEF d, s, f, r, k, text
<1>11. text.date = d /\ text.time = s /\ text.fraction = f
  BY <1>2
<1> QED
  BY <1>3, <1>4, <1>8, <1>9, <1>10, <1>11 DEF Normal

LEMMA ColumnMomentText ==
  ASSUME NEW c, Answered(c), c.format # "RowBinary", NEW v \in ReadValue(c), v # Nothing,
         NEW to, Suits(to), NEW got, Found(v, to, got), c.value \in [ticks : Int]
  PROVE  /\ Is(got, "timestamp") => got.timestamp = LocalMoment(c)
         /\ Is(got, "day") => got.day = LocalMoment(c).date
<1>1. c.format = "ODBCDriver2" /\ to.ctype \in CTypes
  BY DEF Answered, Formats, Suits
<1>2. got \in FromText(ServerText(c), to)
  BY <1>1, FoundInText
<1>3. ASSUME Is(got, "timestamp") PROVE got.timestamp = LocalMoment(c)
  <2>1. PICK m \in TimestampFromText(ServerText(c)) : got = [timestamp |-> m]
    BY <1>1, <1>2, <1>3, FromTextKinds
  <2>2. m = LocalMoment(c)
    BY ServerShowsMoment
  <2> QED
    BY <2>1, <2>2
<1>4. ASSUME Is(got, "day") PROVE got.day = LocalMoment(c).date
  <2>1. Is(ServerText(c), "date") /\ got = [day |-> Normal(ServerText(c).date)]
    BY <1>1, <1>2, <1>4, FromTextKinds
  <2> DEFINE m == [date |-> Normal(ServerText(c).date),
                   time |-> IF ServerText(c).time = NoTime THEN 0 ELSE ServerText(c).time,
                   fraction |-> FractionFromText(ServerText(c).fraction)]
  <2>2. m \in TimestampFromText(ServerText(c))
    BY <2>1 DEF TimestampFromText, When
  <2>3. m = LocalMoment(c)
    <3> HIDE DEF m
    <3> QED
      BY <2>2, ServerShowsMoment
  <2> QED
    BY <2>1, <2>3
<1> QED
  BY <1>3, <1>4

LEMMA ColumnMomentBinary ==
  ASSUME NEW c, Answered(c), c.format = "RowBinary", NEW v \in ReadValue(c), v # Nothing,
         NEW to, Suits(to), NEW got, Found(v, to, got), c.value \in [ticks : Int]
  PROVE  /\ Is(got, "timestamp") /\ c.value.ticks >= 0 /\ c.precision \in {0, FractionDigits} =>
              got.timestamp = LocalMoment(c)
         /\ ~Is(got, "day")
<1> DEFINE x == c.value.ticks
<1>1. PICK u \in IF c.precision = 0 THEN {Clock(x, 0)} ELSE ClockOfTicks(x, c.precision) :
        u \in Unwrapped /\ got \in Converted(u, to)
  BY FoundInBinary
<1>2. \E seconds, fraction : u = Clock(seconds, fraction)
  BY <1>1 DEF ClockOfTicks, When
<1>3. \E m : u = [timestamp |-> m]
  BY <1>2 DEF Clock
<1>4. ~Is(u, "text") /\ ~Is(u, "int") /\ ~Is(u, "float") /\ ~Is(u, "decimal") /\ ~Is(u, "day")
  BY <1>3 DEF Is
<1>5. \A t : ~Is([text |-> t], "day") /\ ~Is([text |-> t], "timestamp")
  BY DEF Is
<1>6. (\E t : got = [text |-> t]) \/ got = u
  BY <1>1, <1>4, ConvertedOther
<1>7. ~Is(got, "day")
  BY <1>4, <1>5, <1>6
<1>8. ASSUME Is(got, "timestamp"), x >= 0, c.precision \in {0, FractionDigits}
      PROVE  got.timestamp = LocalMoment(c)
  <2> DEFINE p == Power(Base, c.precision)
             local == x \div p + Offset
             k == Power(Base, FractionDigits - c.precision)
  <2>1. got = u /\ x \in Nat
    BY <1>5, <1>6, <1>8
  <2>2. LocalMoment(c) = [date |-> local \div DaySeconds, time |-> local % DaySeconds,
                          fraction |-> (x % p) * k]
    BY DEF LocalMoment
  <2>3. CASE c.precision = 0
    <3>1. u = Clock(x, 0)
      BY <1>1, <2>3
    <3>2. p = 1
      BY <2>3, Bases, PowerNext
    <3>3. k \in Nat
      <4>1. FractionDigits - c.precision = FractionDigits
        BY <2>3, Bases
      <4> QED
        BY <4>1, Bases, PowerNext
    <3> HIDE DEF p, k
    <3>4. x \div p = x /\ x % p = 0
      BY <2>1, <3>2
    <3>5. (x % p) * k = 0
      BY <3>3, <3>4
    <3>6. local = x + Offset
      BY <3>4
    <3> HIDE DEF local, x
    <3>7. u = [timestamp |-> [date |-> local \div DaySeconds, time |-> local % DaySeconds,
                              fraction |-> 0]]
      BY <3>1, <3>6 DEF Clock
    <3> QED
      BY <2>1, <2>2, <3>5, <3>7
  <2>4. CASE c.precision # 0
    <3>1. c.precision = FractionDigits /\ FractionDigits - c.precision = 0
      BY <1>8, <2>4, Bases
    <3>2. k = 1
      BY <3>1, Bases, PowerNext
    <3>3. u = Clock(x \div p, x % p)
      <4>1. ~(x < 0)
        BY <2>1
      <4>2. u \in ClockOfTicks(x, c.precision)
        BY <1>1, <2>4
      <4> HIDE DEF x
      <4> QED
        BY <4>1, <4>2 DEF ClockOfTicks, When
    <3>4. x % p \in Int
      <4>1. p \in Nat /\ p > 0
        BY <3>1, Bases, PowerPositive
      <4> HIDE DEF p, x
      <4> QED
        BY <2>1, <4>1, WholeParts
    <3> HIDE DEF p, x, k
    <3>5. (x % p) * k = x % p
      BY <3>2, <3>4
    <3>6. u = [timestamp |-> [date |-> local \div DaySeconds, time |-> local % DaySeconds,
                              fraction |-> x % p]]
      BY <3>3 DEF Clock
    <3> QED
      BY <2>1, <2>2, <3>5, <3>6
  <2> QED
    BY <2>3, <2>4
<1> QED
  BY <1>7, <1>8

\* Whatever the scales, widths and clocks: a column that the application reads as
\* a number, a GUID, a date or a timestamp is what the server has, in both formats,
\* up to what the type of the buffer cannot say (the readers of the formats and the
\* conversions of type_info.h).
THEOREM ColumnsAreShown == Spec => []ColumnIsShown
<1>1. Typed /\ History => ColumnIsShown
  <2> SUFFICES ASSUME Typed, History, Given, param = NoParam PROVE ColumnIsShown
    BY DEF ColumnIsShown
  <2> DEFINE v == column.value
             got == cell.got
  <2>1. at = "given" /\ got # Nothing
    BY DEF Given
  <2>2. /\ target \in Targets /\ Suits(target) /\ field \in Fields /\ field # Nothing
        /\ Found(field, target, got) /\ got \in Objects(target)
    BY <2>1, FoundIs
  <2>3. Answered(column) /\ field \in ReadValue(column)
    BY <2>1 DEF History
  <2>4. column.format \in {"ODBCDriver2", "RowBinary"}
    BY <2>3 DEF Answered, Formats
  <2>5. v \in ColumnValues /\ v # Nothing
    <3>1. column.format = "RowBinary" => v # Nothing
      BY <2>2, <2>3, FoundInBinary
    <3>2. column.format = "ODBCDriver2" => v # Nothing
      BY <2>2, <2>3, FoundInText DEF Suits
    <3> QED
      BY <2>3, <2>4, <3>1, <3>2 DEF Answered
  <2>6. /\ Is(v, "int") => v \in [int : Int]
        /\ Is(v, "float") => v \in [float : Int]
        /\ Is(v, "decimal") => v \in [decimal : Decimals]
        /\ Is(v, "guid") => v \in [guid : STRING]
        /\ Is(v, "day") => v \in [day : Int \ {ZeroDate}]
        /\ Is(v, "ticks") => v \in [ticks : Int]
        /\ ~Is(v, "numeric") /\ ~Is(v, "text")
    BY <2>5 DEF ColumnValues, Is
  <2> DEFINE binary == column.format = "RowBinary"
             modulus == IF binary /\ target.ctype \in IntCTypes
                        THEN Power(2, IntTypeOf(target.ctype).bits)
                        ELSE IF target.ctype \in {"ubigint", "utinyint"} THEN Power(2, WideBits)
                        ELSE 0
  <2>7. ASSUME IsNumber(v), IsNumber(got)
        PROVE  \/ SameNumber(v, got, binary, modulus)
               \/ Is(v, "float") /\ Is(got, "int") /\ Truncated(v.float) # got.int
                    /\ Truncated(v.float) \notin
                         LET t == IntTypeOf(target.ctype) IN LowestOf(t) .. HighestOf(t)
    <3>1. v \in [int : Int] \cup [float : Int] \cup [decimal : Decimals]
      BY <2>6, <2>7 DEF IsNumber, NumberKinds
    <3>2. CASE binary
      <4>1. modulus = KeptBits(target)
        BY <3>2 DEF KeptBits, IntCTypes
      <4>2. binary = TRUE
        BY <3>2
      <4>3. SameNumber(v, got, TRUE, KeptBits(target)) \/ OutOfRange(v, got, target)
        BY <2>2, <2>3, <2>7, <3>1, <3>2, ColumnNumber
      <4> HIDE DEF modulus, binary
      <4> QED
        BY <4>1, <4>2, <4>3 DEF OutOfRange, IntsOf
    <3>3. CASE ~binary
      <4>1. modulus = IF target.ctype \in Unsigned THEN Power(2, WideBits) ELSE 0
        BY <3>3 DEF Unsigned
      <4>2. binary = FALSE
        BY <3>3
      <4>3. SameNumber(v, got, FALSE, IF target.ctype \in Unsigned THEN Power(2, WideBits) ELSE 0)
        BY <2>2, <2>3, <2>7, <3>1, <3>3, ColumnNumber
      <4> HIDE DEF modulus, binary
      <4> QED
        BY <4>1, <4>2, <4>3
    <3> QED
      BY <3>2, <3>3
  <2>8. Is(v, "guid") /\ Is(got, "guid") => got = v
    BY <2>2, <2>3, <2>6, ColumnGuid
  <2>9. Is(v, "day") /\ Is(got, "day") /\ (binary => Offset >= 0) => got.day = v.day
    BY <2>2, <2>3, <2>6, ColumnDay
  <2>10. Is(v, "ticks") /\ Is(got, "timestamp")
         /\ (binary => v.ticks >= 0 /\ column.precision \in {0, FractionDigits}) =>
           got.timestamp = LocalMoment(column)
    BY <2>2, <2>3, <2>6, ColumnMomentText, ColumnMomentBinary
  <2>11. Is(v, "ticks") /\ Is(got, "day") => got.day = LocalMoment(column).date
    BY <2>2, <2>3, <2>6, ColumnMomentText, ColumnMomentBinary
  <2> QED
    BY <2>7, <2>8, <2>9, <2>10, <2>11 DEF ColumnIsShown
<1> QED
  BY <1>1, AlwaysKnown, PTL

-----------------------------------------------------------------------------
(* Parameters that come back *)

\* The value that p stands for, where the indicator does not make it another one.
Meant(p) == IF Is(p.value, "numeric") THEN [numeric |-> Described(p)] ELSE p.value
Told(p) == p.value # Nothing /\ p.indicator \notin {NullData, DefaultParam}

LEMMA ParamIs ==
  ASSUME NEW p \in Params
  PROVE  /\ p.ctype \in CTypes /\ p.value \in ParamValues /\ p.indicator \in Int /\ p.size \in Int
         /\ p.precision \in Nat /\ p.scale \in 0 .. MaxScale
BY ParamsAssumption

LEMMA BufferedTyped ==
  ASSUME NEW p \in Params, p.value # Nothing, NEW t \in Buffered(p)
  PROVE  t \in Texts
<1>0. p.value \in ParamValues /\ p.size \in Int
  BY ParamIs
<1>1. p.value \in Held
  BY <1>0, ParamKinds
<1>2. CASE Is(p.value, "numeric")
  <2>1. t \in TextOf([numeric |-> Described(p)]) /\ Described(p) \in Numerics
    BY <1>2, DescribedIs DEF Buffered
  <2>2. [numeric |-> Described(p)] \in Held
    BY <2>1 DEF Held
  <2> QED
    BY <2>1, <2>2, TextOfTyped
<1>3. CASE ~Is(p.value, "numeric") /\ ~Is(p.value, "text")
  <2>1. t \in TextOf(p.value)
    BY <1>3 DEF Buffered
  <2> QED
    BY <1>1, <2>1, TextOfTyped
<1>4. CASE ~Is(p.value, "numeric") /\ Is(p.value, "text")
  <2> DEFINE whole == p.indicator \in {0, NTS} \/ p.size = NoPtr \/ p.size < 0
             u == UnitOf(p.ctype)
  <2>1. p.value.text \in Texts
    BY <1>1, <1>4, HeldKinds
  <2>2. t = IF whole THEN p.value.text ELSE Cut(p.value.text, p.size \div u)
    BY <1>4 DEF Buffered
  <2>3. CASE whole
    BY <2>1, <2>2, <2>3
  <2>4. CASE ~whole
    <3>1. p.size \in Nat /\ u \in {1, 2}
      BY <1>0, <2>4 DEF UnitOf
    <3>2. p.size \div u \in Nat
      <4> HIDE DEF u
      <4>1. u \in Nat /\ u > 0
        BY <3>1
      <4> QED
        BY <3>1, <4>1, WholeParts
    <3> QED
      BY <2>1, <2>2, <2>4, <3>2, CutTyped
  <2> QED
    BY <2>3, <2>4
<1> QED
  BY <1>2, <1>3, <1>4

\* What is read of a parameter that the server sends back is the text it was sent as.
LEMMA EchoRead ==
  ASSUME NEW par, Sent(par), Told(par.bound), NEW c, Echoed(c, par.text), NEW v \in ReadValue(c)
  PROVE  v = [text |-> par.text] /\ par.text \in Buffered(par.bound) /\ par.text \in Texts
<1> DEFINE t == par.text
<1>1. t \in Buffered(par.bound)
  BY DEF Sent, Told, ParameterText
<1>2. t \in Texts
  BY <1>1, BufferedTyped DEF Sent, Told
<1>3. t # Nothing
  BY <1>2 DEF Texts, DigitTexts, MomentTexts, Nothing
<1> HIDE DEF t
<1>4. c.value = [text |-> t] /\ c.format \in Formats
  BY <1>3 DEF Echoed, t
<1>5. c.value # Nothing
  BY <1>4 DEF Nothing
<1>6. CASE c.format = "ODBCDriver2"
  <2>1. v = [text |-> ServerText(c)]
    BY <1>5, <1>6 DEF ReadValue, ReadODBCDriver2
  <2>2. ServerText(c) = t
    BY <1>4 DEF ServerText, TextOf, Is
  <2> QED
    BY <1>1, <1>2, <2>1, <2>2 DEF t
<1>7. CASE c.format # "ODBCDriver2"
  <2>1. v \in ReadRowBinary(c)
    BY <1>7 DEF ReadValue
  <2>2. v = c.value
    BY <1>2, <1>4, <2>1, ReadTexts
  <2> QED
    BY <1>1, <1>2, <1>4, <2>2 DEF t
<1> QED
  BY <1>6, <1>7

\* What a value of a kind is sent as.
LEMMA SentAs ==
  ASSUME NEW p \in Params, p.value # Nothing, NEW t \in Buffered(p)
  PROVE  LET v == Meant(p)
         IN  /\ Is(v, "int") => v \in [int : Int] /\ t = IntText(v.int)
             /\ Is(v, "float") => v \in [float : Int] /\ t = FloatText(v.float)
             /\ Is(v, "numeric") => /\ v \in [numeric : Numerics]
                                    /\ \E d \in DecimalFromNumeric(v.numeric) : t = DecimalText(d)
             /\ Is(v, "guid") => v \in [guid : STRING] /\ t = [uuid |-> v.guid]
             /\ Is(v, "day") => v \in [day : Int] /\ t = MomentText(v.day, NoTime, <<>>)
             /\ Is(v, "second") => t = [clock |-> v.second]
             /\ Is(v, "timestamp") => v \in [timestamp : Moments] /\ t = TimestampText(v.timestamp)
             /\ Is(v, "text") => v \in [text : Texts] /\ v = p.value
             /\ ~Is(v, "decimal")
<1>0. p.value \in Held /\ ~Is(p.value, "decimal")
  BY ParamIs, ParamKinds
<1>1. CASE Is(p.value, "numeric")
  <2> DEFINE n == Described(p)
             v == [numeric |-> n]
  <2>1. Meant(p) = v /\ n \in Numerics
    BY <1>1, DescribedIs DEF Meant
  <2>2. t \in TextOf(v)
    BY <1>1 DEF Buffered
  <2> HIDE DEF n
  <2>3. /\ Is(v, "numeric") /\ ~Is(v, "int") /\ ~Is(v, "float") /\ ~Is(v, "guid") /\ ~Is(v, "day")
        /\ ~Is(v, "second") /\ ~Is(v, "timestamp") /\ ~Is(v, "text") /\ ~Is(v, "decimal")
        /\ v.numeric = n /\ v \in [numeric : Numerics]
    BY <2>1 DEF Is
  <2> HIDE DEF v
  <2>4. \E d \in DecimalFromNumeric(v.numeric) : t = DecimalText(d)
    BY <2>2, <2>3 DEF TextOf
  <2> QED
    BY <2>1, <2>3, <2>4
<1>2. CASE ~Is(p.value, "numeric")
  <2> DEFINE v == p.value
  <2>1. Meant(p) = v /\ (~Is(v, "text") => t \in TextOf(v))
    BY <1>2 DEF Meant, Buffered
  <2> HIDE DEF v
  <2>2. v \in Held /\ ~Is(v, "decimal") /\ ~Is(v, "numeric") /\ v = p.value
    BY <1>0, <1>2 DEF v
  <2>3. /\ Is(v, "text") => v \in [text : Texts]
        /\ Is(v, "int") => v \in [int : Int]
        /\ Is(v, "float") => v \in [float : Int]
        /\ Is(v, "guid") => v \in [guid : STRING]
        /\ Is(v, "day") => v \in [day : Int]
        /\ Is(v, "second") => v \in [second : Int]
        /\ Is(v, "timestamp") => v \in [timestamp : Moments]
    BY <2>2, HeldKinds
  <2>4. \E k \in {"text", "int", "float", "decimal", "numeric", "guid", "day", "second",
                  "timestamp"} : DOMAIN v = {k}
    BY <2>2, HeldKinds
  <2>5. /\ Is(v, "int") => t = IntText(v.int)
        /\ Is(v, "float") => t = FloatText(v.float)
        /\ Is(v, "guid") => t = [uuid |-> v.guid]
        /\ Is(v, "day") => t = MomentText(v.day, NoTime, <<>>)
        /\ Is(v, "second") => t = [clock |-> v.second]
        /\ Is(v, "timestamp") => t = TimestampText(v.timestamp)
    BY <2>1, <2>4 DEF TextOf, Is
  <2> QED
    BY <2>1, <2>2, <2>3, <2>5
<1> QED
  BY <1>1, <1>2

LEMMA EchoNumber ==
  ASSUME NEW p \in Params, p.value # Nothing, NEW t \in Buffered(p),
         NEW to, Suits(to), NEW got \in FromText(t, to), IsNumber(Meant(p)), IsNumber(got)
  PROVE  SameNumber(Meant(p), got, TRUE, IF to.ctype \in Unsigned THEN Power(2, WideBits) ELSE 0)
<1> DEFINE v == Meant(p)
           w == [text |-> t]
           modulus == IF to.ctype \in Unsigned THEN Power(2, WideBits) ELSE 0
<1>1. /\ Is(v, "int") => v \in [int : Int] /\ t = IntText(v.int)
      /\ Is(v, "float") => v \in [float : Int] /\ t = FloatText(v.float)
      /\ Is(v, "numeric") => /\ v \in [numeric : Numerics]
                             /\ \E d \in DecimalFromNumeric(v.numeric) : t = DecimalText(d)
      /\ Is(v, "text") => v \in [text : Texts] /\ v = p.value
      /\ ~Is(v, "decimal")
  BY SentAs
<1>2. Is(got, "int") /\ to.ctype \in Unsigned => modulus = Power(2, WideBits)
  OBVIOUS
<1>3. TRUE \in BOOLEAN /\ w.text = t
  OBVIOUS
<1> HIDE DEF modulus
<1>4. SUFFICES /\ Amount(v) \in Int /\ w \in [text : DigitTexts]
               /\ Near(Amount(v) - Amount(w), IF Is(v, "float") /\ TRUE THEN Place(FloatDigits) ELSE 0)
               /\ Is(v, "float") => w.text.dot
  <2>1. got \in FromText(w.text, to)
    BY <1>3
  <2> HIDE DEF v, w
  <2>2. SameNumber(v, got, TRUE, modulus)
    BY <1>2, <1>3, <1>4, <2>1, TextIsSame
  <2> QED
    BY <2>2 DEF v, modulus
<1>5. \/ Is(v, "int") \/ Is(v, "float") \/ Is(v, "numeric")
      \/ Is(v, "text") /\ Is(v.text, "digits")
  BY <1>1 DEF IsNumber, NumberKinds
<1> HIDE DEF v
<1>6. CASE Is(v, "int")
  <2>1. v = [int |-> v.int] /\ v.int \in Int /\ ~Is(v, "float")
    BY <1>1, <1>6 DEF Is
  <2>2. Amount(v) = Amount(w) /\ Amount(v) \in Int /\ w \in [text : DigitTexts]
    BY <1>1, <1>6, <2>1, IntAsText
  <2> HIDE DEF w
  <2>3. Amount(v) - Amount(w) = 0
    BY <2>2
  <2> QED
    BY <2>1, <2>2, <2>3 DEF Near
<1>7. CASE Is(v, "float")
  <2>1. v = [float |-> v.float] /\ v.float \in Int
    BY <1>1, <1>7
  <2>2. /\ Near(Amount(v) - Amount(w), Place(FloatDigits)) /\ Amount(v) \in Int
        /\ w \in [text : DigitTexts]
    BY <1>1, <1>7, <2>1, FloatAsText
  <2>3. w.text.dot
    <3>1. t.dot = (FloatDigits > 0)
      BY <1>1, <1>7 DEF FloatText, NumberText
    <3> QED
      BY <1>3, <3>1, Bases
  <2> HIDE DEF w
  <2> QED
    BY <1>7, <2>2, <2>3
<1>8. CASE Is(v, "numeric")
  <2>1. v = [numeric |-> v.numeric] /\ v.numeric \in Numerics /\ ~Is(v, "float")
    BY <1>1, <1>8 DEF Is
  <2>2. PICK d \in DecimalFromNumeric(v.numeric) : t = DecimalText(d)
    BY <1>1, <1>8
  <2>3. Amount(v) = Amount(w) /\ Amount(v) \in Int /\ w \in [text : DigitTexts]
    BY <2>1, <2>2, NumericAsText
  <2> HIDE DEF w
  <2>4. Amount(v) - Amount(w) = 0
    BY <2>3
  <2> QED
    BY <2>1, <2>3, <2>4 DEF Near
<1>9. CASE Is(v, "text") /\ Is(v.text, "digits")
  <2>1. v = [text |-> v.text] /\ v.text \in Texts /\ v = p.value /\ ~Is(v, "float") /\ ~Is(v, "int")
    BY <1>1, <1>9 DEF Is
  <2>2. v.text \in DigitTexts
    BY <1>9, <2>1, TextKinds
  <2>3. t = v.text
    <3>1. ~Is(p.value, "numeric") /\ Is(p.value, "text")
      BY <1>1, <1>9, <2>1 DEF Is
    <3>2. t = v.text \/ \E n : t = Word(n)
      BY <2>1, <3>1 DEF Buffered, Cut
    <3>3. ASSUME NEW n, t = Word(n) PROVE FALSE
      <4>1. ~Is(t, "digits")
        BY <3>3 DEF Word, Is
      <4>2. IntFromText(t, IntTypeOf(to.ctype)) = {} /\ FloatFromText(t) = {} /\ DecimalFromText(t) = {}
        BY <4>1 DEF IntFromText, FloatFromText, DecimalFromText
      <4>3. to.ctype \in CTypes
        BY DEF Suits
      <4>4. ~Is(got, "int") /\ ~Is(got, "float") /\ ~Is(got, "numeric")
        BY <4>2, <4>3, FromTextKinds
      <4>5. Is(got, "text") => got = [text |-> t]
        BY <4>3, FromTextKinds
      <4>6. ~Is(got, "decimal")
        <5>1. got \in Objects(to)
          <6>1. t \in Texts
            BY BufferedTyped
          <6> QED
            BY <6>1, FromTextTyped DEF Suits
        <5> QED
          BY <5>1, ObjectKinds
      <4> QED
        BY <4>1, <4>4, <4>5, <4>6 DEF IsNumber, NumberKinds
    <3> QED
      BY <3>2, <3>3
  <2>4. v = w
    BY <2>1, <2>3
  <2>5. v \in [text : DigitTexts]
    BY <2>1, <2>2
  <2>6. Amount(v) \in Int
    BY <2>1, <2>2, AmountOfText, Zenon DEF Is
  <2> HIDE DEF w
  <2>7. Amount(v) - Amount(w) = 0
    BY <2>4, <2>6
  <2> QED
    BY <2>1, <2>4, <2>5, <2>6, <2>7 DEF Near
<1> QED
  BY <1>5, <1>6, <1>7, <1>8, <1>9

\* The text of a moment is read as that moment.
LEMMA TimestampReadBack ==
  ASSUME NEW ts \in Moments, NEW m \in TimestampFromText(TimestampText(ts))
  PROVE  m = [ts EXCEPT !.date = Normal(@)]
<1> DEFINE digits == IF ts.fraction > 0 THEN DigitsOf(ts.fraction, FractionDigits, Base) ELSE <<>>
<1>1. /\ ts.date \in Int /\ ts.time \in Nat /\ ts.fraction \in Nat
      /\ ts.fraction < Power(Base, FractionDigits)
      /\ ts = [date |-> ts.date, time |-> ts.time, fraction |-> ts.fraction]
  <2>1. Power(Base, FractionDigits) \in Nat
    BY Bases, PowerPositive
  <2> QED
    BY <2>1 DEF Moments
<1>2. TimestampText(ts) = [date |-> ts.date, time |-> ts.time, fraction |-> digits]
  BY DEF TimestampText, MomentText
<1> HIDE DEF digits
<1>3. m = [date |-> Normal(ts.date), time |-> IF ts.time = NoTime THEN 0 ELSE ts.time,
           fraction |-> FractionFromText(digits)]
  BY <1>2 DEF TimestampFromText, When
<1>4. ts.time # NoTime
  BY <1>1 DEF NoTime
<1>5. FractionFromText(digits) = ts.fraction
  <2>1. CASE ts.fraction > 0
    <3>1. digits \in Seq(Digit) /\ Len(digits) = FractionDigits
      BY <1>1, <2>1, Bases, DigitsAre DEF digits, Digit
    <3>2. ValueOf(digits, Base) = ts.fraction
      BY <1>1, <2>1, Bases, DigitsValue DEF digits
    <3>3. Power(Base, FractionDigits - Len(digits)) = 1
      <4>1. FractionDigits - Len(digits) = 0
        BY <3>1, Bases
      <4> QED
        BY <4>1, Bases, PowerNext
    <3>4. FractionFromText(digits) = ts.fraction * 1
      BY <3>1, <3>2, <3>3, Bases, FractionFromTextIs
    <3> QED
      BY <1>1, <3>4
  <2>2. CASE ~(ts.fraction > 0)
    <3>1. digits \in Seq(Digit) /\ Len(digits) = 0
      BY <2>2 DEF digits
    <3>2. ValueOf(digits, Base) = 0
      <4>1. digits \in Seq(0 .. Base - 1)
        BY <3>1 DEF Digit
      <4>2. ValueOf(digits, Base) \in Nat /\ ValueOf(digits, Base) < Power(Base, Len(digits))
        BY <4>1, Bases, AccumulateIs
      <4>3. Power(Base, 0) = 1
        BY Bases, PowerNext
      <4> QED
        BY <3>1, <4>2, <4>3
    <3> DEFINE k == Power(Base, FractionDigits - Len(digits))
    <3>3. k \in Nat
      <4>1. FractionDigits - Len(digits) \in Nat
        BY <3>1, Bases
      <4> QED
        BY <4>1, Bases, PowerNext
    <3>4. FractionFromText(digits) = 0 * k
      <4>1. Len(digits) <= FractionDigits
        BY <3>1, Bases
      <4>2. FractionFromText(digits) = ValueOf(digits, Base) * k
        BY <3>1, <4>1, FractionFromTextIs
      <4> QED
        BY <3>2, <4>2
    <3> HIDE DEF k
    <3> QED
      BY <1>1, <2>2, <3>3, <3>4
  <2> QED
    BY <2>1, <2>2
<1>6. m = [date |-> Normal(ts.date), time |-> ts.time, fraction |-> ts.fraction]
  BY <1>3, <1>4, <1>5
<1> QED
  BY <1>1, <1>6

\* What comes back of a parameter that is no number.
LEMMA EchoMoment ==
  ASSUME NEW p \in Params, p.value # Nothing, NEW t \in Buffered(p),
         NEW to, Suits(to), NEW got \in FromText(t, to)
  PROVE  LET v == Meant(p)
         IN  /\ \A k \in {"guid", "second"} : Is(v, k) /\ Is(got, k) => got = v
             /\ Is(v, "day") /\ Is(got, "day") => got.day = Normal(v.day)
             /\ Is(v, "timestamp") /\ Is(got, "timestamp") =>
                  got.timestamp = [v.timestamp EXCEPT !.date = Normal(@)]
             /\ Is(v, "day") /\ Is(got, "timestamp") =>
                  got.timestamp = [date |-> Normal(v.day), time |-> 0, fraction |-> 0]
<1> DEFINE v == Meant(p)
<1>1. /\ Is(v, "guid") => v \in [guid : STRING] /\ t = [uuid |-> v.guid]
      /\ Is(v, "day") => v \in [day : Int] /\ t = MomentText(v.day, NoTime, <<>>)
      /\ Is(v, "second") => t = [clock |-> v.second]
      /\ Is(v, "timestamp") => v \in [timestamp : Moments] /\ t = TimestampText(v.timestamp)
  BY SentAs
<1> HIDE DEF v
<1>2. /\ Is(got, "guid") => Is(t, "uuid") /\ got = [guid |-> t.uuid]
      /\ Is(got, "day") => Is(t, "date") /\ got = [day |-> Normal(t.date)]
      /\ Is(got, "second") => Is(t, "date")
      /\ Is(got, "timestamp") => \E m \in TimestampFromText(t) : got = [timestamp |-> m]
  BY FromTextKinds DEF Suits
<1>3. Is(v, "guid") /\ Is(got, "guid") => got = v
  BY <1>1, <1>2
<1>4. Is(v, "second") => ~Is(got, "second")
  BY <1>1, <1>2 DEF Is
<1>5. Is(v, "day") /\ Is(got, "day") => got.day = Normal(v.day)
  BY <1>1, <1>2 DEF MomentText
<1>6. Is(v, "timestamp") /\ Is(got, "timestamp") =>
        got.timestamp = [v.timestamp EXCEPT !.date = Normal(@)]
  BY <1>1, <1>2, TimestampReadBack
<1>7. ASSUME Is(v, "day"), Is(got, "timestamp")
      PROVE  got.timestamp = [date |-> Normal(v.day), time |-> 0, fraction |-> 0]
  <2>1. PICK m \in TimestampFromText(t) : got = [timestamp |-> m]
    BY <1>2, <1>7
  <2>2. t = [date |-> v.day, time |-> NoTime, fraction |-> <<>>]
    BY <1>1, <1>7 DEF MomentText
  <2>3. m = [date |-> Normal(v.day), time |-> 0, fraction |-> FractionFromText(<<>>)]
    BY <2>2 DEF TimestampFromText, When
  <2>4. FractionFromText(<<>>) = 0
    <3> DEFINE ts == [date |-> 0, time |-> 0, fraction |-> 0]
               n == [date |-> Normal(0), time |-> 0, fraction |-> FractionFromText(<<>>)]
    <3>1. ts \in Moments
      <4>1. Power(Base, FractionDigits) \in Nat /\ Power(Base, FractionDigits) > 0
        BY Bases, PowerPositive
      <4> QED
        BY <4>1 DEF Moments
    <3>2. TimestampText(ts) = [date |-> 0, time |-> 0, fraction |-> <<>>]
      BY DEF TimestampText, MomentText
    <3>3. n \in TimestampFromText(TimestampText(ts))
      BY <3>2 DEF TimestampFromText, When, Is, NoTime
    <3>4. n = [ts EXCEPT !.date = Normal(@)]
      <4> HIDE DEF n, ts
      <4> QED
        BY <3>1, <3>3, TimestampReadBack
    <3>5. n.fraction = 0
      BY <3>4
    <3> QED
      BY <3>5
  <2> QED
    BY <2>1, <2>3, <2>4
<1>8. \A k \in {"guid", "second"} : Is(v, k) /\ Is(got, k) => got = v
  BY <1>3, <1>4
<1> QED
  BY <1>5, <1>6, <1>7, <1>8 DEF v

LEMMA EchoWord ==
  ASSUME NEW p \in Params, p.value # Nothing, NEW t \in Buffered(p),
         NEW to, Suits(to), NEW got \in FromText(t, to), NEW v, v = Meant(p),
         Is(v, "text"), Is(v.text, "units"), Is(got, "text"), p.indicator # 0
  PROVE  LengthOf(got.text) = IF p.size < 0 \/ p.indicator = NTS THEN v.text.units
                              ELSE Least(p.size \div UnitOf(p.ctype), v.text.units)
<1> DEFINE x == v.text
           whole == p.indicator \in {0, NTS} \/ p.size = NoPtr \/ p.size < 0
           n == p.size \div UnitOf(p.ctype)
<1>1. got = [text |-> t]
  BY FromTextKinds DEF Suits
<1>2. v \in [text : Texts] /\ v = p.value
  BY SentAs
<1>3. ~Is(p.value, "numeric") /\ Is(p.value, "text")
  BY <1>2 DEF Is
<1>4. t = IF whole THEN x ELSE Cut(x, n)
  BY <1>2, <1>3 DEF Buffered
<1>5. whole <=> p.size < 0 \/ p.indicator = NTS
  <2>1. p.size = NoPtr => p.size < 0
    BY DEF NoPtr
  <2> QED
    BY <2>1
<1>6. x \in Texts /\ LengthOf(x) = x.units
  <2>1. x \in Texts
    BY <1>2
  <2> QED
    BY <2>1 DEF LengthOf
<1>7. x.units \in Nat
  BY <1>6, TextKinds
<1>8. CASE whole
  BY <1>1, <1>4, <1>5, <1>6, <1>8
<1>9. CASE ~whole
  <2>1. n \in Nat
    <3> DEFINE u == UnitOf(p.ctype)
    <3>1. p.size \in Nat
      BY <1>9, ParamIs
    <3>2. u \in Nat /\ u > 0
      BY DEF UnitOf
    <3> HIDE DEF u
    <3>3. p.size \div u \in Nat
      BY <3>1, <3>2, WholeParts
    <3> QED
      BY <3>3 DEF u
  <2> HIDE DEF n, whole
  <2>2. t = IF n >= LengthOf(x) THEN x ELSE Word(n)
    BY <1>4, <1>9 DEF Cut
  <2>3. LengthOf(Word(n)) = n
    BY DEF LengthOf, Word, Is
  <2>4. LengthOf(t) = Least(n, x.units)
    BY <1>6, <1>7, <2>1, <2>2, <2>3 DEF Least
  <2> QED
    BY <1>1, <1>5, <1>9, <2>4 DEF n
<1> QED
  BY <1>8, <1>9

-----------------------------------------------------------------------------
(* What fits comes back *)

LEMMA PowerWider ==
  ASSUME NEW b \in Nat, NEW c \in Nat, b <= c, NEW n \in Nat
  PROVE  Power(b, n) <= Power(c, n)
<1> DEFINE T == {k \in Nat : Power(b, k) <= Power(c, k)}
<1>1. 0 \in T
  BY PowerNext
<1>2. ASSUME NEW k \in Nat, k \in T PROVE k + 1 \in T
  <2> DEFINE x == Power(b, k)
             y == Power(c, k)
  <2>1. /\ x \in Nat /\ y \in Nat /\ x <= y
        /\ Power(b, k + 1) = b * x /\ Power(c, k + 1) = c * y
    BY <1>2, PowerNext
  <2> HIDE DEF x, y
  <2>2. b * x <= b * y /\ b * y <= c * y /\ b * x \in Nat /\ b * y \in Nat /\ c * y \in Nat
    <3>1. PICK e \in Nat : y = x + e
      <4>1. y - x \in Nat /\ y = x + (y - x)
        BY <2>1
      <4> QED
        BY <4>1
    <3>2. PICK f \in Nat : c = b + f
      <4>1. c - b \in Nat /\ c = b + (c - b)
        OBVIOUS
      <4> QED
        BY <4>1
    <3>3. b * y = b * x + b * e /\ c * y = b * y + f * y
      BY <2>1, <3>1, <3>2
    <3>4. b * e \in Nat /\ f * y \in Nat /\ b * x \in Nat /\ b * y \in Nat
      BY <2>1, <3>1, <3>2
    <3> QED
      BY <3>3, <3>4
  <2>3. b * x <= c * y
    BY <2>2
  <2> QED
    BY <2>1, <2>3
<1> HIDE DEF T
<1>3. n \in T
  BY <1>1, <1>2, Induction
<1> QED
  BY <1>3 DEF T

\* An integer as a text is read back by its own type.
LEMMA IntComesBack ==
  ASSUME NEW c \in IntCTypes, NEW i \in LowestOf(IntTypeOf(c)) .. HighestOf(IntTypeOf(c))
  PROVE  i \in IntFromText(IntText(i), IntTypeOf(c))
<1> DEFINE t == IntTypeOf(c)
           x == IntText(i)
           W == Power(2, WideBits)
           wide == IntType(WideBits, t.signed)
           abs == Accumulate(x.digits, Base, W)
           value == IF x.minus THEN -abs ELSE abs
<1>1. t.bits \in Nat /\ t.bits > 0 /\ t.signed \in BOOLEAN /\ t.bits <= WideBits
  <2>1. t.bits = WideBits \/ t.bits = NarrowBits
    BY DEF IntTypeOf, IntType
  <2> QED
    BY <2>1, IntTypeIs, Bases
<1>2. LowestOf(t) \in Int /\ HighestOf(t) \in Nat /\ i \in Int
  BY <1>1, WidthIs
<1>3. Says(x, i < 0, Magnitude(i), 0)
  BY <1>2, IntTextSays
<1>4. /\ x \in DigitTexts /\ x.digits # <<>> /\ TextValue(x) = Magnitude(i) /\ ~x.dot
      /\ i < 0 => x.minus
      /\ ~(i < 0) => ~x.minus
  <2> HIDE DEF x
  <2>1. /\ x \in DigitTexts /\ x.digits # <<>> /\ TextValue(x) = Magnitude(i)
        /\ x.dot = (0 > 0) /\ x.minus = (i < 0)
    BY <1>3 DEF Says, TextValue
  <2>2. ~(0 > 0)
    OBVIOUS
  <2> QED
    BY <2>1, <2>2
<1>5. W \in Nat /\ W > 0 /\ wide.bits = WideBits /\ wide.signed = t.signed
  <2>1. 2 \in Nat /\ 2 > 0 /\ WideBits \in Nat
    BY Bases
  <2> QED
    BY <2>1, PowerPositive DEF IntType
<1> DEFINE P == Power(2, t.bits)
           H == Power(2, t.bits - 1)
<1>6. /\ P \in Nat /\ P <= W /\ H \in Nat /\ P = 2 * H
      /\ LowestOf(t) = (IF t.signed THEN -H ELSE 0)
      /\ HighestOf(t) = (IF t.signed THEN H - 1 ELSE P - 1)
  <2>1. t.bits - 1 \in Nat /\ (t.bits - 1) + 1 = t.bits /\ 2 \in Nat /\ 2 > 0 /\ WideBits \in Nat
    BY <1>1, Bases
  <2>2. P \in Nat /\ P <= W
    BY <1>1, <2>1, PowerGrows, PowerPositive
  <2>3. H \in Nat /\ P = 2 * H
    <3> DEFINE m == t.bits - 1
    <3>1. m \in Nat /\ t.bits = m + 1
      BY <2>1
    <3> HIDE DEF m
    <3>2. Power(2, m) \in Nat /\ Power(2, m + 1) = 2 * Power(2, m)
      BY <3>1, <2>1, PowerNext
    <3> QED
      BY <3>1, <3>2 DEF m
  <2> QED
    BY <2>2, <2>3 DEF LowestOf, HighestOf
<1>7. HighestOf(wide) = (IF t.signed THEN Power(2, WideBits - 1) - 1 ELSE W - 1)
      /\ (~t.signed => LowestOf(wide) = 0)
  BY <1>5 DEF HighestOf, LowestOf
<1>8. i \in LowestOf(t) .. HighestOf(t)
  OBVIOUS
<1>9. abs = UpTo(Magnitude(i), W)
  BY <1>4, <1>5, TextValueIs
<1> HIDE DEF t, x, W, wide, P, H
<1>10. Magnitude(i) \in Nat /\ Magnitude(i) <= W /\ (~t.signed => i >= 0 /\ i <= W - 1)
  BY <1>1, <1>2, <1>5, <1>6, <1>8 DEF Magnitude
<1>11. abs = Magnitude(i)
  BY <1>9, <1>10 DEF UpTo
<1>12. value = i
  BY <1>2, <1>4, <1>11 DEF Magnitude
<1>13. ~t.signed => Narrow(value, wide) = i
  <2> SUFFICES ASSUME ~t.signed PROVE Narrow(i, wide) = i
    BY <1>12
  <2>1. Narrow(i, wide) = 0 + ((i - 0) % W)
    BY <1>5, <1>7 DEF Narrow, W
  <2>2. i \in Nat /\ i < W
    BY <1>2, <1>5, <1>10
  <2>3. i % W = i
    BY <1>5, <2>2
  <2> QED
    BY <2>1, <2>2, <2>3
<1>14. abs >= 0 /\ (t.signed \/ abs <= HighestOf(wide))
  <2>1. ~t.signed => abs <= W - 1
    BY <1>2, <1>10, <1>11 DEF Magnitude
  <2> QED
    BY <1>7, <1>10, <1>11, <2>1
<1>15. Is(x, "digits")
  BY <1>4, TextValueIs
<1>16. (IF t.signed THEN value ELSE Narrow(value, wide)) = i
  BY <1>12, <1>13
<1>17. i \in IntFromText(x, t)
  <2> HIDE DEF abs, value
  <2> DEFINE read == IF t.signed THEN value ELSE Narrow(value, wide)
  <2>1. IntFromText(x, t) =
          IF /\ Is(x, "digits") /\ x.digits # <<>> /\ ~x.dot
             /\ abs >= 0 /\ (t.signed \/ abs <= HighestOf(wide))
             /\ read \in LowestOf(t) .. HighestOf(t)
          THEN {read} ELSE {}
    BY DEF IntFromText, abs, value, wide, W
  <2>2. read = i
    BY <1>16
  <2> HIDE DEF read
  <2> QED
    BY <1>4, <1>8, <1>14, <1>15, <2>1, <2>2
<1> QED
  BY <1>17 DEF t, x

\* A NUMERIC with no more digits than its precision fits into its bytes again.
LEMMA NumericComesBack ==
  ASSUME NEW n \in Numerics, n.scale <= n.precision, NEW d \in DecimalFromNumeric(n),
         Count(d.value, Base) <= n.precision
  PROVE  \E e \in DecimalFromText(DecimalText(d)) :
           NumericFromDecimal(e, n.precision, n.scale) # {}
<1> DEFINE v == d.value
           s == n.scale
           p == n.precision
           t == DecimalText(d)
<1>1. n.val \in ValSet /\ s \in 0 .. MaxScale /\ p \in Nat
  BY DEF Numerics, ValSet
<1>2. v \in Nat /\ v <= ContainerMax /\ d.scale = s
  <2>1. NumericValue(n) \in Nat
    BY <1>1, NumericValueIs
  <2>2. NumericValue(n) <= ContainerMax /\ d = Decimal(NumericValue(n), n.sign, n.precision, n.scale)
    BY <1>1, DecimalFromNumericIs
  <2> QED
    BY <2>1, <2>2 DEF Decimal
<1>3. Says(t, d.sign = 0 /\ v # 0, v, s)
  BY <1>1, <1>2, DecimalTextSays
<1>4. t \in DigitTexts /\ t.right = s /\ TextValue(t) = v
  BY <1>3 DEF Says, TextValue
<1> HIDE DEF t
<1> DEFINE e == Decimal(v, SignOf(t), Len(t.digits), s)
<1>5. e \in DecimalFromText(t)
  BY <1>2, <1>4, DecimalFromTextIs
<1>6. e.value = v /\ e.scale = s /\ e.precision = Len(t.digits) /\ Len(t.digits) \in Nat
  BY <1>4, TextValueIs DEF Decimal
<1> HIDE DEF e
<1>7. Count(v, ByteBase) \in Nat /\ Count(v, ByteBase) <= p
  <2> DEFINE c == Count(v, Base)
  <2>1. c \in Nat /\ v < Power(Base, c) /\ c <= p
    BY <1>2, Bases, CountIs
  <2> HIDE DEF c
  <2>2. Power(Base, c) <= Power(ByteBase, c) /\ Power(Base, c) \in Nat /\ Power(ByteBase, c) \in Nat
    BY <2>1, Bases, PowerWider, PowerNext
  <2>3. v < Power(ByteBase, c)
    BY <1>2, <2>1, <2>2
  <2>4. Count(v, ByteBase) \in Nat /\ Count(v, ByteBase) <= c
    BY <1>2, <2>1, <2>3, Bases, CountIs
  <2> QED
    BY <1>1, <2>1, <2>4
<1> DEFINE q == IF p = 0 THEN e.precision ELSE p
           r == IF p = 0 THEN e.scale ELSE s
<1>8. Count(v, ByteBase) <= q + 1
  BY <1>1, <1>6, <1>7
<1>9. r = s
  BY <1>6
<1>10. v \in Rescaled(e, r)
  <2>1. s \in Int /\ s - s = 0 /\ ~(s < s)
    BY <1>1
  <2>2. Power(Base, s - s) = 1
    BY <2>1, Bases, PowerNext
  <2> HIDE DEF v, s, r
  <2>3. Rescaled(e, r) = {v \div 1}
    BY <1>6, <1>9, <2>1, <2>2 DEF Rescaled
  <2>4. v \div 1 = v
    BY <1>2
  <2> QED
    BY <2>3, <2>4
<1>11. NumericFromDecimal(e, p, s) # {}
  <2>1. ~(p < s)
    BY <1>1
  <2>2. v \in {w \in Rescaled(e, r) : Count(w, ByteBase) <= q + 1}
    BY <1>8, <1>10
  <2> DEFINE Row(w) == [sign |-> e.sign, precision |-> q, scale |-> r,
                        val |-> Reverse(DigitsOf(w, ValBytes, ByteBase))]
  <2>3. NumericFromDecimal(e, p, s) =
          IF p < s THEN {}
          ELSE {Row(w) : w \in {x \in Rescaled(e, r) : Count(x, ByteBase) <= q + 1}}
    BY DEF NumericFromDecimal
  <2> HIDE DEF v, s, p, q, r, Row
  <2>4. Row(v) \in NumericFromDecimal(e, p, s)
    BY <2>1, <2>2, <2>3
  <2> QED
    BY <2>4
<1> QED
  BY <1>5, <1>11 DEF t

\* Only a buffer for a text is given a text.
LEMMA NoTextMade ==
  ASSUME NEW t, NEW to, to.ctype \in CTypes \ {"char", "wchar"}, NEW o \in FromText(t, to)
  PROVE  ~Is(o, "text")
<1>1. CASE to.ctype \in IntCTypes
  <2>1. FromText(t, to) = {[int |-> i] : i \in IntFromText(t, IntTypeOf(to.ctype))}
    BY <1>1 DEF FromText, IntCTypes
  <2> QED
    BY <2>1 DEF Is
<1>2. CASE to.ctype = "double"
  <2>1. FromText(t, to) = {[float |-> x] : x \in FloatFromText(t)}
    BY <1>2 DEF FromText, IntCTypes
  <2> QED
    BY <2>1 DEF Is
<1>3. CASE to.ctype = "numeric"
  <2>1. \E m : o = [numeric |-> m]
    BY <1>3 DEF FromText, IntCTypes
  <2> QED
    BY <2>1 DEF Is
<1>4. CASE to.ctype = "guid"
  <2>1. FromText(t, to) = When(Is(t, "uuid"), [guid |-> t.uuid])
    BY <1>4 DEF FromText, IntCTypes
  <2>2. o = [guid |-> t.uuid]
    BY <2>1 DEF When
  <2> QED
    BY <2>2 DEF Is
<1>5. CASE to.ctype = "date"
  <2>1. FromText(t, to) = When(Is(t, "date"), [day |-> Normal(t.date)])
    BY <1>5 DEF FromText, IntCTypes
  <2>2. o = [day |-> Normal(t.date)]
    BY <2>1 DEF When
  <2> QED
    BY <2>2 DEF Is
<1>6. CASE to.ctype = "time"
  <2>1. \E m : o = [second |-> m]
    BY <1>6 DEF FromText, IntCTypes, When
  <2> QED
    BY <2>1 DEF Is
<1>7. CASE to.ctype = "timestamp"
  <2>1. FromText(t, to) = {[timestamp |-> m] : m \in TimestampFromText(t)}
    BY <1>7 DEF FromText, IntCTypes
  <2> QED
    BY <2>1 DEF Is
<1> QED
  BY <1>1, <1>2, <1>3, <1>4, <1>5, <1>6, <1>7 DEF CTypes

\* A parameter that fits the type it is bound with is read back into that type.
LEMMA FitsAndComesBack ==
  ASSUME NEW p \in Params, p.value # Nothing, NEW t \in Buffered(p),
         NEW to, Suits(to), to.ctype = p.ctype, to.precision = p.precision, to.scale = p.scale,
         FitsOwnType(p)
  PROVE  FromText(t, to) # {} /\ \A o \in FromText(t, to) : ~Is(o, "text")
<1> SUFFICES FromText(t, to) # {}
  <2>1. to.ctype \in CTypes \ {"char", "wchar"}
    BY DEF Suits, FitsOwnType, IntCTypes
  <2> QED
    BY <2>1, NoTextMade
<1> DEFINE v == Meant(p)
<1>0. p.ctype \in CTypes /\ Is(p.value, KindOf(p.ctype))
  BY ParamsAssumption
<1>1. /\ Is(v, "int") => v \in [int : Int] /\ t = IntText(v.int)
      /\ Is(v, "float") => v \in [float : Int] /\ t = FloatText(v.float)
      /\ Is(v, "numeric") => /\ v \in [numeric : Numerics]
                             /\ \E d \in DecimalFromNumeric(v.numeric) : t = DecimalText(d)
      /\ Is(v, "guid") => v \in [guid : STRING] /\ t = [uuid |-> v.guid]
      /\ Is(v, "day") => v \in [day : Int] /\ t = MomentText(v.day, NoTime, <<>>)
      /\ Is(v, "timestamp") => v \in [timestamp : Moments] /\ t = TimestampText(v.timestamp)
  BY SentAs
<1>2. p.value \in Held
  BY ParamIs, ParamKinds
<1>3. \E k \in {"text", "int", "float", "decimal", "numeric", "guid", "day", "second",
                "timestamp"} : DOMAIN p.value = {k}
  BY <1>2, HeldKinds
<1>4. CASE p.ctype = "numeric"
  <2> DEFINE n == Described(p)
  <2>1. Is(p.value, "numeric")
    BY <1>0, <1>4, KindIs
  <2>2. v = [numeric |-> n]
    BY <2>1 DEF Meant
  <2>3. n \in Numerics /\ n.precision = p.precision /\ n.scale = p.scale
    BY <2>1, DescribedIs
  <2>4. t \in TextOf([numeric |-> n])
    BY <2>1 DEF Buffered
  <2>5. p.scale <= p.precision /\ \E d \in DecimalFromNumeric(n) : Count(d.value, Base) <= p.precision
    BY <1>4 DEF FitsOwnType
  <2> HIDE DEF n, v
  <2>6. PICK d \in DecimalFromNumeric(n) : Count(d.value, Base) <= p.precision
    BY <2>5
  <2>7. \A e \in DecimalFromNumeric(n) : e = d
    BY DEF DecimalFromNumeric
  <2>8. t = DecimalText(d)
    <3>1. t \in {DecimalText(e) : e \in DecimalFromNumeric(n)}
      BY <2>4 DEF TextOf, Is
    <3> QED
      BY <2>7, <3>1
  <2>9. \E e \in DecimalFromText(t) : NumericFromDecimal(e, to.precision, to.scale) # {}
    <3>1. n.scale <= n.precision /\ Count(d.value, Base) <= n.precision
      BY <2>3, <2>5, <2>6
    <3>2. \E e \in DecimalFromText(DecimalText(d)) :
            NumericFromDecimal(e, n.precision, n.scale) # {}
      BY <2>3, <3>1, NumericComesBack
    <3> QED
      BY <2>3, <2>8, <3>2
  <2>10. FromText(t, to) = {[numeric |-> m] : m \in UNION {NumericFromDecimal(e, to.precision, to.scale) :
                                                            e \in DecimalFromText(t)}}
    BY <1>4 DEF FromText, IntCTypes
  <2> QED
    BY <2>9, <2>10
<1>5. CASE p.ctype \in IntCTypes
  <2>1. Is(p.value, "int")
    BY <1>0, <1>5, KindIs
  <2>2. v = p.value
    BY <1>3, <2>1 DEF Meant, Is
  <2>3. v.int \in LowestOf(IntTypeOf(p.ctype)) .. HighestOf(IntTypeOf(p.ctype))
    BY <1>5, <2>2, ParamsAssumption
  <2>4. t = IntText(v.int)
    BY <1>1, <2>1, <2>2
  <2>5. v.int \in IntFromText(t, IntTypeOf(p.ctype))
    <3> HIDE DEF v
    <3> QED
      BY <1>5, <2>3, <2>4, IntComesBack
  <2>6. FromText(t, to) = {[int |-> i] : i \in IntFromText(t, IntTypeOf(p.ctype))}
    BY <1>5 DEF FromText, IntCTypes
  <2> HIDE DEF v
  <2> QED
    BY <2>5, <2>6
<1>6. CASE p.ctype = "double"
  <2>1. Is(p.value, "float")
    BY <1>0, <1>6, KindIs
  <2>2. v = p.value
    BY <1>3, <2>1 DEF Meant, Is
  <2>3. v.float \in Int /\ t = FloatText(v.float)
    BY <1>1, <2>1, <2>2
  <2> HIDE DEF v
  <2>4. t \in DigitTexts /\ t.digits # <<>>
    BY <2>3, FloatTextSays DEF Says
  <2>5. FloatFromText(t) # {}
    BY <2>4, FloatFromTextIs
  <2>6. FromText(t, to) = {[float |-> x] : x \in FloatFromText(t)}
    BY <1>6 DEF FromText, IntCTypes
  <2> QED
    BY <2>5, <2>6
<1>7. CASE p.ctype = "guid"
  <2>1. Is(p.value, "guid")
    BY <1>0, <1>7, KindIs
  <2>2. v = p.value
    BY <1>3, <2>1 DEF Meant, Is
  <2>3. t = [uuid |-> v.guid]
    BY <1>1, <2>1, <2>2
  <2> HIDE DEF v
  <2>4. FromText(t, to) = When(Is(t, "uuid"), [guid |-> t.uuid])
    BY <1>7 DEF FromText, IntCTypes
  <2> QED
    BY <2>3, <2>4 DEF Is, When
<1>8. CASE p.ctype = "date"
  <2>1. Is(p.value, "day")
    BY <1>0, <1>8, KindIs
  <2>2. v = p.value
    BY <1>3, <2>1 DEF Meant, Is
  <2>3. Is(t, "date")
    BY <1>1, <2>1, <2>2 DEF MomentText, Is
  <2> HIDE DEF v
  <2>4. FromText(t, to) = When(Is(t, "date"), [day |-> Normal(t.date)])
    BY <1>8 DEF FromText, IntCTypes
  <2> QED
    BY <2>3, <2>4 DEF Is, When
<1>9. CASE p.ctype = "timestamp"
  <2>1. Is(p.value, "timestamp")
    BY <1>0, <1>9, KindIs
  <2>2. v = p.value
    BY <1>3, <2>1 DEF Meant, Is
  <2>3. Is(t, "date")
    BY <1>1, <2>1, <2>2 DEF TimestampText, MomentText, Is
  <2> HIDE DEF v
  <2>4. FromText(t, to) = {[timestamp |-> m] : m \in TimestampFromText(t)}
    BY <1>9 DEF FromText, IntCTypes
  <2>5. TimestampFromText(t) # {}
    BY <2>3 DEF TimestampFromText, When
  <2> QED
    BY <2>4, <2>5
<1> QED
  BY <1>4, <1>5, <1>6, <1>7, <1>8, <1>9 DEF FitsOwnType

\* A parameter that the server sends back, whatever it is bound as and with: where
\* it fits it comes back without an error, and what comes back is the number, the
\* moment, the GUID or the length of the word that was bound, up to what the type
\* of the buffer cannot say (readReadyDataTo() and writeDataFrom(), type_info.h).
THEOREM EchoesStayFaithful == Spec => []EchoIsFaithful
<1>1. Typed /\ History => EchoIsFaithful
  <2> SUFFICES ASSUME Typed, History, at = "given", param # NoParam, Told(param.bound)
               PROVE  EchoIsFaithful
    <3> DEFINE p == param.bound
               v == IF Is(p.value, "numeric") THEN [numeric |-> Described(p)] ELSE p.value
    <3>1. v # Nothing => p.value # Nothing
      BY NothingIsNoObject
    <3>2. Given => at = "given"
      BY DEF Given
    <3>3. ASSUME ~(at = "given" /\ param # NoParam /\ v # Nothing
                     /\ p.indicator \notin {NullData, DefaultParam})
          PROVE  EchoIsFaithful
      BY <3>2, <3>3, Zenon DEF EchoIsFaithful
    <3> QED
      BY <3>1, <3>3 DEF Told
  <2> DEFINE p == param.bound
             t == param.text
             v == Meant(p)
             got == cell.got
             modulus == IF target.ctype \in {"ubigint", "utinyint"} THEN Power(2, WideBits) ELSE 0
  <2>1. p \in Params /\ p.value # Nothing
    BY DEF History, Sent, Told
  <2>2. field = [text |-> t] /\ t \in Buffered(p) /\ t \in Texts
    BY EchoRead DEF History
  <2>3. target \in Targets /\ Suits(target) /\ cell \in WriteData(field, target)
    BY TargetsAssumption DEF Typed, Suits
  <2>4. Unwired(field) = {field} /\ Converted(field, target) = FromText(t, target)
        /\ field # Nothing
    <3>1. target.ctype \in CTypes
      BY <2>3 DEF Suits
    <3> HIDE DEF t
    <3> QED
      BY <2>2, <3>1, ConvertedText DEF Unwired, Is, Nothing
  <2> HIDE DEF t, p, v
  <2>5. ASSUME target.ctype = p.ctype, target.precision = p.precision, target.scale = p.scale,
               FitsOwnType(p)
        PROVE  cell.ret = "success"
    <3>1. FromText(t, target) # {} /\ \A o \in FromText(t, target) : ~Is(o, "text")
      BY <2>1, <2>2, <2>3, <2>5, FitsAndComesBack
    <3>2. UNION {Converted(u, target) : u \in Unwired(field)} = FromText(t, target)
      BY <2>4
    <3>3. cell \in {IF Is(o, "text") THEN FillString(o.text, target) ELSE FillPOD(o, target) :
                      o \in FromText(t, target)}
      BY <2>3, <2>4, <3>1, <3>2 DEF WriteData
    <3>4. PICK o \in FromText(t, target) : cell = FillPOD(o, target)
      BY <3>1, <3>3
    <3> QED
      BY <3>4, FilledPOD
  <2>6. ASSUME Given PROVE got \in FromText(t, target)
    <3>1. got # Nothing
      BY <2>6 DEF Given
    <3>2. Found(field, target, got)
      BY <3>1, FoundIs
    <3> QED
      BY <2>4, <3>2 DEF Found
  <2>7. Given /\ IsNumber(v) /\ IsNumber(got) => SameNumber(v, got, TRUE, modulus)
    <3> SUFFICES ASSUME Given, IsNumber(v), IsNumber(got) PROVE SameNumber(v, got, TRUE, modulus)
      OBVIOUS
    <3> HIDE DEF got
    <3> QED
      BY <2>1, <2>2, <2>3, <2>6, EchoNumber DEF v, Unsigned
  <2>8. Given => /\ \A k \in {"guid", "second"} : Is(v, k) /\ Is(got, k) => got = v
                 /\ Is(v, "day") /\ Is(got, "day") => got.day = Normal(v.day)
                 /\ Is(v, "timestamp") /\ Is(got, "timestamp") =>
                      got.timestamp = [v.timestamp EXCEPT !.date = Normal(@)]
                 /\ Is(v, "day") /\ Is(got, "timestamp") =>
                      got.timestamp = [date |-> Normal(v.day), time |-> 0, fraction |-> 0]
    <3> HIDE DEF got
    <3> QED
      BY <2>1, <2>2, <2>3, <2>6, EchoMoment DEF v
  <2>9. Given /\ Is(v, "text") /\ Is(v.text, "units") /\ Is(got, "text") /\ p.indicator # 0 =>
          LengthOf(got.text) = IF p.size < 0 \/ p.indicator = NTS THEN v.text.units
                               ELSE Least(p.size \div UnitOf(p.ctype), v.text.units)
    <3> HIDE DEF got
    <3> QED
      BY <2>1, <2>2, <2>3, <2>6, EchoWord DEF v
  <2>10. v = IF Is(p.value, "numeric") THEN [numeric |-> Described(p)] ELSE p.value
    BY DEF v, Meant
  <2> HIDE DEF modulus
  <2> QED
    BY <2>5, <2>7, <2>8, <2>9, <2>10 DEF EchoIsFaithful, p, modulus
<1> QED
  BY <1>1, AlwaysKnown, PTL

=============================================================================
