----------------------------- MODULE NatLemmas -----------------------------
(* Extrema of sets of naturals, for the scans over banks and tables that   *)
(* the modules state with CHOOSE, and division, for the tick arithmetic.   *)
EXTENDS Naturals, WellFoundedInduction, TLAPS

(* A nonempty set of naturals has a smallest element.                      *)
LEMMA NatMin ==
    ASSUME NEW T, T \subseteq Nat, T # {}
    PROVE  \E x \in T : \A y \in T : x <= y
<1> DEFINE R == {p \in Nat \X Nat : p[1] < p[2]}
<1>1. IsWellFoundedOn(R, Nat)
  BY NatLessThanWellFounded DEF OpToRel
<1>2. PICK x \in T : \A y \in T : ~ (<<y, x>> \in R)
  <2> HIDE DEF R
  <2> QED BY <1>1, WFMin
<1>3. ASSUME NEW y \in T PROVE x <= y
  <2>1. ~ (<<y, x>> \in R)
    BY <1>2
  <2>2. x \in Nat /\ y \in Nat
    OBVIOUS
  <2>3. ~ (y < x)
    BY <2>1, <2>2
  <2> QED BY <2>2, <2>3
<1> QED BY <1>3

(* ... and one below a bound has a largest.                                *)
LEMMA NatMax ==
    ASSUME NEW N \in Nat, NEW T \in SUBSET (0 .. N), T # {}
    PROVE  \E x \in T : \A y \in T : y <= x
<1> DEFINE D == {N - x : x \in T}
<1>1. D \subseteq Nat /\ D # {}
  <2>1. \A x \in T : x \in 0 .. N /\ N - x \in Nat
    OBVIOUS
  <2>2. PICK x \in T : TRUE
    OBVIOUS
  <2>3. N - x \in D
    OBVIOUS
  <2> QED BY <2>1, <2>3
<1>2. PICK d \in D : \A e \in D : d <= e
  <2> HIDE DEF D
  <2> QED BY <1>1, NatMin
<1>3. PICK x \in T : d = N - x
  BY <1>2
<1>4. ASSUME NEW y \in T PROVE y <= x
  <2>1. N - x <= N - y
    BY <1>2, <1>3
  <2>2. x \in 0 .. N /\ y \in 0 .. N
    OBVIOUS
  <2> QED BY <2>1, <2>2
<1> QED BY <1>4

(* The first place at which a function over 0 .. N takes its smallest      *)
(* value is the one place the definition describes.                        *)
LEMMA FirstMin ==
    ASSUME NEW N \in Nat, NEW f \in [0 .. N -> Nat]
    PROVE  \E b \in 0 .. N : \A d \in 0 .. N : f[b] < f[d] \/ (f[b] = f[d] /\ b <= d)
<1> DEFINE V == {f[b] : b \in 0 .. N}
<1>1. V \subseteq Nat /\ V # {}
  <2>1. 0 \in 0 .. N
    OBVIOUS
  <2> QED BY <2>1
<1>2. PICK v \in V : \A u \in V : v <= u
  <2> HIDE DEF V
  <2> QED BY <1>1, NatMin
<1> DEFINE P == {b \in 0 .. N : f[b] = v}
<1>3. P \subseteq Nat /\ P # {}
  BY <1>2
<1>4. PICK b \in P : \A d \in P : b <= d
  <2> HIDE DEF P
  <2> QED BY <1>3, NatMin
<1>5. ASSUME NEW d \in 0 .. N PROVE f[b] < f[d] \/ (f[b] = f[d] /\ b <= d)
  <2>1. f[b] = v /\ f[b] \in Nat /\ f[d] \in Nat /\ v <= f[d]
    BY <1>2
  <2>2. CASE f[d] = v
    BY <2>1, <2>2, <1>4
  <2>3. CASE f[d] # v
    BY <2>1, <2>3
  <2> QED BY <2>2, <2>3
<1> QED BY <1>5

(* Division: quotient and remainder exist, and are what \div and % give.   *)
LEMMA QuotientExists ==
    ASSUME NEW p \in Nat \ {0}, NEW x \in Nat
    PROVE  \E q \in Nat, r \in 0 .. (p - 1) : x = p * q + r
<1> DEFINE T == {t \in Nat : \E q \in Nat : x = p * q + t}
<1>1. x \in T
  <2>1. x = p * 0 + x
    OBVIOUS
  <2> QED BY <2>1
<1>2. PICK r \in T : \A t \in T : r <= t
  <2>1. T \subseteq Nat /\ T # {}
    BY <1>1
  <2> HIDE DEF T
  <2> QED BY <2>1, NatMin
<1>3. PICK q \in Nat : x = p * q + r
  OBVIOUS
<1>4. ASSUME r >= p PROVE FALSE
  <2>1. r - p \in Nat /\ p * q + r = p * (q + 1) + (r - p)
    BY <1>4
  <2>2. r - p \in T
    BY <2>1, <1>3
  <2>3. r <= r - p
    <3> HIDE DEF T
    <3> QED BY <1>2, <2>2
  <2>4. r \in Nat
    OBVIOUS
  <2> HIDE DEF T
  <2> QED BY <2>3, <2>4
<1> QED BY <1>3, <1>4

LEMMA QuotientIs ==
    ASSUME NEW p \in Nat \ {0}, NEW q \in Nat, NEW r \in 0 .. (p - 1)
    PROVE  (p * q + r) \div p = q
OBVIOUS

LEMMA RemainderIs ==
    ASSUME NEW p \in Nat \ {0}, NEW q \in Nat, NEW r \in 0 .. (p - 1)
    PROVE  (p * q + r) % p = r
OBVIOUS

LEMMA Division ==
    ASSUME NEW p \in Nat \ {0}, NEW x \in Nat
    PROVE  x \div p \in Nat /\ x % p \in 0 .. (p - 1) /\ x = p * (x \div p) + (x % p)
<1>1. PICK q \in Nat, r \in 0 .. (p - 1) : x = p * q + r
  BY QuotientExists
<1>2. x \div p = q
  BY <1>1, QuotientIs
<1>3. x % p = r
  BY <1>1, RemainderIs
<1> QED BY <1>1, <1>2, <1>3

(* A remainder may be taken before a sum is.                               *)
LEMMA RemainderOfSum ==
    ASSUME NEW p \in Nat \ {0}, NEW b \in Nat, NEW e \in Nat
    PROVE  (b + e) % p = ((b % p) + e) % p
<1>1. PICK q \in Nat, a \in 0 .. (p - 1) : b = p * q + a
  BY QuotientExists
<1>2. PICK k \in Nat, r \in 0 .. (p - 1) : a + e = p * k + r
  <2>1. a + e \in Nat
    OBVIOUS
  <2> QED BY <2>1, QuotientExists
<1>3. b + e = p * (q + k) + r /\ q + k \in Nat
  <2>1. p * (q + k) = p * q + p * k /\ p * q \in Nat /\ p * k \in Nat
    OBVIOUS
  <2> DEFINE y == p * q
             z == p * k
  <2>2. b = y + a /\ a + e = z + r
    BY <1>1, <1>2
  <2>3. y \in Nat /\ z \in Nat /\ p * (q + k) = y + z
    BY <2>1
  <2> HIDE DEF y, z
  <2>4. b + e = (y + z) + r
    BY <2>2, <2>3
  <2> QED BY <2>3, <2>4
<1>4. (b + e) % p = r /\ b % p = a /\ (a + e) % p = r
  BY <1>1, <1>2, <1>3, RemainderIs
<1> QED BY <1>4

(* A sum of two remainders wraps once at most.                             *)
LEMMA WrapsOnce ==
    ASSUME NEW p \in Nat \ {0}, NEW a \in 0 .. (p - 1), NEW b \in 0 .. (p - 1)
    PROVE  (a + b) % p = IF a + b < p THEN a + b ELSE a + b - p
<1>1. CASE a + b < p
  BY <1>1
<1>2. CASE a + b >= p
  <2>1. a + b - p \in 0 .. (p - 1) /\ a + b = p * 1 + (a + b - p)
    BY <1>2
  <2> DEFINE r == a + b - p
  <2>2. (p * 1 + r) % p = r
    <3> HIDE DEF r
    <3> QED BY <2>1 DEF r
  <2> QED BY <1>2, <2>1, <2>2
<1> QED BY <1>1, <1>2

(* No more whole parts than the bound has.                                 *)
LEMMA QuotientBound ==
    ASSUME NEW p \in Nat \ {0}, NEW x \in Nat, NEW s \in Nat, x <= s * p
    PROVE  x \div p <= s
<1>1. x = p * (x \div p) + (x % p) /\ x \div p \in Nat /\ x % p \in 0 .. (p - 1)
  BY Division
<1>2. \A q \in Nat, r \in 0 .. (p - 1) : p * q + r <= s * p => q <= s
  OBVIOUS
<1> QED BY <1>1, <1>2

(* Multiples: sums, differences, products.                                 *)
LEMMA MultipleSum ==
    ASSUME NEW p \in Nat \ {0}, NEW a \in Nat, NEW b \in Nat, a % p = 0, b % p = 0
    PROVE  (a + b) % p = 0
<1>1. (a + b) % p = ((a % p) + b) % p
  BY RemainderOfSum
<1> QED BY <1>1

LEMMA MultipleDifference ==
    ASSUME NEW p \in Nat \ {0}, NEW a \in Nat, NEW b \in 0 .. a, a % p = 0, b % p = 0
    PROVE  (a - b) % p = 0
<1> DEFINE d == a - b
           r == d % p
<1>1. d \in Nat /\ b + d = a /\ b \in Nat
  OBVIOUS
<1>2. r \in 0 .. (p - 1)
  BY <1>1, Division
<1> HIDE DEF d
<1>3. (b + d) % p = ((b % p) + d) % p
  BY <1>1, RemainderOfSum
<1>4. 0 + d = d
  BY <1>1
<1>5. r = 0
  BY <1>1, <1>3, <1>4
<1> QED BY <1>5 DEF d

LEMMA MultipleProduct ==
    ASSUME NEW p \in Nat \ {0}, NEW q \in Nat
    PROVE  (q * p) % p = 0 /\ q * p \in Nat
<1>1. q * p = p * q + 0 /\ q * p \in Nat /\ 0 \in 0 .. (p - 1)
  OBVIOUS
<1>2. (p * q + 0) % p = 0
  BY <1>1, RemainderIs
<1> QED BY <1>1, <1>2

(* A function on 1 .. M that is defined from its value further up exists:  *)
(* f[a] is out[a] where the recursion halts, and is made by comb[a] from   *)
(* f[next[a]] elsewhere.                                                   *)
Climbs(M, halt, next) ==
    /\ halt \in SUBSET (1 .. M) /\ next \in [1 .. M -> 1 .. M]
    /\ \A a \in 1 .. M : a \notin halt => a < next[a]

Solves(f, M, halt, next, out, comb) ==
    \A a \in 1 .. M : f[a] = IF a \in halt THEN out[a] ELSE comb[a][f[next[a]]]

LEMMA Recursion ==
    ASSUME NEW M \in Nat, NEW V, NEW halt, NEW next, Climbs(M, halt, next),
           NEW out \in [1 .. M -> V], NEW comb \in [1 .. M -> [V -> V]]
    PROVE  \E f \in [1 .. M -> V] : Solves(f, M, halt, next, out, comb)
<1> USE DEF Climbs, Solves
<1> DEFINE Eq(f, a) == f[a] = IF a \in halt THEN out[a] ELSE comb[a][f[next[a]]]
           Solved(k) == \E f \in [k .. M -> V] : \A a \in k .. M : Eq(f, a)
           T == {j \in 0 .. M : ~ Solved((M + 1) - j)}
<1>1. T = {}
  <2> SUFFICES ASSUME T # {} PROVE FALSE
    OBVIOUS
  <2>1. PICK x \in T : \A y \in T : x <= y
    <3>1. T \subseteq Nat
      OBVIOUS
    <3> HIDE DEF T
    <3> QED BY <3>1, NatMin
  <2>2. x \in 0 .. M /\ ~ Solved((M + 1) - x)
    OBVIOUS
  <2>3. x # 0
    <3>1. Solved(M + 1)
      <4>1. (M + 1) .. M = {}
        OBVIOUS
      <4>2. [a \in (M + 1) .. M |-> a] \in [(M + 1) .. M -> V]
        BY <4>1
      <4> QED BY <4>1, <4>2
    <3>2. (M + 1) - 0 = M + 1
      OBVIOUS
    <3> HIDE DEF Solved
    <3> QED BY <2>2, <3>1, <3>2
  <2> DEFINE k == (M + 1) - x
  <2>4. k \in 1 .. M /\ x - 1 \in 0 .. M /\ (M + 1) - (x - 1) = k + 1
    BY <2>2, <2>3
  <2>5. Solved(k + 1)
    <3>1. x - 1 \notin T
      <4>1. \A y \in T : x <= y
        BY <2>1
      <4> HIDE DEF T, k
      <4> QED BY <2>2, <4>1
    <3> HIDE DEF Solved, k
    <3> QED BY <2>4, <3>1
  <2>6. ~ Solved(k)
    BY <2>2
  <2> HIDE DEF k, T
  <2>7. PICK f \in [(k + 1) .. M -> V] : \A a \in (k + 1) .. M : Eq(f, a)
    BY <2>5
  <2> DEFINE own == IF k \in halt THEN out[k] ELSE comb[k][f[next[k]]]
             g == [a \in k .. M |-> IF a = k THEN own ELSE f[a]]
  <2>8. own \in V
    <3>1. out[k] \in V /\ comb[k] \in [V -> V]
      BY <2>4
    <3>2. k \notin halt => f[next[k]] \in V
      BY <2>4
    <3> QED BY <3>1, <3>2
  <2>9. \A a \in (k + 1) .. M : g[a] = f[a]
    BY <2>4
  <2>10. g \in [k .. M -> V]
    <3>1. \A a \in k .. M : a = k \/ a \in (k + 1) .. M
      BY <2>4
    <3> HIDE DEF own
    <3> QED BY <2>8, <3>1
  <2>11. ASSUME NEW a \in k .. M PROVE Eq(g, a)
    <3>1. a \in 1 .. M /\ (a = k \/ a \in (k + 1) .. M)
      BY <2>4
    <3>2. a \notin halt => next[a] \in (k + 1) .. M
      BY <2>4, <3>1
    <3>3. a \notin halt => g[next[a]] = f[next[a]]
      BY <2>9, <3>2
    <3>4. CASE a = k
      <4>1. g[a] = own
        BY <2>4, <3>4
      <4> HIDE DEF g
      <4> QED BY <3>3, <3>4, <4>1
    <3>5. CASE a \in (k + 1) .. M
      <4>1. g[a] = f[a] /\ Eq(f, a)
        BY <2>7, <2>9, <3>5
      <4> HIDE DEF g
      <4> QED BY <3>3, <4>1
    <3> QED BY <3>1, <3>4, <3>5
  <2> HIDE DEF g, Eq
  <2> QED BY <2>6, <2>10, <2>11
<1>2. Solved(1)
  <2>1. M \notin T
    <3> HIDE DEF T
    <3> QED BY <1>1
  <2>2. M \in 0 .. M /\ (M + 1) - M = 1
    OBVIOUS
  <2> HIDE DEF Solved
  <2> QED BY <2>1, <2>2
<1> QED BY <1>2
=============================================================================
