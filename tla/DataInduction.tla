---------------------------- MODULE DataInduction ----------------------------
(***************************************************************************)
(* Induction over numbers and sequences, stated of sets instead of         *)
(* predicates, from the minimum of a well-founded relation; and recursive   *)
(* functions: a definition LET at[k \in 0..n] == ... IN at[n] unrolls to a  *)
(* function that starts at v0 and takes the steps D (Unrolled), which exists *)
(* (RunExists) and is unique (RunsAgree, RunIs).  Then quotients.            *)
(***************************************************************************)
EXTENDS Integers, Sequences, WellFoundedInduction, SequenceTheorems, TLAPS

\* A set that holds 0 and, with a number, the next one, holds every number.
LEMMA NatSetInduction ==
  ASSUME NEW S, 0 \in S, \A n \in Nat : n \in S => n + 1 \in S
  PROVE  \A n \in Nat : n \in S
<1> DEFINE T == {n \in Nat : n \notin S}
           R == {ss \in Nat \X Nat : ss[1] < ss[2]}
<1>1. SUFFICES ASSUME T # {} PROVE FALSE
  OBVIOUS
<1>2. PICK x \in T : \A y \in T : ~(<<y, x>> \in R)
  <2>1. IsWellFoundedOn(R, Nat)
    BY NatLessThanWellFounded DEF OpToRel
  <2>2. T \subseteq Nat
    OBVIOUS
  <2> HIDE DEF T, R
  <2> QED BY <1>1, <2>1, <2>2, WFMin
<1>3. x \in Nat /\ x \notin S /\ x # 0
  OBVIOUS
<1>4. x - 1 \in Nat /\ x - 1 \notin S
  BY <1>3
<1>5. <<x - 1, x>> \in R
  BY <1>3, <1>4
<1> QED BY <1>2, <1>4, <1>5

\* The same within an interval.
LEMMA IntervalInduction ==
  ASSUME NEW S, NEW n \in Nat, 0 \in S, \A k \in 1..n : k - 1 \in S => k \in S
  PROVE  \A k \in 0..n : k \in S
<1> DEFINE T == {k \in Nat : k <= n => k \in S}
<1>1. \A k \in Nat : k \in T
  <2>1. 0 \in T
    OBVIOUS
  <2>2. \A k \in Nat : k \in T => k + 1 \in T
    <3> SUFFICES ASSUME NEW k \in Nat, k \in T, k + 1 <= n PROVE k + 1 \in S
      OBVIOUS
    <3>1. k \in S /\ k + 1 \in 1..n /\ (k + 1) - 1 = k
      OBVIOUS
    <3> QED BY <3>1
  <2> HIDE DEF T
  <2> QED BY <2>1, <2>2, NatSetInduction
<1> QED BY <1>1

\* The functions over 0..n that start at v0 and take the steps D.
Unrolled(V, n, v0, D) == {h \in [0..n -> V] : h[0] = v0 /\ \A k \in 1..n : h[k] = D[k][h[k - 1]]}

\* A recursive function over 0..n whose steps stay in a set exists.
LEMMA RunExists ==
  ASSUME NEW V, NEW n \in Nat, NEW v0 \in V, NEW D \in [1..n -> [V -> V]]
  PROVE  Unrolled(V, n, v0, D) # {}
<1> DEFINE Good(m, h) == h[0] = v0 /\ \A k \in 1..m : h[k] = D[k][h[k - 1]]
           S == {m \in 0..n : \E h \in [0..m -> V] : Good(m, h)}
<1>1. 0 \in S
  <2>1. [k \in 0..0 |-> v0] \in [0..0 -> V] /\ Good(0, [k \in 0..0 |-> v0])
    OBVIOUS
  <2> HIDE DEF Good
  <2> QED BY <2>1
<1>2. ASSUME NEW m \in 1..n, m - 1 \in S PROVE m \in S
  <2>1. PICK h \in [0..(m - 1) -> V] : Good(m - 1, h)
    BY <1>2
  <2> DEFINE g == [k \in 0..m |-> IF k = m THEN D[m][h[m - 1]] ELSE h[k]]
  <2>2. D[m][h[m - 1]] \in V
    BY <2>1
  <2>3. g \in [0..m -> V]
    BY <2>2
  <2>4. g[0] = v0
    BY <2>1
  <2>5. ASSUME NEW k \in 1..m PROVE g[k] = D[k][g[k - 1]]
    <3>1. CASE k = m
      BY <3>1
    <3>2. CASE k # m
      <4>1. k \in 1..(m - 1) /\ k \in 0..m /\ k - 1 \in 0..m /\ k - 1 # m
        BY <3>2
      <4>2. h[k] = D[k][h[k - 1]]
        BY <2>1, <4>1
      <4> QED BY <4>1, <4>2, <3>2
    <3> QED BY <3>1, <3>2
  <2>6. Good(m, g)
    BY <2>4, <2>5
  <2> HIDE DEF g, Good
  <2> QED BY <2>3, <2>6
<1>3. \A m \in 0..n : m \in S
  <2> HIDE DEF S
  <2> QED BY <1>1, <1>2, IntervalInduction
<1>4. PICK h \in [0..n -> V] : Good(n, h)
  BY <1>3
<1> QED BY <1>4 DEF Unrolled

IsOn(f, S) == f = [x \in S |-> f[x]]

\* A function over 0..n that takes these steps as long as it stays in the set
\* is one of them.
LEMMA RunStays ==
  ASSUME NEW V, NEW n \in Nat, NEW v0 \in V, NEW D \in [1..n -> [V -> V]],
         NEW f, IsOn(f, 0..n), f[0] = v0,
         \A k \in 1..n : f[k - 1] \in V => f[k] = D[k][f[k - 1]]
  PROVE  f \in Unrolled(V, n, v0, D)
<1> DEFINE S == {k \in 0..n : f[k] \in V}
<1>1. 0 \in S
  OBVIOUS
<1>2. ASSUME NEW k \in 1..n, k - 1 \in S PROVE k \in S
  <2>1. f[k] = D[k][f[k - 1]] /\ k \in 0..n
    BY <1>2
  <2>2. D[k] \in [V -> V] /\ f[k - 1] \in V
    BY <1>2
  <2> QED BY <2>1, <2>2
<1>3. \A k \in 0..n : k \in S
  <2> HIDE DEF S
  <2> QED BY <1>1, <1>2, IntervalInduction
<1>4. \A k \in 0..n : f[k] \in V
  BY <1>3
<1>5. f \in [0..n -> V]
  BY <1>4 DEF IsOn
<1>6. \A k \in 1..n : f[k] = D[k][f[k - 1]]
  BY <1>4
<1> QED BY <1>5, <1>6 DEF Unrolled

\* Two such functions agree as far as their steps do.
LEMMA RunsAgree ==
  ASSUME NEW V, NEW n \in Nat, NEW m \in Nat, m <= n, NEW v0, NEW D, NEW E,
         NEW f \in Unrolled(V, n, v0, D), NEW g \in Unrolled(V, m, v0, E),
         \A k \in 1..m : D[k] = E[k]
  PROVE  \A k \in 0..m : f[k] = g[k]
<1> DEFINE S == {k \in 0..m : f[k] = g[k]}
<1>1. /\ f[0] = v0 /\ \A k \in 1..n : f[k] = D[k][f[k - 1]]
      /\ g[0] = v0 /\ \A k \in 1..m : g[k] = E[k][g[k - 1]]
  BY DEF Unrolled
<1>2. 0 \in S
  BY <1>1
<1>3. ASSUME NEW k \in 1..m, k - 1 \in S PROVE k \in S
  <2>1. k \in 1..n
    OBVIOUS
  <2>2. f[k] = D[k][f[k - 1]] /\ g[k] = E[k][g[k - 1]] /\ D[k] = E[k]
    BY <1>1, <2>1
  <2>3. f[k - 1] = g[k - 1]
    BY <1>3
  <2> QED BY <2>2, <2>3
<1>4. \A k \in 0..m : k \in S
  <2> HIDE DEF S
  <2> QED BY <1>2, <1>3, IntervalInduction
<1> QED BY <1>4

\* What takes these steps as long as it stays in the set.
Follows(h, V, m, v0, D) == h[0] = v0 /\ \A j \in 1..m : h[j - 1] \in V => h[j] = D[j][h[j - 1]]

\* A function that takes the steps of an unrolled one has its values.
LEMMA RunIs ==
  ASSUME NEW V, NEW n \in Nat, NEW v0, NEW D, NEW f \in Unrolled(V, n, v0, D), NEW m \in 0..n,
         NEW h, Follows(h, V, m, v0, D)
  PROVE  h[m] = f[m]
<1> DEFINE S == {j \in 0..m : h[j] = f[j]}
<1>1. f \in [0..n -> V] /\ f[0] = v0 /\ \A k \in 1..n : f[k] = D[k][f[k - 1]]
  BY DEF Unrolled
<1>2. 0 \in S
  BY <1>1 DEF Follows
<1>3. ASSUME NEW j \in 1..m, j - 1 \in S PROVE j \in S
  <2>1. j \in 1..n /\ j - 1 \in 0..n /\ j \in 0..m
    OBVIOUS
  <2>2. h[j - 1] = f[j - 1] /\ f[j - 1] \in V
    BY <1>1, <1>3, <2>1
  <2> QED BY <1>1, <2>1, <2>2 DEF Follows
<1>4. m \in Nat
  OBVIOUS
<1>5. \A j \in 0..m : j \in S
  <2> HIDE DEF S
  <2> QED BY <1>2, <1>3, <1>4, IntervalInduction
<1> QED BY <1>4, <1>5

\* A set that holds the empty sequence and, with a sequence, each that is one
\* element longer, holds every sequence.
LEMMA SeqInduction ==
  ASSUME NEW A, NEW S, <<>> \in S,
         \A s \in Seq(A) : s \in S => \A e \in A : Append(s, e) \in S
  PROVE  \A s \in Seq(A) : s \in S
<1> DEFINE T == {n \in Nat : \A s \in Seq(A) : Len(s) = n => s \in S}
<1>1. 0 \in T
  <2>1. \A s \in Seq(A) : Len(s) = 0 => s = <<>>
    OBVIOUS
  <2> QED BY <2>1
<1>2. ASSUME NEW n \in Nat, n \in T PROVE n + 1 \in T
  <2>1. SUFFICES ASSUME NEW s \in Seq(A), Len(s) = n + 1 PROVE s \in S
    OBVIOUS
  <2>2. s # <<>>
    BY <2>1
  <2>3. PICK t \in Seq(A), e \in A : s = Append(t, e)
    BY <2>2, SequenceEmptyOrAppend
  <2>4. Len(t) = n
    <3>1. Len(s) = Len(t) + 1
      BY <2>3, AppendProperties
    <3>2. Len(t) \in Nat
      OBVIOUS
    <3> QED BY <2>1, <3>1, <3>2
  <2>5. t \in S
    BY <1>2, <2>4
  <2> QED BY <2>3, <2>5
<1>3. \A n \in Nat : n \in T
  <2> HIDE DEF T
  <2> QED BY <1>1, <1>2, NatSetInduction
<1>4. \A s \in Seq(A) : Len(s) \in Nat
  OBVIOUS
<1> QED BY <1>3, <1>4

-----------------------------------------------------------------------------
\* Multiplication respects the order of the numbers.
LEMMA TimesMono == ASSUME NEW x \in Nat, NEW y \in Nat, NEW z \in Nat, x <= y PROVE x * z <= y * z
OBVIOUS

\* Quotient and remainder.
LEMMA DivIs ==
  ASSUME NEW a \in Nat, NEW n \in Nat \ {0}
  PROVE  a \div n \in Nat /\ a % n \in Nat /\ a % n < n /\ a = (n * (a \div n)) + (a % n)
<1>1. a \in Int /\ a \div n \in Int /\ a = (n * (a \div n)) + (a % n)
  OBVIOUS
<1>2. a \div n \in Nat /\ a % n \in Nat /\ a % n < n
  OBVIOUS
<1> QED BY <1>1, <1>2

\* The quotient is the greatest multiple below.
LEMMA DivAtLeast ==
  ASSUME NEW a \in Nat, NEW n \in Nat \ {0}, NEW u \in Nat
  PROVE  u * n \in Nat /\ (u * n <= a <=> u <= a \div n)
<1> DEFINE q == a \div n
           m == a % n
<1>1. q \in Nat /\ m \in Nat /\ m < n /\ a = (n * q) + m
  BY DivIs
<1> HIDE DEF q, m
<1>2. u * n \in Nat /\ q * n \in Nat /\ q * n = n * q
  BY <1>1
<1>3. ASSUME u <= q PROVE u * n <= a
  <2>1. u * n <= q * n
    BY <1>1, <1>3, TimesMono
  <2> QED BY <1>1, <1>2, <2>1
<1>4. ASSUME u * n <= a, ~(u <= q) PROVE FALSE
  <2>1. q + 1 <= u /\ q + 1 \in Nat
    BY <1>1, <1>4
  <2>2. (q + 1) * n <= u * n
    BY <2>1, TimesMono
  <2>3. (q + 1) * n = q * n + n
    BY <1>1
  <2> DEFINE v == q * n
             w == u * n
  <2>4. v \in Nat /\ w \in Nat /\ a = v + m /\ v + n <= w /\ w <= a
    BY <1>1, <1>2, <1>4, <2>2, <2>3
  <2> HIDE DEF v, w
  <2> QED BY <1>1, <2>4
<1> QED BY <1>2, <1>3, <1>4 DEF q

\* A number that is a whole multiple, and one below the divisor.
LEMMA DivWhole ==
  ASSUME NEW a \in Nat, NEW n \in Nat \ {0}, a % n = 0
  PROVE  (a \div n) * n = a /\ a \div n \in Nat
<1> DEFINE q == a \div n
           m == a % n
<1>1. q \in Nat /\ m = 0 /\ a = (n * q) + m
  BY DivIs
<1> HIDE DEF q, m
<1>2. q * n = a
  BY <1>1
<1> QED BY <1>1, <1>2 DEF q

\* A number below the divisor is its own remainder.
LEMMA ModSmall == ASSUME NEW a \in Nat, NEW n \in Nat \ {0}, a < n PROVE a % n = a
OBVIOUS

\* Every integer is a multiple and a remainder ...
LEMMA ModParts ==
  ASSUME NEW x \in Int, NEW F \in Nat \ {0}
  PROVE  x % F \in 0..(F - 1) /\ \E q \in Int : x = (q * F) + (x % F)
<1>1. x \div F \in Int /\ x = (F * (x \div F)) + (x % F) /\ x % F \in 0..(F - 1)
  OBVIOUS
<1> DEFINE q == x \div F
           r == x % F
<1>2. q \in Int /\ x = (F * q) + r /\ r \in 0..(F - 1)
  BY <1>1
<1> HIDE DEF q, r
<1>3. F * q = q * F
  BY <1>2
<1> QED BY <1>2, <1>3 DEF r

\* ... in one way only.
LEMMA ModIs ==
  ASSUME NEW x \in Int, NEW F \in Nat \ {0}, NEW q \in Int, NEW r \in 0..(F - 1), x = (q * F) + r
  PROVE  x % F = r
<1> DEFINE m == x % F
<1>1. m \in 0..(F - 1) /\ \E p \in Int : x = (p * F) + m
  BY ModParts
<1> HIDE DEF m
<1>2. PICK p \in Int : x = (p * F) + m
  BY <1>1
<1> DEFINE a == q * F
           b == p * F
<1>3. a \in Int /\ b \in Int /\ a + r = b + m
  BY <1>2
<1>4. ASSUME p < q PROVE FALSE
  <2>1. q - p - 1 \in Nat
    BY <1>4
  <2>2. (q - p - 1) * F \in Nat
    BY <2>1
  <2>3. (q - p - 1) * F = a - b - F
    BY <2>1
  <2> HIDE DEF a, b
  <2> QED BY <1>1, <1>3, <2>2, <2>3
<1>5. ASSUME q < p PROVE FALSE
  <2>1. p - q - 1 \in Nat
    BY <1>5
  <2>2. (p - q - 1) * F \in Nat
    BY <2>1
  <2>3. (p - q - 1) * F = b - a - F
    BY <2>1
  <2> HIDE DEF a, b
  <2> QED BY <1>1, <1>3, <2>2, <2>3
<1>6. p = q
  BY <1>4, <1>5
<1>7. a = b
  BY <1>6
<1> HIDE DEF a, b
<1>8. m = r
  BY <1>1, <1>3, <1>7
<1> QED BY <1>8 DEF m

\* A remainder may be taken before something is added.
LEMMA ModPlus ==
  ASSUME NEW x \in Int, NEW y \in Int, NEW F \in Nat \ {0}
  PROVE  ((x % F) + y) % F = (x + y) % F
<1> DEFINE m == x % F
           r == (x + y) % F
<1>1. m \in 0..(F - 1) /\ \E q \in Int : x = (q * F) + m
  BY ModParts
<1>2. r \in 0..(F - 1) /\ \E q \in Int : x + y = (q * F) + r
  <2>1. x + y \in Int
    OBVIOUS
  <2> QED BY <2>1, ModParts
<1> HIDE DEF m, r
<1>3. PICK q1 \in Int : x = (q1 * F) + m
  BY <1>1
<1>4. PICK q2 \in Int : x + y = (q2 * F) + r
  BY <1>2
<1>5. m + y = ((q2 - q1) * F) + r
  <2> DEFINE a == q1 * F
             b == q2 * F
  <2>1. a \in Int /\ b \in Int /\ (q2 - q1) * F = b - a /\ x = a + m /\ x + y = b + r
    BY <1>3, <1>4
  <2> HIDE DEF a, b
  <2> QED BY <1>1, <1>2, <2>1
<1>6. m + y \in Int /\ q2 - q1 \in Int
  BY <1>1
<1>7. (m + y) % F = r
  BY <1>2, <1>5, <1>6, ModIs
<1> QED BY <1>7 DEF m, r

\* Taken for a multiple first it is the same.
LEMMA ModMod ==
  ASSUME NEW x \in Int, NEW F \in Nat \ {0}, NEW L \in Nat \ {0}, F % L = 0
  PROVE  (x % F) % L = x % L
<1> DEFINE m == x % F
           k == F \div L
           r == x % L
<1>1. m \in 0..(F - 1) /\ \E q \in Int : x = (q * F) + m
  BY ModParts
<1>2. k \in Nat /\ k * L = F
  BY DivWhole
<1>3. r \in 0..(L - 1) /\ \E q \in Int : x = (q * L) + r
  BY ModParts
<1> HIDE DEF m, k, r
<1>4. PICK q \in Int : x = (q * F) + m
  BY <1>1
<1>5. PICK p \in Int : x = (p * L) + r
  BY <1>3
<1>6. (q * k) * L = q * F /\ q * k \in Int
  <2>1. q * k \in Int
    BY <1>2
  <2>2. (q * k) * L = q * (k * L)
    BY <1>2
  <2> QED BY <1>2, <2>1, <2>2
<1>7. m = ((p - (q * k)) * L) + r
  <2> DEFINE z == q * k
             a == q * F
             b == p * L
  <2>1. z \in Int /\ a \in Int /\ b \in Int /\ z * L = a /\ x = a + m /\ x = b + r
    BY <1>4, <1>5, <1>6
  <2>2. (p - z) * L = b - (z * L)
    <3> HIDE DEF z
    <3> QED BY <2>1
  <2> HIDE DEF z, a, b
  <2>3. m = ((p - z) * L) + r
    BY <1>1, <1>3, <2>1, <2>2
  <2> QED BY <2>3 DEF z
<1>8. m \in Int /\ p - (q * k) \in Int
  BY <1>1, <1>6
<1>9. m % L = r
  BY <1>3, <1>7, <1>8, ModIs
<1> QED BY <1>9 DEF m, r

\* A set of numbers that is not empty has a least one.
LEMMA LeastNat ==
  ASSUME NEW T, T \subseteq Nat, T # {}
  PROVE  \E x \in T : \A y \in T : x <= y
<1> DEFINE R == {ss \in Nat \X Nat : ss[1] < ss[2]}
<1>1. IsWellFoundedOn(R, Nat)
  BY NatLessThanWellFounded DEF OpToRel
<1>2. PICK x \in T : \A y \in T : ~(<<y, x>> \in R)
  <2> HIDE DEF R
  <2> QED BY <1>1, WFMin
<1>3. \A y \in T : x <= y
  <2> SUFFICES ASSUME NEW y \in T, y < x PROVE FALSE
    BY <1>2
  <2>1. <<y, x>> \in R
    OBVIOUS
  <2> QED BY <1>2, <2>1
<1> QED BY <1>3
==============================================================================
