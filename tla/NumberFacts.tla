---------------------------- MODULE NumberFacts ----------------------------
(* What the proofs need to know of natural numbers beyond arithmetic, of     *)
(* sums, and of numbers written as decimal strings.                          *)
EXTENDS Sums, DecimalShift, WellFoundedInduction, TLAPS

\* A set of natural numbers has a least element.
LEMMA LeastElement ==
    ASSUME NEW T \in SUBSET Nat, T # {}
    PROVE  \E x \in T : \A y \in T : x <= y
<1>1. PICK x \in T : \A y \in T : ~(<<y, x>> \in OpToRel(<, Nat))
  BY NatLessThanWellFounded, WFMin
<1>2. \A y \in T : ~(y < x)
  BY <1>1 DEF OpToRel
<1> QED BY <1>2

\* A set of natural numbers with a bound has a greatest element.
LEMMA GreatestElement ==
    ASSUME NEW k \in Nat, NEW T \in SUBSET (1 .. k), T # {}
    PROVE  \E x \in T : \A y \in T : y <= x
<1> DEFINE U == {k - x : x \in T}
<1>1. U \in SUBSET Nat /\ U # {}
  <2>1. \A x \in T : k - x \in Nat
    OBVIOUS
  <2> QED BY <2>1
<1>2. PICK u \in U : \A v \in U : u <= v
  BY <1>1, LeastElement
<1>3. PICK x \in T : u = k - x
  OBVIOUS
<1>4. ASSUME NEW y \in T PROVE y <= x
  <2>1. k - x <= k - y
    BY <1>2, <1>3
  <2>2. x \in Int /\ y \in Int
    OBVIOUS
  <2> QED BY <2>1, <2>2
<1> QED BY <1>4

\* Induction over an interval, for the set T of counterexamples.
LEMMA NoneFails ==
    ASSUME NEW n \in Nat, NEW T \in SUBSET (0 .. n), 0 \notin T,
           \A x \in 1 .. n : x \in T => x - 1 \in T
    PROVE  T = {}
<1> SUFFICES ASSUME T # {} PROVE FALSE
  OBVIOUS
<1>1. PICK x \in T : \A y \in T : x <= y
  <2>1. T \in SUBSET Nat
    OBVIOUS
  <2> QED BY <2>1, LeastElement
<1>2. x \in 1 .. n
  OBVIOUS
<1>3. ~(x <= x - 1)
  BY <1>2
<1> QED BY <1>1, <1>2, <1>3

LEMMA SameSeq ==
    ASSUME NEW S, NEW v \in Seq(S), NEW w \in Seq(S), Len(v) = Len(w),
           \A k \in 1 .. Len(v) : v[k] = w[k]
    PROVE  v = w
  OBVIOUS

LEMMA SeqWithin ==
    ASSUME NEW S, NEW T, NEW v \in Seq(S), \A k \in 1 .. Len(v) : v[k] \in T
    PROVE  v \in Seq(T)
  OBVIOUS

\* Partial sums exist: the function that SumOf defines has its equation.
LEMMA SumSteps ==
    ASSUME NEW v \in Seq(Int)
    PROVE  \E g \in [0 .. Len(v) -> Int] :
              /\ g[0] = 0
              /\ \A i \in 1 .. Len(v) : g[i] = g[i - 1] + v[i]
              /\ SumOf(v) = g[Len(v)]
<1> DEFINE IsSums(g, n) == g = [m \in 0 .. n |-> IF m = 0 THEN 0 ELSE g[m - 1] + v[m]]
           T == {n \in 0 .. Len(v) : ~ \E g : IsSums(g, n)}
<1>0. Len(v) \in Nat /\ \A i \in 1 .. Len(v) : v[i] \in Int
  OBVIOUS
<1>1. T = {}
  <2>1. 0 \notin T
    <3> DEFINE g == [m \in 0 .. 0 |-> 0]
    <3>1. g = [m \in 0 .. 0 |-> IF m = 0 THEN 0 ELSE g[m - 1] + v[m]]
      OBVIOUS
    <3> QED BY <3>1
  <2>2. ASSUME NEW x \in 1 .. Len(v), x - 1 \notin T PROVE x \notin T
    <3>1. x \in Nat /\ x # 0 /\ x - 1 \in 0 .. Len(v)
      BY <1>0
    <3>2. PICK g : IsSums(g, x - 1)
      BY <2>2, <3>1
    <3> DEFINE h == [m \in 0 .. x |-> IF m = x THEN g[x - 1] + v[x] ELSE g[m]]
    <3>3. \A m \in 0 .. x - 1 : g[m] = IF m = 0 THEN 0 ELSE g[m - 1] + v[m]
      BY <3>2
    <3>4. ASSUME NEW m \in 0 .. x PROVE h[m] = IF m = 0 THEN 0 ELSE h[m - 1] + v[m]
      <4>1. CASE m = x
        BY <3>1, <4>1
      <4>2. CASE m # x
        <5>1. m \in 0 .. x - 1 /\ (m # 0 => m - 1 \in 0 .. x /\ m - 1 # x)
          BY <3>1, <4>2
        <5> QED BY <3>3, <4>2, <5>1
      <4> QED BY <4>1, <4>2
    <3>5. h = [m \in 0 .. x |-> IF m = 0 THEN 0 ELSE h[m - 1] + v[m]]
      <4>1. h = [m \in 0 .. x |-> h[m]]
        OBVIOUS
      <4> HIDE DEF h
      <4> QED BY <3>4, <4>1
    <3>6. IsSums(h, x)
      BY <3>5
    <3> QED BY <3>6
  <2> HIDE DEF T
  <2>3. T \in SUBSET (0 .. Len(v))
    BY DEF T
  <2> QED BY <1>0, <2>1, <2>2, <2>3, NoneFails
<1>2. \E g : IsSums(g, Len(v))
  BY <1>0, <1>1
<1> DEFINE s == CHOOSE g : IsSums(g, Len(v))
<1>3. s = [m \in 0 .. Len(v) |-> IF m = 0 THEN 0 ELSE s[m - 1] + v[m]]
  BY <1>2
<1>4. SumOf(v) = s[Len(v)]
  BY DEF SumOf
<1> HIDE DEF s
<1>5. s[0] = 0 /\ \A i \in 1 .. Len(v) : s[i] = s[i - 1] + v[i]
  BY <1>0, <1>3
<1>6. \A n \in 0 .. Len(v) : s[n] \in Int
  <2> DEFINE U == {n \in 0 .. Len(v) : s[n] \notin Int}
  <2>1. 0 \notin U
    BY <1>5
  <2>2. ASSUME NEW x \in 1 .. Len(v), x - 1 \notin U PROVE x \notin U
    <3>1. s[x - 1] \in Int
      BY <2>2
    <3> QED BY <1>0, <1>5, <3>1
  <2> HIDE DEF U
  <2>3. U = {}
    <3>1. U \in SUBSET (0 .. Len(v))
      BY DEF U
    <3> QED BY <1>0, <2>1, <2>2, <3>1, NoneFails
  <2> QED BY <2>3 DEF U
<1>7. s \in [0 .. Len(v) -> Int]
  BY <1>3, <1>6
<1> QED BY <1>4, <1>5, <1>7

LEMMA SumIsInt ==
    ASSUME NEW v \in Seq(Int)
    PROVE  SumOf(v) \in Int
  BY SumSteps

LEMMA SumEmpty == SumOf(<<>>) = 0
<1>1. <<>> \in Seq(Int) /\ Len(<<>>) = 0
  OBVIOUS
<1>2. PICK g \in [0 .. Len(<<>>) -> Int] : g[0] = 0 /\ SumOf(<<>>) = g[Len(<<>>)]
  BY <1>1, SumSteps
<1> QED BY <1>1, <1>2

LEMMA SumOfZeros ==
    ASSUME NEW v \in Seq(Int), \A i \in 1 .. Len(v) : v[i] = 0
    PROVE  SumOf(v) = 0
<1>1. PICK g \in [0 .. Len(v) -> Int] : /\ g[0] = 0
                                        /\ \A i \in 1 .. Len(v) : g[i] = g[i - 1] + v[i]
                                        /\ SumOf(v) = g[Len(v)]
  BY SumSteps
<1>2. Len(v) \in Nat
  OBVIOUS
<1> DEFINE T == {n \in 0 .. Len(v) : g[n] # 0}
<1>3. 0 \notin T
  BY <1>1
<1>4. ASSUME NEW x \in 1 .. Len(v), x - 1 \notin T PROVE x \notin T
  <2>1. x - 1 \in 0 .. Len(v)
    BY <1>2
  <2>2. g[x - 1] = 0
    BY <1>4, <2>1
  <2>3. g[x] = g[x - 1] + v[x] /\ v[x] = 0
    BY <1>1
  <2> QED BY <2>2, <2>3
<1>5. T = {}
  <2> HIDE DEF T
  <2>1. T \in SUBSET (0 .. Len(v))
    BY DEF T
  <2> QED BY <1>2, <1>3, <1>4, <2>1, NoneFails
<1> QED BY <1>1, <1>2, <1>5

\* A sum of members between 0 and b.
LEMMA SumBounded ==
    ASSUME NEW v \in Seq(Int), NEW b \in Nat, \A i \in 1 .. Len(v) : v[i] \in 0 .. b
    PROVE  SumOf(v) \in 0 .. Len(v) * b
<1>1. PICK g \in [0 .. Len(v) -> Int] : /\ g[0] = 0
                                        /\ \A i \in 1 .. Len(v) : g[i] = g[i - 1] + v[i]
                                        /\ SumOf(v) = g[Len(v)]
  BY SumSteps
<1>2. Len(v) \in Nat
  OBVIOUS
<1> DEFINE T == {n \in 0 .. Len(v) : ~(0 <= g[n] /\ g[n] <= n * b)}
<1>3. 0 \notin T
  BY <1>1
<1>4. ASSUME NEW x \in 1 .. Len(v), x - 1 \notin T PROVE x \notin T
  <2>1. x - 1 \in 0 .. Len(v) /\ x \in Nat
    BY <1>2
  <2>2. 0 <= g[x - 1] /\ g[x - 1] <= (x - 1) * b /\ g[x - 1] \in Int
    BY <1>4, <2>1
  <2>3. g[x] = g[x - 1] + v[x] /\ v[x] \in 0 .. b
    BY <1>1
  <2>4. (x - 1) * b + b = x * b /\ (x - 1) * b \in Int
    BY <2>1
  <2>5. 0 <= g[x] /\ g[x] <= x * b
    BY <2>2, <2>3, <2>4
  <2> QED BY <2>5
<1>5. T = {}
  <2> HIDE DEF T
  <2>1. T \in SUBSET (0 .. Len(v))
    BY DEF T
  <2> QED BY <1>2, <1>3, <1>4, <2>1, NoneFails
<1>6. 0 <= g[Len(v)] /\ g[Len(v)] <= Len(v) * b /\ g[Len(v)] \in Int
  BY <1>2, <1>5
<1>7. Len(v) * b \in Int
  BY <1>2
<1> QED BY <1>1, <1>6, <1>7

\* Two sequences that differ in one place at most.
LEMMA SumChanged ==
    ASSUME NEW v \in Seq(Int), NEW w \in Seq(Int), Len(v) = Len(w), NEW p \in 1 .. Len(v),
           \A i \in 1 .. Len(v) : i # p => w[i] = v[i]
    PROVE  SumOf(w) = SumOf(v) + (w[p] - v[p])
<1>1. PICK g \in [0 .. Len(v) -> Int] : /\ g[0] = 0
                                        /\ \A i \in 1 .. Len(v) : g[i] = g[i - 1] + v[i]
                                        /\ SumOf(v) = g[Len(v)]
  BY SumSteps
<1>2. PICK h \in [0 .. Len(v) -> Int] : /\ h[0] = 0
                                        /\ \A i \in 1 .. Len(v) : h[i] = h[i - 1] + w[i]
                                        /\ SumOf(w) = h[Len(v)]
  BY SumSteps
<1>3. /\ Len(v) \in Nat /\ p \in Nat /\ p <= Len(v) /\ p >= 1
      /\ \A i \in 1 .. Len(v) : v[i] \in Int /\ w[i] \in Int
  OBVIOUS
<1> DEFINE d == w[p] - v[p]
           T == {n \in 0 .. Len(v) : ~((n < p => h[n] = g[n]) /\ (n >= p => h[n] = g[n] + d))}
<1>4. d \in Int
  BY <1>3
<1>5. 0 \notin T
  BY <1>1, <1>2, <1>3
<1>6. ASSUME NEW x \in 1 .. Len(v), x - 1 \notin T PROVE x \notin T
  <2>1. x - 1 \in 0 .. Len(v) /\ x \in 0 .. Len(v)
    BY <1>3
  <2>2. (x - 1 < p => h[x - 1] = g[x - 1]) /\ (x - 1 >= p => h[x - 1] = g[x - 1] + d)
    BY <1>6, <2>1
  <2>3. g[x] = g[x - 1] + v[x] /\ h[x] = h[x - 1] + w[x]
    BY <1>1, <1>2
  <2>4. g[x - 1] \in Int /\ h[x - 1] \in Int /\ v[x] \in Int /\ w[x] \in Int
    BY <1>3, <2>1
  <2>5. CASE x < p
    BY <1>3, <2>1, <2>2, <2>3, <2>5
  <2>6. CASE x = p
    <3>1. h[x - 1] = g[x - 1]
      BY <1>3, <2>2, <2>6
    <3>2. h[x] = g[x] + d
      BY <2>3, <2>4, <2>6, <3>1
    <3> QED BY <2>6, <3>2
  <2>7. CASE x > p
    <3>1. h[x - 1] = g[x - 1] + d
      BY <1>3, <2>2, <2>7
    <3>2. w[x] = v[x]
      BY <1>3, <2>7
    <3> HIDE DEF d
    <3>3. h[x] = g[x] + d
      BY <1>4, <2>3, <2>4, <3>1, <3>2
    <3> QED BY <1>3, <2>7, <3>3
  <2> QED BY <1>3, <2>5, <2>6, <2>7
<1>7. T = {}
  <2> HIDE DEF T
  <2>1. T \in SUBSET (0 .. Len(v))
    BY DEF T
  <2> QED BY <1>3, <1>5, <1>6, <2>1, NoneFails
<1>8. Len(v) \in 0 .. Len(v) /\ Len(v) >= p
  BY <1>3
<1> QED BY <1>1, <1>2, <1>7, <1>8

\* Sums grow with their members.
LEMMA SumMonotone ==
    ASSUME NEW v \in Seq(Int), NEW w \in Seq(Int), Len(v) = Len(w),
           \A i \in 1 .. Len(v) : v[i] <= w[i]
    PROVE  SumOf(v) <= SumOf(w)
<1>1. PICK g \in [0 .. Len(v) -> Int] : /\ g[0] = 0
                                        /\ \A i \in 1 .. Len(v) : g[i] = g[i - 1] + v[i]
                                        /\ SumOf(v) = g[Len(v)]
  BY SumSteps
<1>2. PICK h \in [0 .. Len(v) -> Int] : /\ h[0] = 0
                                        /\ \A i \in 1 .. Len(v) : h[i] = h[i - 1] + w[i]
                                        /\ SumOf(w) = h[Len(v)]
  BY SumSteps
<1>3. Len(v) \in Nat /\ \A i \in 1 .. Len(v) : v[i] \in Int /\ w[i] \in Int
  OBVIOUS
<1> DEFINE T == {n \in 0 .. Len(v) : ~(g[n] <= h[n])}
<1>4. 0 \notin T
  BY <1>1, <1>2
<1>5. ASSUME NEW x \in 1 .. Len(v), x - 1 \notin T PROVE x \notin T
  <2>1. x - 1 \in 0 .. Len(v)
    BY <1>3
  <2>2. g[x - 1] <= h[x - 1]
    BY <1>5, <2>1
  <2>3. g[x] = g[x - 1] + v[x] /\ h[x] = h[x - 1] + w[x] /\ v[x] <= w[x]
    BY <1>1, <1>2
  <2>4. g[x - 1] \in Int /\ h[x - 1] \in Int /\ v[x] \in Int /\ w[x] \in Int
    BY <1>3, <2>1
  <2> QED BY <2>2, <2>3, <2>4
<1>6. T = {}
  <2> HIDE DEF T
  <2>1. T \in SUBSET (0 .. Len(v))
    BY DEF T
  <2> QED BY <1>3, <1>4, <1>5, <2>1, NoneFails
<1> QED BY <1>1, <1>2, <1>3, <1>6

\* One more member.
LEMMA SumAppend ==
    ASSUME NEW v \in Seq(Int), NEW x \in Int
    PROVE  SumOf(Append(v, x)) = SumOf(v) + x
<1> DEFINE w == Append(v, x)
<1>1. w \in Seq(Int) /\ Len(w) = Len(v) + 1 /\ Len(v) \in Nat
      /\ (\A i \in 1 .. Len(v) : w[i] = v[i] /\ v[i] \in Int)
      /\ w[Len(v) + 1] = x
  OBVIOUS
<1> HIDE DEF w
<1>2. PICK g \in [0 .. Len(v) -> Int] : /\ g[0] = 0
                                        /\ \A i \in 1 .. Len(v) : g[i] = g[i - 1] + v[i]
                                        /\ SumOf(v) = g[Len(v)]
  BY SumSteps
<1>3. PICK h \in [0 .. Len(w) -> Int] : /\ h[0] = 0
                                        /\ \A i \in 1 .. Len(w) : h[i] = h[i - 1] + w[i]
                                        /\ SumOf(w) = h[Len(w)]
  BY <1>1, SumSteps
<1> DEFINE T == {n \in 0 .. Len(v) : g[n] # h[n]}
<1>4. 0 \notin T
  BY <1>2, <1>3
<1>5. ASSUME NEW y \in 1 .. Len(v), y - 1 \notin T PROVE y \notin T
  <2>1. y - 1 \in 0 .. Len(v) /\ y \in 1 .. Len(w)
    BY <1>1
  <2>2. g[y - 1] = h[y - 1]
    BY <1>5, <2>1
  <2>3. g[y] = g[y - 1] + v[y] /\ h[y] = h[y - 1] + w[y] /\ w[y] = v[y]
    BY <1>1, <1>2, <1>3, <2>1
  <2> QED BY <2>2, <2>3
<1>6. T = {}
  <2> HIDE DEF T
  <2>1. T \in SUBSET (0 .. Len(v))
    BY DEF T
  <2> QED BY <1>1, <1>4, <1>5, <2>1, NoneFails
<1>7. g[Len(v)] = h[Len(v)]
  <2>1. Len(v) \in 0 .. Len(v)
    BY <1>1
  <2> QED BY <1>6, <2>1
<1>8. Len(v) + 1 \in 1 .. Len(w) /\ Len(v) + 1 - 1 = Len(v)
  BY <1>1
<1>9. h[Len(v) + 1] = h[Len(v)] + x
  <2>1. h[Len(v) + 1] = h[Len(v) + 1 - 1] + w[Len(v) + 1]
    BY <1>3, <1>8
  <2> QED BY <1>1, <1>8, <2>1
<1>10. SumOf(w) = SumOf(v) + x
  BY <1>1, <1>2, <1>3, <1>7, <1>9
<1> QED BY <1>10 DEF w

\* One after the other.
LEMMA SumConcat ==
    ASSUME NEW u \in Seq(Int), NEW v \in Seq(Int)
    PROVE  SumOf(u \o v) = SumOf(u) + SumOf(v)
<1> DEFINE w == u \o v
           m == Len(u)
           n == Len(v)
<1>0. /\ m \in Nat /\ n \in Nat
      /\ \A k \in 1 .. m : u[k] \in Int
      /\ \A k \in 1 .. n : v[k] \in Int
  <2>1. ASSUME NEW s \in Seq(Int) PROVE Len(s) \in Nat /\ \A k \in 1 .. Len(s) : s[k] \in Int
    OBVIOUS
  <2> QED BY <2>1
<1>1. w \in Seq(Int) /\ Len(w) = m + n
  OBVIOUS
<1>2. ASSUME NEW k \in 1 .. m PROVE w[k] = u[k] /\ k \in 1 .. m + n
  BY <1>0
<1>3. ASSUME NEW k \in 1 .. n PROVE w[m + k] = v[k] /\ m + k \in 1 .. m + n
  BY <1>0
<1>4. PICK f \in [0 .. m -> Int] : /\ f[0] = 0
                                   /\ \A i \in 1 .. m : f[i] = f[i - 1] + u[i]
                                   /\ SumOf(u) = f[m]
  BY SumSteps
<1>5. PICK g \in [0 .. n -> Int] : /\ g[0] = 0
                                   /\ \A i \in 1 .. n : g[i] = g[i - 1] + v[i]
                                   /\ SumOf(v) = g[n]
  BY SumSteps
<1> HIDE DEF w
<1>6. PICK h \in [0 .. m + n -> Int] : /\ h[0] = 0
                                       /\ \A i \in 1 .. m + n : h[i] = h[i - 1] + w[i]
                                       /\ SumOf(w) = h[m + n]
  BY <1>1, SumSteps
<1> HIDE DEF m, n
<1>7. h[m] = f[m]
  <2> DEFINE T == {x \in 0 .. m : h[x] # f[x]}
  <2>1. 0 \notin T
    BY <1>4, <1>6
  <2>2. ASSUME NEW x \in 1 .. m, x - 1 \notin T PROVE x \notin T
    <3>1. x - 1 \in 0 .. m
      BY <1>0
    <3>2. h[x - 1] = f[x - 1]
      BY <2>2, <3>1
    <3>3. f[x] = f[x - 1] + u[x] /\ h[x] = h[x - 1] + w[x] /\ w[x] = u[x]
      BY <1>2, <1>4, <1>6
    <3> QED BY <3>2, <3>3
  <2>3. T = {}
    <3> HIDE DEF T
    <3>1. T \in SUBSET (0 .. m)
      BY DEF T
    <3> QED BY <1>0, <2>1, <2>2, <3>1, NoneFails
  <2>4. m \in 0 .. m
    BY <1>0
  <2> QED BY <2>3, <2>4
<1>8. h[m + n] = f[m] + g[n]
  <2> DEFINE T == {x \in 0 .. n : h[m + x] # f[m] + g[x]}
  <2>0. f[m] \in Int
    BY <1>0, <1>4
  <2>1. 0 \notin T
    BY <1>0, <1>5, <1>7, <2>0
  <2>2. ASSUME NEW x \in 1 .. n, x - 1 \notin T PROVE x \notin T
    <3>1. x - 1 \in 0 .. n
      BY <1>0
    <3>2. h[m + (x - 1)] = f[m] + g[x - 1]
      BY <2>2, <3>1
    <3>3. g[x] = g[x - 1] + v[x] /\ h[m + x] = h[m + (x - 1)] + w[m + x] /\ w[m + x] = v[x]
      <4>1. m + x \in 1 .. m + n /\ w[m + x] = v[x]
        BY <1>3
      <4>2. h[m + x] = h[m + (x - 1)] + w[m + x]
        <5>1. h[m + x] = h[(m + x) - 1] + w[m + x]
          BY <1>6, <4>1
        <5>2. (m + x) - 1 = m + (x - 1)
          BY <1>0
        <5> QED BY <5>1, <5>2
      <4> QED BY <1>5, <4>1, <4>2
    <3>4. g[x - 1] \in Int /\ v[x] \in Int
      BY <1>0, <3>1
    <3>5. h[m + x] = f[m] + g[x]
      BY <2>0, <3>1, <3>2, <3>3, <3>4
    <3> QED BY <3>5
  <2>3. T = {}
    <3> HIDE DEF T
    <3>1. T \in SUBSET (0 .. n)
      BY DEF T
    <3> QED BY <1>0, <2>1, <2>2, <3>1, NoneFails
  <2>4. n \in 0 .. n
    BY <1>0
  <2> QED BY <2>3, <2>4
<1> QED BY <1>4, <1>5, <1>6, <1>8 DEF w

\* One member less.
LEMMA SumRemove ==
    ASSUME NEW v \in Seq(Int), NEW p \in 1 .. Len(v)
    PROVE  /\ RemoveAt(v, p) \in Seq(Int)
           /\ SumOf(RemoveAt(v, p)) = SumOf(v) - v[p]
<1> DEFINE a == SubSeq(v, 1, p - 1)
           b == SubSeq(v, p + 1, Len(v))
           c == Append(a, v[p])
<1>1. Len(v) \in Nat /\ v[p] \in Int /\ p \in Nat /\ p >= 1 /\ p <= Len(v)
  OBVIOUS
<1>2. a \in Seq(Int) /\ Len(a) = p - 1 /\ \A k \in 1 .. p - 1 : a[k] = v[k]
  BY <1>1
<1>3. b \in Seq(Int) /\ Len(b) = Len(v) - p /\ \A k \in 1 .. Len(v) - p : b[k] = v[p + k]
  BY <1>1
<1> HIDE DEF a, b
<1>4. /\ c \in Seq(Int) /\ Len(c) = p /\ \A k \in 1 .. p - 1 : c[k] = v[k]
      /\ c[p] = v[p]
  BY <1>1, <1>2
<1>5. SumOf(c) = SumOf(a) + v[p]
  BY <1>1, <1>2, SumAppend
<1> HIDE DEF c
<1>6. c \o b = v
  <2> DEFINE w == c \o b
  <2>1. c \in Seq(Int) /\ b \in Seq(Int) /\ Len(c) = p /\ Len(b) = Len(v) - p
    BY <1>3, <1>4
  <2>2. /\ w \in Seq(Int) /\ Len(w) = Len(c) + Len(b)
        /\ \A k \in 1 .. Len(c) : w[k] = c[k]
        /\ \A k \in 1 .. Len(b) : w[Len(c) + k] = b[k]
    <3>1. c \in Seq(Int) /\ b \in Seq(Int)
      BY <2>1
    <3> QED BY <3>1
  <2> HIDE DEF w
  <2>3. Len(w) = Len(v)
    BY <1>1, <2>1, <2>2
  <2>4. ASSUME NEW k \in 1 .. Len(v) PROVE v[k] = w[k]
    <3>1. CASE k < p
      <4>1. k \in 1 .. Len(c) /\ k \in 1 .. p - 1
        BY <1>1, <2>1, <3>1
      <4> QED BY <1>4, <2>2, <4>1
    <3>2. CASE k = p
      <4>1. k \in 1 .. Len(c)
        BY <1>1, <2>1, <3>2
      <4> QED BY <1>4, <2>2, <3>2, <4>1
    <3>3. CASE k > p
      <4>1. k - p \in 1 .. Len(b) /\ p + (k - p) = k
        BY <1>1, <2>1, <3>3
      <4> QED BY <1>3, <2>1, <2>2, <4>1
    <3> QED BY <1>1, <3>1, <3>2, <3>3
  <2>5. w \in Seq(Int) /\ v \in Seq(Int)
    BY <2>2
  <2>6. w = v
    BY <2>3, <2>4, <2>5, SameSeq
  <2> QED BY <2>6 DEF w
<1>7. SumOf(v) = SumOf(c) + SumOf(b)
  BY <1>3, <1>4, <1>6, SumConcat
<1>8. SumOf(a \o b) = SumOf(a) + SumOf(b) /\ a \o b \in Seq(Int)
  BY <1>2, <1>3, SumConcat
<1>9. SumOf(a) \in Int /\ SumOf(b) \in Int
  BY <1>2, <1>3, SumIsInt
<1>10. RemoveAt(v, p) = a \o b
  BY DEF RemoveAt, a, b
<1>11. SumOf(a) + SumOf(b) = SumOf(v) - v[p]
  BY <1>1, <1>5, <1>7, <1>9
<1> QED BY <1>8, <1>10, <1>11

\* Member by member.
LEMMA SumPlus ==
    ASSUME NEW u \in Seq(Int), NEW v \in Seq(Int), NEW w \in Seq(Int),
           Len(u) = Len(v), Len(u) = Len(w),
           \A i \in 1 .. Len(u) : u[i] = v[i] + w[i]
    PROVE  SumOf(u) = SumOf(v) + SumOf(w)
<1>0. ASSUME NEW s \in Seq(Int) PROVE Len(s) \in Nat /\ \A i \in 1 .. Len(s) : s[i] \in Int
  OBVIOUS
<1>1. PICK f \in [0 .. Len(u) -> Int] : /\ f[0] = 0
                                        /\ \A i \in 1 .. Len(u) : f[i] = f[i - 1] + u[i]
                                        /\ SumOf(u) = f[Len(u)]
  BY SumSteps
<1>2. PICK g \in [0 .. Len(v) -> Int] : /\ g[0] = 0
                                        /\ \A i \in 1 .. Len(v) : g[i] = g[i - 1] + v[i]
                                        /\ SumOf(v) = g[Len(v)]
  BY SumSteps
<1>3. PICK h \in [0 .. Len(w) -> Int] : /\ h[0] = 0
                                        /\ \A i \in 1 .. Len(w) : h[i] = h[i - 1] + w[i]
                                        /\ SumOf(w) = h[Len(w)]
  BY SumSteps
<1>4. Len(u) \in Nat /\ \A i \in 1 .. Len(u) : u[i] \in Int /\ v[i] \in Int /\ w[i] \in Int
  BY <1>0
<1> DEFINE T == {n \in 0 .. Len(u) : f[n] # g[n] + h[n]}
<1>5. 0 \notin T
  BY <1>1, <1>2, <1>3
<1>6. ASSUME NEW x \in 1 .. Len(u), x - 1 \notin T PROVE x \notin T
  <2>1. x - 1 \in 0 .. Len(u)
    BY <1>4
  <2>2. f[x - 1] = g[x - 1] + h[x - 1]
    BY <1>6, <2>1
  <2>3. /\ f[x] = f[x - 1] + u[x] /\ g[x] = g[x - 1] + v[x] /\ h[x] = h[x - 1] + w[x]
        /\ u[x] = v[x] + w[x]
    BY <1>1, <1>2, <1>3
  <2>4. g[x - 1] \in Int /\ h[x - 1] \in Int /\ v[x] \in Int /\ w[x] \in Int
    BY <1>4, <2>1
  <2>5. \A p, q, y, z \in Int : (p + q) + (y + z) = (p + y) + (q + z)
    OBVIOUS
  <2>6. f[x] = g[x] + h[x]
    <3>1. f[x] = (g[x - 1] + h[x - 1]) + (v[x] + w[x])
      BY <2>2, <2>3
    <3>2. g[x] + h[x] = (g[x - 1] + v[x]) + (h[x - 1] + w[x])
      BY <2>3
    <3>3. (g[x - 1] + h[x - 1]) + (v[x] + w[x]) = (g[x - 1] + v[x]) + (h[x - 1] + w[x])
      BY <2>4, <2>5
    <3> QED BY <3>1, <3>2, <3>3
  <2> QED BY <2>6
<1>7. T = {}
  <2> HIDE DEF T
  <2>1. T \in SUBSET (0 .. Len(u))
    BY DEF T
  <2> QED BY <1>4, <1>5, <1>6, <2>1, NoneFails
<1>8. f[Len(u)] = g[Len(u)] + h[Len(u)]
  <2>1. Len(u) \in 0 .. Len(u)
    BY <1>4
  <2> QED BY <1>7, <2>1
<1> QED BY <1>1, <1>2, <1>3, <1>8

\* Parts of a vector: a vector as long, empty, whole, larger by one member.
LEMMA PartIsSeq ==
    ASSUME NEW v \in Seq(Int), NEW K
    PROVE  /\ Part(v, K) \in Seq(Int) /\ Len(Part(v, K)) = Len(v)
           /\ \A i \in 1 .. Len(v) : Part(v, K)[i] = IF i \in K THEN v[i] ELSE 0
<1>1. Part(v, K) \in [1 .. Len(v) -> Int] /\ Len(v) \in Nat
  BY DEF Part
<1> QED BY <1>1 DEF Part

LEMMA PartNone ==
    ASSUME NEW v \in Seq(Int), NEW K, \A i \in 1 .. Len(v) : i \notin K \/ v[i] = 0
    PROVE  SumOf(Part(v, K)) = 0
<1>1. \A i \in 1 .. Len(v) : Part(v, K)[i] = 0
  BY PartIsSeq
<1> QED BY <1>1, PartIsSeq, SumOfZeros

LEMMA PartAll ==
    ASSUME NEW v \in Seq(Int), NEW K, \A i \in 1 .. Len(v) : i \in K
    PROVE  Part(v, K) = v
  BY DEF Part

LEMMA PartGrows ==
    ASSUME NEW v \in Seq(Int), NEW K, NEW p \in 1 .. Len(v), p \notin K
    PROVE  SumOf(Part(v, K \cup {p})) = SumOf(Part(v, K)) + v[p]
<1> DEFINE a == Part(v, K)
           b == Part(v, K \cup {p})
<1>1. /\ a \in Seq(Int) /\ b \in Seq(Int) /\ Len(a) = Len(v) /\ Len(b) = Len(v)
      /\ a[p] = 0 /\ b[p] = v[p]
      /\ \A i \in 1 .. Len(v) : i # p => b[i] = a[i]
  <2>1. /\ a \in Seq(Int) /\ Len(a) = Len(v)
        /\ \A i \in 1 .. Len(v) : a[i] = IF i \in K THEN v[i] ELSE 0
    BY PartIsSeq
  <2>2. /\ b \in Seq(Int) /\ Len(b) = Len(v)
        /\ \A i \in 1 .. Len(v) : b[i] = IF i \in K \cup {p} THEN v[i] ELSE 0
    BY PartIsSeq
  <2> HIDE DEF a, b
  <2> QED BY <2>1, <2>2
<1> HIDE DEF a, b
<1>2. v[p] \in Int /\ SumOf(a) \in Int
  BY <1>1, SumIsInt
<1>3. SumOf(b) = SumOf(a) + (b[p] - a[p])
  BY <1>1, SumChanged
<1> QED BY <1>1, <1>2, <1>3 DEF a, b

\* Two parts that do not overlap.
LEMMA PartUnion ==
    ASSUME NEW v \in Seq(Int), NEW K, NEW L, K \cap L = {}
    PROVE  SumOf(Part(v, K \cup L)) = SumOf(Part(v, K)) + SumOf(Part(v, L))
<1> DEFINE a == Part(v, K)
           b == Part(v, L)
           c == Part(v, K \cup L)
<1>1. /\ a \in Seq(Int) /\ Len(a) = Len(v)
      /\ \A i \in 1 .. Len(v) : a[i] = IF i \in K THEN v[i] ELSE 0
  BY PartIsSeq
<1>2. /\ b \in Seq(Int) /\ Len(b) = Len(v)
      /\ \A i \in 1 .. Len(v) : b[i] = IF i \in L THEN v[i] ELSE 0
  BY PartIsSeq
<1>3. /\ c \in Seq(Int) /\ Len(c) = Len(v)
      /\ \A i \in 1 .. Len(v) : c[i] = IF i \in K \cup L THEN v[i] ELSE 0
  BY PartIsSeq
<1> HIDE DEF a, b, c
<1>4. ASSUME NEW i \in 1 .. Len(v) PROVE c[i] = a[i] + b[i]
  <2>1. v[i] \in Int
    OBVIOUS
  <2>2. CASE i \in K
    <3>1. i \notin L /\ i \in K \cup L
      BY <2>2
    <3> QED BY <1>1, <1>2, <1>3, <2>1, <2>2, <3>1
  <2>3. CASE i \in L
    <3>1. i \notin K /\ i \in K \cup L
      BY <2>3
    <3> QED BY <1>1, <1>2, <1>3, <2>1, <2>3, <3>1
  <2>4. CASE i \notin K \cup L
    BY <1>1, <1>2, <1>3, <2>4
  <2> QED BY <2>2, <2>3, <2>4
<1>5. SumOf(c) = SumOf(a) + SumOf(b)
  BY <1>1, <1>2, <1>3, <1>4, SumPlus
<1> QED BY <1>5 DEF a, b, c

-----------------------------------------------------------------------------
(* Decimal strings.                                                          *)

\* What a digit is and is not.
LEMMA DigitChar ==
    /\ \A d \in 0 .. 9 : Digits[d + 1] \in DigitChars /\ DigitOf(Digits[d + 1]) = d
    /\ \A c \in DigitChars : DigitOf(c) \in 0 .. 9 /\ c # "." /\ c \notin {"-", "+"}
    /\ "0" \in DigitChars /\ DigitOf("0") = 0
<1>1. \A d, e \in 0 .. 9 : Digits[d + 1] = Digits[e + 1] => d = e
  BY DEF Digits
<1>2. DOMAIN Digits = 1 .. 10 /\ \A d \in 0 .. 9 : Digits[d + 1] # "." /\ Digits[d + 1] \notin {"-", "+"}
  BY DEF Digits
<1>3. Digits[0 + 1] = "0"
  BY DEF Digits
<1>7. DigitChars = {Digits[k] : k \in 1 .. 10}
  BY DEF Digits, DigitChars
<1> HIDE DEF Digits
<1>4. ASSUME NEW d \in 0 .. 9
      PROVE  Digits[d + 1] \in DigitChars /\ DigitOf(Digits[d + 1]) = d
  BY <1>1, <1>2, <1>7 DEF DigitOf
<1>5. ASSUME NEW c \in DigitChars PROVE \E d \in 0 .. 9 : c = Digits[d + 1]
  <2>1. PICK k \in 1 .. 10 : c = Digits[k]
    BY <1>7
  <2>2. k - 1 \in 0 .. 9 /\ (k - 1) + 1 = k
    OBVIOUS
  <2> QED BY <2>1, <2>2
<1>6. 0 \in 0 .. 9
  OBVIOUS
<1> QED BY <1>2, <1>3, <1>4, <1>5, <1>6, <1>7

\* The number of a string exists: the function that Number defines has its
\* equation.
LEMMA NumberSteps ==
    ASSUME NEW s \in Seq(DigitChars)
    PROVE  \E g \in [0 .. Len(s) -> Nat] :
              /\ g[0] = 0
              /\ \A k \in 1 .. Len(s) : g[k] = 10 * g[k - 1] + DigitOf(s[k])
              /\ Number(s) = g[Len(s)]
<1> DEFINE IsRead(g, n) == g = [k \in 0 .. n |-> IF k = 0 THEN 0 ELSE 10 * g[k - 1] + DigitOf(s[k])]
           T == {n \in 0 .. Len(s) : ~ \E g : IsRead(g, n)}
<1>0. Len(s) \in Nat /\ \A k \in 1 .. Len(s) : DigitOf(s[k]) \in Nat
  <2>1. Len(s) \in Nat /\ \A k \in 1 .. Len(s) : s[k] \in DigitChars
    OBVIOUS
  <2>2. \A c \in DigitChars : DigitOf(c) \in Nat
    BY DigitChar
  <2> QED BY <2>1, <2>2
<1>1. T = {}
  <2>1. 0 \notin T
    <3> DEFINE g == [k \in 0 .. 0 |-> 0]
    <3>1. g = [k \in 0 .. 0 |-> IF k = 0 THEN 0 ELSE 10 * g[k - 1] + DigitOf(s[k])]
      OBVIOUS
    <3> QED BY <3>1
  <2>2. ASSUME NEW x \in 1 .. Len(s), x - 1 \notin T PROVE x \notin T
    <3>1. x \in Nat /\ x # 0 /\ x - 1 \in 0 .. Len(s)
      BY <1>0
    <3>2. PICK g : IsRead(g, x - 1)
      BY <2>2, <3>1
    <3> DEFINE h == [k \in 0 .. x |-> IF k = x THEN 10 * g[x - 1] + DigitOf(s[x]) ELSE g[k]]
    <3>3. \A k \in 0 .. x - 1 : g[k] = IF k = 0 THEN 0 ELSE 10 * g[k - 1] + DigitOf(s[k])
      BY <3>2
    <3>4. ASSUME NEW k \in 0 .. x PROVE h[k] = IF k = 0 THEN 0 ELSE 10 * h[k - 1] + DigitOf(s[k])
      <4>1. CASE k = x
        BY <3>1, <4>1
      <4>2. CASE k # x
        <5>1. k \in 0 .. x - 1 /\ (k # 0 => k - 1 \in 0 .. x /\ k - 1 # x)
          BY <3>1, <4>2
        <5> QED BY <3>3, <4>2, <5>1
      <4> QED BY <4>1, <4>2
    <3>5. h = [k \in 0 .. x |-> IF k = 0 THEN 0 ELSE 10 * h[k - 1] + DigitOf(s[k])]
      <4>1. h = [k \in 0 .. x |-> h[k]]
        OBVIOUS
      <4> HIDE DEF h
      <4> QED BY <3>4, <4>1
    <3>6. IsRead(h, x)
      BY <3>5
    <3> QED BY <3>6
  <2> HIDE DEF T
  <2>3. T \in SUBSET (0 .. Len(s))
    BY DEF T
  <2> QED BY <1>0, <2>1, <2>2, <2>3, NoneFails
<1>2. \E g : IsRead(g, Len(s))
  BY <1>0, <1>1
<1> DEFINE f == CHOOSE g : IsRead(g, Len(s))
<1>3. f = [k \in 0 .. Len(s) |-> IF k = 0 THEN 0 ELSE 10 * f[k - 1] + DigitOf(s[k])]
  BY <1>2
<1>4. Number(s) = f[Len(s)]
  BY DEF Number
<1> HIDE DEF f
<1>5. f[0] = 0 /\ \A k \in 1 .. Len(s) : f[k] = 10 * f[k - 1] + DigitOf(s[k])
  BY <1>0, <1>3
<1>6. \A n \in 0 .. Len(s) : f[n] \in Nat
  <2> DEFINE U == {n \in 0 .. Len(s) : f[n] \notin Nat}
  <2>1. 0 \notin U
    BY <1>5
  <2>2. ASSUME NEW x \in 1 .. Len(s), x - 1 \notin U PROVE x \notin U
    <3>1. f[x - 1] \in Nat
      BY <2>2
    <3> QED BY <1>0, <1>5, <3>1
  <2> HIDE DEF U
  <2>3. U = {}
    <3>1. U \in SUBSET (0 .. Len(s))
      BY DEF U
    <3> QED BY <1>0, <2>1, <2>2, <3>1, NoneFails
  <2> QED BY <2>3 DEF U
<1>7. f \in [0 .. Len(s) -> Nat]
  BY <1>3, <1>6
<1> QED BY <1>4, <1>5, <1>7

\* The digits of a number exist.
LEMMA UnsignedSteps ==
    ASSUME NEW n \in Nat
    PROVE  \E g : /\ \A k \in 0 .. n : g[k] = IF k < 10 THEN <<Digits[k + 1]>>
                                              ELSE Append(g[k \div 10], Digits[(k % 10) + 1])
                  /\ Unsigned(n) = g[n]
<1> DEFINE IsWritten(g, m) == g = [k \in 0 .. m |-> IF k < 10 THEN <<Digits[k + 1]>>
                                                    ELSE Append(g[k \div 10], Digits[(k % 10) + 1])]
           T == {m \in 0 .. n : ~ \E g : IsWritten(g, m)}
<1>1. T = {}
  <2> HIDE DEF Digits
  <2>1. 0 \notin T
    <3> DEFINE g == [k \in 0 .. 0 |-> <<Digits[k + 1]>>]
    <3>1. g = [k \in 0 .. 0 |-> IF k < 10 THEN <<Digits[k + 1]>>
                                ELSE Append(g[k \div 10], Digits[(k % 10) + 1])]
      <4>1. \A k \in 0 .. 0 : k < 10
        OBVIOUS
      <4> QED BY <4>1
    <3> QED BY <3>1
  <2>2. ASSUME NEW x \in 1 .. n, x - 1 \notin T PROVE x \notin T
    <3>1. x \in Nat /\ x # 0 /\ x - 1 \in 0 .. n
      OBVIOUS
    <3>2. PICK g : IsWritten(g, x - 1)
      BY <2>2, <3>1
    <3> DEFINE new == IF x < 10 THEN <<Digits[x + 1]>> ELSE Append(g[x \div 10], Digits[(x % 10) + 1])
               h == [k \in 0 .. x |-> IF k = x THEN new ELSE g[k]]
    <3>3. \A k \in 0 .. x - 1 : g[k] = IF k < 10 THEN <<Digits[k + 1]>>
                                       ELSE Append(g[k \div 10], Digits[(k % 10) + 1])
      BY <3>2
    <3>4. ASSUME NEW k \in 0 .. x
          PROVE  h[k] = IF k < 10 THEN <<Digits[k + 1]>>
                        ELSE Append(h[k \div 10], Digits[(k % 10) + 1])
      <4>1. ~(k < 10) => k \div 10 \in 0 .. x - 1 /\ k \div 10 # x /\ k \div 10 \in 0 .. x
        <5>1. ~(k < 10) => k \div 10 < k /\ k \div 10 >= 0 /\ k \div 10 \in Int
          OBVIOUS
        <5> QED BY <5>1
      <4>2. CASE k = x
        <5>1. h[k] = new
          BY <4>2
        <5>2. ~(k < 10) => h[k \div 10] = g[k \div 10]
          BY <4>1
        <5> HIDE DEF h
        <5> QED BY <4>2, <5>1, <5>2
      <4>3. CASE k # x
        <5>1. k \in 0 .. x - 1
          BY <3>1, <4>3
        <5>2. h[k] = g[k]
          BY <4>3
        <5>3. ~(k < 10) => h[k \div 10] = g[k \div 10]
          BY <4>1
        <5> HIDE DEF h, new
        <5> QED BY <3>3, <5>1, <5>2, <5>3
      <4> QED BY <4>2, <4>3
    <3>5. h = [k \in 0 .. x |-> IF k < 10 THEN <<Digits[k + 1]>>
                                ELSE Append(h[k \div 10], Digits[(k % 10) + 1])]
      <4>1. h = [k \in 0 .. x |-> h[k]]
        OBVIOUS
      <4> HIDE DEF h
      <4> QED BY <3>4, <4>1
    <3>6. IsWritten(h, x)
      BY <3>5
    <3> QED BY <3>6
  <2> HIDE DEF T
  <2>3. T \in SUBSET (0 .. n)
    BY DEF T
  <2> QED BY <2>1, <2>2, <2>3, NoneFails
<1>2. \E g : IsWritten(g, n)
  <2>1. n \in 0 .. n
    OBVIOUS
  <2> HIDE DEF IsWritten
  <2> QED BY <1>1, <2>1
<1> DEFINE f == CHOOSE g : IsWritten(g, n)
<1>3. f = [k \in 0 .. n |-> IF k < 10 THEN <<Digits[k + 1]>>
                            ELSE Append(f[k \div 10], Digits[(k % 10) + 1])]
  BY <1>2
<1>4. Unsigned(n) = f[n]
  BY DEF Unsigned
<1> HIDE DEF f, Digits
<1>5. \A k \in 0 .. n : f[k] = IF k < 10 THEN <<Digits[k + 1]>>
                               ELSE Append(f[k \div 10], Digits[(k % 10) + 1])
  BY <1>3
<1> QED BY <1>4, <1>5

\* One more digit.
LEMMA NumberAppend ==
    ASSUME NEW s \in Seq(DigitChars), NEW c \in DigitChars
    PROVE  Number(Append(s, c)) = 10 * Number(s) + DigitOf(c)
<1> DEFINE t == Append(s, c)
<1>1. /\ t \in Seq(DigitChars) /\ Len(t) = Len(s) + 1 /\ Len(s) \in Nat
      /\ \A k \in 1 .. Len(s) : t[k] = s[k]
      /\ t[Len(s) + 1] = c
  OBVIOUS
<1> HIDE DEF t
<1>2. PICK g \in [0 .. Len(s) -> Nat] : /\ g[0] = 0
                                        /\ \A k \in 1 .. Len(s) : g[k] = 10 * g[k - 1] + DigitOf(s[k])
                                        /\ Number(s) = g[Len(s)]
  BY NumberSteps
<1>3. PICK h \in [0 .. Len(t) -> Nat] : /\ h[0] = 0
                                        /\ \A k \in 1 .. Len(t) : h[k] = 10 * h[k - 1] + DigitOf(t[k])
                                        /\ Number(t) = h[Len(t)]
  BY <1>1, NumberSteps
<1> DEFINE T == {k \in 0 .. Len(s) : g[k] # h[k]}
<1>4. 0 \notin T
  BY <1>2, <1>3
<1>5. ASSUME NEW y \in 1 .. Len(s), y - 1 \notin T PROVE y \notin T
  <2>1. y - 1 \in 0 .. Len(s) /\ y \in 1 .. Len(t)
    BY <1>1
  <2>2. g[y - 1] = h[y - 1]
    BY <1>5, <2>1
  <2>3. g[y] = 10 * g[y - 1] + DigitOf(s[y]) /\ h[y] = 10 * h[y - 1] + DigitOf(t[y]) /\ t[y] = s[y]
    BY <1>1, <1>2, <1>3, <2>1
  <2> QED BY <2>2, <2>3
<1>6. T = {}
  <2> HIDE DEF T
  <2>1. T \in SUBSET (0 .. Len(s))
    BY DEF T
  <2> QED BY <1>1, <1>4, <1>5, <2>1, NoneFails
<1>7. g[Len(s)] = h[Len(s)]
  BY <1>1, <1>6
<1>8. Len(s) + 1 \in 1 .. Len(t) /\ Len(s) + 1 - 1 = Len(s)
  BY <1>1
<1>9. h[Len(s) + 1] = 10 * h[Len(s)] + DigitOf(c)
  <2>1. h[Len(s) + 1] = 10 * h[Len(s) + 1 - 1] + DigitOf(t[Len(s) + 1])
    BY <1>3, <1>8
  <2> QED BY <1>1, <1>8, <2>1
<1>10. Number(t) = 10 * Number(s) + DigitOf(c)
  BY <1>1, <1>2, <1>3, <1>7, <1>9
<1> QED BY <1>10 DEF t

LEMMA NumberIsNat ==
    ASSUME NEW s \in Seq(DigitChars)
    PROVE  Number(s) \in Nat
<1>1. PICK g \in [0 .. Len(s) -> Nat] : Number(s) = g[Len(s)]
  BY NumberSteps
<1>2. Len(s) \in 0 .. Len(s)
  <2>1. Len(s) \in Nat
    OBVIOUS
  <2> QED BY <2>1
<1> QED BY <1>1, <1>2

LEMMA NumberEmpty == Number(<<>>) = 0
<1>1. <<>> \in Seq(DigitChars) /\ Len(<<>>) = 0
  OBVIOUS
<1>2. PICK g \in [0 .. Len(<<>>) -> Nat] : g[0] = 0 /\ Number(<<>>) = g[Len(<<>>)]
  BY <1>1, NumberSteps
<1> QED BY <1>1, <1>2

\* Zeros in front change nothing.
LEMMA NumberPadded ==
    ASSUME NEW s \in Seq(DigitChars), NEW t \in Seq(DigitChars), NEW m \in Nat,
           Len(t) = m + Len(s),
           \A k \in 1 .. m : t[k] = "0",
           \A k \in 1 .. Len(s) : t[m + k] = s[k]
    PROVE  Number(t) = Number(s)
<1>1. PICK g \in [0 .. Len(s) -> Nat] : /\ g[0] = 0
                                        /\ \A k \in 1 .. Len(s) : g[k] = 10 * g[k - 1] + DigitOf(s[k])
                                        /\ Number(s) = g[Len(s)]
  BY NumberSteps
<1>2. PICK h \in [0 .. Len(t) -> Nat] : /\ h[0] = 0
                                        /\ \A k \in 1 .. Len(t) : h[k] = 10 * h[k - 1] + DigitOf(t[k])
                                        /\ Number(t) = h[Len(t)]
  BY NumberSteps
<1>3. Len(s) \in Nat /\ Len(t) \in Nat
  OBVIOUS
<1>4. \A k \in 0 .. m : h[k] = 0
  <2> DEFINE T == {k \in 0 .. m : h[k] # 0}
  <2>1. 0 \notin T
    BY <1>2
  <2>2. ASSUME NEW x \in 1 .. m, x - 1 \notin T PROVE x \notin T
    <3>1. x - 1 \in 0 .. m /\ x \in 1 .. Len(t)
      BY <1>3
    <3>2. h[x - 1] = 0
      BY <2>2, <3>1
    <3>3. h[x] = 10 * h[x - 1] + DigitOf("0")
      BY <1>2, <3>1
    <3> QED BY <3>2, <3>3, DigitChar
  <2> HIDE DEF T
  <2>3. T = {}
    <3>1. T \in SUBSET (0 .. m)
      BY DEF T
    <3> QED BY <2>1, <2>2, <3>1, NoneFails
  <2> QED BY <2>3 DEF T
<1>5. \A k \in 0 .. Len(s) : h[m + k] = g[k]
  <2> DEFINE T == {k \in 0 .. Len(s) : h[m + k] # g[k]}
  <2>1. 0 \notin T
    <3>1. m + 0 = m /\ m \in 0 .. m
      OBVIOUS
    <3>2. h[m + 0] = 0
      BY <1>4, <3>1
    <3> QED BY <1>1, <3>2
  <2>2. ASSUME NEW x \in 1 .. Len(s), x - 1 \notin T PROVE x \notin T
    <3>1. x - 1 \in 0 .. Len(s) /\ m + x \in 1 .. Len(t) /\ (m + x) - 1 = m + (x - 1)
      BY <1>3
    <3>2. h[m + (x - 1)] = g[x - 1]
      BY <2>2, <3>1
    <3>3. g[x] = 10 * g[x - 1] + DigitOf(s[x])
      BY <1>1
    <3>4. h[m + x] = 10 * h[(m + x) - 1] + DigitOf(t[m + x])
      BY <1>2, <3>1
    <3>5. h[m + x] = 10 * h[m + (x - 1)] + DigitOf(s[x])
      BY <3>1, <3>4
    <3>6. h[m + x] = g[x]
      BY <3>2, <3>3, <3>5
    <3> QED BY <3>6
  <2> HIDE DEF T
  <2>3. T = {}
    <3>1. T \in SUBSET (0 .. Len(s))
      BY DEF T
    <3> QED BY <1>3, <2>1, <2>2, <3>1, NoneFails
  <2> QED BY <2>3 DEF T
<1>6. Len(s) \in 0 .. Len(s)
  BY <1>3
<1> QED BY <1>1, <1>2, <1>5, <1>6

\* The string of a natural number is its decimal digits.
LEMMA UnsignedFact ==
    ASSUME NEW n \in Nat
    PROVE  /\ Unsigned(n) \in Seq(DigitChars) /\ Len(Unsigned(n)) >= 1
           /\ Number(Unsigned(n)) = n
<1>1. PICK g : /\ \A k \in 0 .. n : g[k] = IF k < 10 THEN <<Digits[k + 1]>>
                                           ELSE Append(g[k \div 10], Digits[(k % 10) + 1])
               /\ Unsigned(n) = g[n]
  BY UnsignedSteps
<1> DEFINE OK(k) == g[k] \in Seq(DigitChars) /\ Len(g[k]) >= 1 /\ Number(g[k]) = k
           T == {k \in 0 .. n : ~OK(k)}
<1>2. T = {}
  <2> SUFFICES ASSUME T # {} PROVE FALSE
    OBVIOUS
  <2>1. PICK x \in T : \A y \in T : x <= y
    <3>1. T \in SUBSET Nat
      OBVIOUS
    <3> QED BY <3>1, LeastElement
  <2>2. x \in 0 .. n /\ x \in Nat
    OBVIOUS
  <2>3. CASE x < 10
    <3>1. x \in 0 .. 9 /\ g[x] = <<Digits[x + 1]>>
      <4>1. x \in 0 .. 9
        BY <2>2, <2>3
      <4>2. g[x] = IF x < 10 THEN <<Digits[x + 1]>> ELSE Append(g[x \div 10], Digits[(x % 10) + 1])
        BY <1>1, <2>2
      <4>3. g[x] = <<Digits[x + 1]>>
        BY <2>3, <4>2, Zenon
      <4> QED BY <4>1, <4>3
    <3>2. Digits[x + 1] \in DigitChars /\ DigitOf(Digits[x + 1]) = x
      BY <3>1, DigitChar
    <3> DEFINE c == Digits[x + 1]
    <3> HIDE DEF c
    <3>3. <<>> \in Seq(DigitChars) /\ Append(<<>>, c) = <<c>>
      OBVIOUS
    <3>4. c \in DigitChars /\ DigitOf(c) = x
      BY <3>2 DEF c
    <3>5. Number(<<c>>) = 10 * 0 + x
      BY <3>3, <3>4, NumberAppend, NumberEmpty
    <3>6. <<c>> \in Seq(DigitChars) /\ Len(<<c>>) = 1
      BY <3>4
    <3>7. g[x] = <<c>>
      BY <3>1 DEF c
    <3>8. OK(x)
      BY <2>2, <3>5, <3>6, <3>7
    <3> QED BY <3>8
  <2>4. CASE ~(x < 10)
    <3> DEFINE q == x \div 10
               r == x % 10
               c == Digits[r + 1]
    <3>1. q \in Nat /\ q < x /\ r \in 0 .. 9 /\ x = 10 * q + r
      BY <2>2, <2>4
    <3>2. g[x] = Append(g[q], c)
      BY <1>1, <2>2, <2>4
    <3>3. c \in DigitChars /\ DigitOf(c) = r
      BY <3>1, DigitChar
    <3> HIDE DEF q, r, c
    <3>4. OK(q)
      <4>1. q \in 0 .. n /\ ~(x <= q)
        BY <2>2, <3>1
      <4> QED BY <2>1, <4>1
    <3>5. Number(Append(g[q], c)) = 10 * q + r
      BY <3>3, <3>4, NumberAppend
    <3>6. Append(g[q], c) \in Seq(DigitChars) /\ Len(Append(g[q], c)) >= 1
      BY <3>3, <3>4
    <3>7. OK(x)
      BY <3>1, <3>2, <3>5, <3>6
    <3> QED BY <3>7
  <2> QED BY <2>3, <2>4
<1>3. n \in 0 .. n
  OBVIOUS
<1> QED BY <1>1, <1>2, <1>3

\* The place of the only dot, and a string without it.
LEMMA DotAt ==
    ASSUME NEW s, Len(s) \in Nat, NEW k \in 1 .. Len(s), s[k] = ".",
           \A j \in 1 .. k - 1 : s[j] # "."
    PROVE  Dot(s) = k - 1
<1> DEFINE I == {j \in 1 .. Len(s) : s[j] = "."}
<1>1. k \in I /\ \A j \in I : k <= j
  <2>1. ASSUME NEW j \in I, j < k PROVE FALSE
    BY <2>1
  <2> QED BY <2>1
<1>2. Min(I) = k
  <2> HIDE DEF I
  <2>1. \A x \in I : x \in Int
    BY DEF I
  <2>2. \A x \in I : (\A y \in I : x =< y) => x = k
    BY <1>1, <2>1
  <2> QED BY <1>1, <2>2 DEF Min
<1>3. SelectInSeq(s, LAMBDA c : c = ".") = k
  BY <1>1, <1>2 DEF SelectInSeq
<1> QED BY <1>3 DEF Dot

LEMMA NoDot ==
    ASSUME NEW s, \A j \in 1 .. Len(s) : s[j] # "."
    PROVE  Dot(s) = -1
<1>1. SelectInSeq(s, LAMBDA c : c = ".") = 0
  BY DEF SelectInSeq
<1> QED BY <1>1 DEF Dot

\* A string of digits.
LEMMA DigitString ==
    ASSUME NEW s \in Seq(DigitChars)
    PROVE  /\ Dot(s) = -1 /\ Undotted(s) = s
           /\ Len(s) >= 1 => IsDigits(s) /\ s[1] \notin {"-", "+"}
<1>1. Len(s) \in Nat /\ \A k \in 1 .. Len(s) : s[k] \in DigitChars
  OBVIOUS
<1>2. \A k \in 1 .. Len(s) : s[k] # "." /\ s[k] \notin {"-", "+"}
  BY <1>1, DigitChar
<1>3. Dot(s) = -1
  BY <1>2, NoDot
<1>4. Undotted(s) = s
  <2>1. Undotted(s) = SubSeq(s, 1, -1) \o SubSeq(s, 1, Len(s))
    BY <1>3 DEF Undotted
  <2>2. SubSeq(s, 1, -1) = <<>> /\ SubSeq(s, 1, Len(s)) = s
    BY <1>1
  <2>3. <<>> \o s = s
    OBVIOUS
  <2> QED BY <2>1, <2>2, <2>3
<1>5. ASSUME Len(s) >= 1 PROVE IsDigits(s) /\ s[1] \notin {"-", "+"}
  <2>1. s # <<>> /\ 1 \in 1 .. Len(s)
    BY <1>1, <1>5
  <2> QED BY <1>1, <1>2, <2>1 DEF IsDigits, DigitChars
<1> QED BY <1>3, <1>4, <1>5

\* Characters, a dot, and more characters.
LEMMA DottedString ==
    ASSUME NEW T, "." \notin T, NEW u \in Seq(T), NEW v \in Seq(T)
    PROVE  LET s == u \o <<".">> \o v
           IN  /\ Dot(s) = Len(u) /\ Fraction(s) = Len(v)
               /\ Undotted(s) = u \o v
               /\ Len(s) = Len(u) + 1 + Len(v)
<1> DEFINE s == u \o <<".">> \o v
<1>1. /\ Len(u) \in Nat /\ Len(v) \in Nat
      /\ \A k \in 1 .. Len(u) : u[k] \in T
      /\ \A k \in 1 .. Len(v) : v[k] \in T
  OBVIOUS
<1>2. /\ Len(s) = Len(u) + 1 + Len(v)
      /\ \A k \in 1 .. Len(u) : s[k] = u[k]
      /\ s[Len(u) + 1] = "."
      /\ \A k \in 1 .. Len(v) : s[Len(u) + 1 + k] = v[k]
      /\ s \in Seq(T \cup {"."})
  <2> DEFINE S == T \cup {"."}
  <2>1. u \in Seq(S) /\ v \in Seq(S) /\ <<".">> \in Seq(S)
    OBVIOUS
  <2> HIDE DEF S
  <2>2. /\ u \o <<".">> \in Seq(S) /\ Len(u \o <<".">>) = Len(u) + 1
        /\ \A k \in 1 .. Len(u) : (u \o <<".">>)[k] = u[k]
        /\ (u \o <<".">>)[Len(u) + 1] = "."
    BY <1>1, <2>1
  <2> DEFINE w == u \o <<".">>
  <2> HIDE DEF w
  <2>3. /\ w \in Seq(S) /\ Len(w) = Len(u) + 1
        /\ \A k \in 1 .. Len(u) : w[k] = u[k]
        /\ w[Len(u) + 1] = "."
    BY <2>2 DEF w
  <2>4. /\ w \o v \in Seq(S) /\ Len(w \o v) = Len(u) + 1 + Len(v)
        /\ \A k \in 1 .. Len(u) + 1 : (w \o v)[k] = w[k]
        /\ \A k \in 1 .. Len(v) : (w \o v)[Len(u) + 1 + k] = v[k]
    <3>1. w \in Seq(S) /\ v \in Seq(S)
      BY <2>1, <2>3
    <3>2. /\ w \o v \in Seq(S) /\ Len(w \o v) = Len(w) + Len(v)
          /\ \A k \in 1 .. Len(w) : (w \o v)[k] = w[k]
          /\ \A k \in 1 .. Len(v) : (w \o v)[Len(w) + k] = v[k]
      BY <3>1
    <3>3. Len(w) = Len(u) + 1
      BY <2>3
    <3> QED BY <3>2, <3>3
  <2>5. s = w \o v
    BY DEF w
  <2> HIDE DEF s
  <2>6. s \in Seq(S) /\ Len(s) = Len(u) + 1 + Len(v)
    BY <2>4, <2>5
  <2>7. /\ \A k \in 1 .. Len(u) : s[k] = u[k]
        /\ s[Len(u) + 1] = "."
        /\ \A k \in 1 .. Len(v) : s[Len(u) + 1 + k] = v[k]
    BY <1>1, <2>3, <2>4, <2>5
  <2> QED BY <2>6, <2>7 DEF S
<1> HIDE DEF s
<1>3. Dot(s) = Len(u)
  <2> DEFINE k == Len(u) + 1
  <2>1. k \in 1 .. Len(s) /\ s[k] = "." /\ Len(s) \in Nat
    BY <1>1, <1>2
  <2>2. \A j \in 1 .. k - 1 : s[j] # "."
    BY <1>1, <1>2
  <2> HIDE DEF k
  <2>3. Dot(s) = k - 1
    BY <2>1, <2>2, DotAt
  <2> QED BY <1>1, <2>3 DEF k
<1>4. Fraction(s) = Len(v)
  BY <1>1, <1>2, <1>3 DEF Fraction
<1>5. Undotted(s) = u \o v
  <2>1. Undotted(s) = SubSeq(s, 1, Len(u)) \o SubSeq(s, Len(u) + 2, Len(s))
    BY <1>3 DEF Undotted
  <2>2. SubSeq(s, 1, Len(u)) = u
    <3>1. /\ SubSeq(s, 1, Len(u)) \in Seq(T \cup {"."})
          /\ Len(SubSeq(s, 1, Len(u))) = Len(u)
          /\ \A k \in 1 .. Len(u) : SubSeq(s, 1, Len(u))[k] = u[k]
      BY <1>1, <1>2
    <3> QED BY <1>1, <3>1
  <2>3. SubSeq(s, Len(u) + 2, Len(s)) = v
    <3>1. /\ SubSeq(s, Len(u) + 2, Len(s)) \in Seq(T \cup {"."})
          /\ Len(SubSeq(s, Len(u) + 2, Len(s))) = Len(v)
          /\ \A k \in 1 .. Len(v) : SubSeq(s, Len(u) + 2, Len(s))[k] = s[Len(u) + 1 + k]
      BY <1>1, <1>2
    <3> DEFINE w == SubSeq(s, Len(u) + 2, Len(s))
    <3> HIDE DEF w
    <3>2. \A k \in 1 .. Len(v) : w[k] = v[k]
      BY <1>2, <3>1 DEF w
    <3>3. w \in Seq(T \cup {"."}) /\ Len(w) = Len(v)
      BY <3>1 DEF w
    <3>4. w = v
      BY <1>1, <3>2, <3>3
    <3> QED BY <3>4 DEF w
  <2> QED BY <2>1, <2>2, <2>3
<1> QED BY <1>2, <1>3, <1>4, <1>5 DEF s

LEMMA ZerosFact ==
    ASSUME NEW m \in Nat
    PROVE  /\ Zeros(m) \in Seq(DigitChars) /\ Len(Zeros(m)) = m
           /\ \A k \in 1 .. m : Zeros(m)[k] = "0"
  BY DigitChar DEF Zeros

\* Zeros in front of a string.
LEMMA NumberOfPadded ==
    ASSUME NEW s \in Seq(DigitChars), NEW m \in Nat
    PROVE  /\ Zeros(m) \o s \in Seq(DigitChars) /\ Len(Zeros(m) \o s) = m + Len(s)
           /\ Number(Zeros(m) \o s) = Number(s)
<1> DEFINE z == Zeros(m)
           t == z \o s
<1>1. z \in Seq(DigitChars) /\ Len(z) = m /\ \A k \in 1 .. m : z[k] = "0"
  BY ZerosFact
<1> HIDE DEF z
<1>2. /\ t \in Seq(DigitChars) /\ Len(t) = m + Len(s)
      /\ \A k \in 1 .. m : t[k] = "0"
      /\ \A k \in 1 .. Len(s) : t[m + k] = s[k]
  <2>1. Len(s) \in Nat
    OBVIOUS
  <2>2. t \in Seq(DigitChars) /\ Len(t) = m + Len(s)
    BY <1>1
  <2>3. \A k \in 1 .. m : t[k] = "0"
    BY <1>1, <2>1
  <2>4. \A k \in 1 .. Len(s) : t[m + k] = s[k]
    BY <1>1, <2>1
  <2> QED BY <2>2, <2>3, <2>4
<1> HIDE DEF t
<1>3. Number(t) = Number(s)
  BY <1>2, NumberPadded
<1> QED BY <1>2, <1>3 DEF t, z

\* Powers of ten exist.
LEMMA TenToSteps ==
    ASSUME NEW n \in Nat
    PROVE  \E g \in [0 .. n -> Nat] :
              /\ g[0] = 1
              /\ \A k \in 1 .. n : g[k] = 10 * g[k - 1]
              /\ TenTo(n) = g[n]
<1> DEFINE IsPower(g, m) == g = [k \in 0 .. m |-> IF k = 0 THEN 1 ELSE 10 * g[k - 1]]
           T == {m \in 0 .. n : ~ \E g : IsPower(g, m)}
<1>0. n \in 0 .. n
  OBVIOUS
<1>1. T = {}
  <2>1. 0 \notin T
    <3> DEFINE g == [k \in 0 .. 0 |-> 1]
    <3>1. g = [k \in 0 .. 0 |-> IF k = 0 THEN 1 ELSE 10 * g[k - 1]]
      OBVIOUS
    <3> QED BY <3>1
  <2>2. ASSUME NEW x \in 1 .. n, x - 1 \notin T PROVE x \notin T
    <3>1. x \in Nat /\ x # 0 /\ x - 1 \in 0 .. n
      OBVIOUS
    <3>2. PICK g : IsPower(g, x - 1)
      BY <2>2, <3>1
    <3> DEFINE h == [k \in 0 .. x |-> IF k = x THEN 10 * g[x - 1] ELSE g[k]]
    <3>3. \A k \in 0 .. x - 1 : g[k] = IF k = 0 THEN 1 ELSE 10 * g[k - 1]
      BY <3>2
    <3>4. ASSUME NEW k \in 0 .. x PROVE h[k] = IF k = 0 THEN 1 ELSE 10 * h[k - 1]
      <4>1. CASE k = x
        BY <3>1, <4>1
      <4>2. CASE k # x
        <5>1. k \in 0 .. x - 1 /\ (k # 0 => k - 1 \in 0 .. x /\ k - 1 # x)
          BY <3>1, <4>2
        <5> QED BY <3>3, <4>2, <5>1
      <4> QED BY <4>1, <4>2
    <3>5. h = [k \in 0 .. x |-> IF k = 0 THEN 1 ELSE 10 * h[k - 1]]
      <4>1. h = [k \in 0 .. x |-> h[k]]
        OBVIOUS
      <4> HIDE DEF h
      <4> QED BY <3>4, <4>1
    <3>6. IsPower(h, x)
      BY <3>5
    <3> QED BY <3>6
  <2> HIDE DEF T
  <2>3. T \in SUBSET (0 .. n)
    BY DEF T
  <2> QED BY <2>1, <2>2, <2>3, NoneFails
<1>2. \E g : IsPower(g, n)
  <2> HIDE DEF IsPower
  <2> QED BY <1>0, <1>1
<1> DEFINE f == CHOOSE g : IsPower(g, n)
<1>3. f = [k \in 0 .. n |-> IF k = 0 THEN 1 ELSE 10 * f[k - 1]]
  BY <1>2
<1>4. TenTo(n) = f[n]
  BY DEF TenTo
<1> HIDE DEF f
<1>5. f[0] = 1 /\ \A k \in 1 .. n : f[k] = 10 * f[k - 1]
  BY <1>3
<1>6. \A k \in 0 .. n : f[k] \in Nat
  <2> DEFINE U == {k \in 0 .. n : f[k] \notin Nat}
  <2>1. 0 \notin U
    BY <1>5
  <2>2. ASSUME NEW x \in 1 .. n, x - 1 \notin U PROVE x \notin U
    <3>1. f[x - 1] \in Nat
      BY <2>2
    <3> QED BY <1>5, <3>1
  <2> HIDE DEF U
  <2>3. U = {}
    <3>1. U \in SUBSET (0 .. n)
      BY DEF U
    <3> QED BY <2>1, <2>2, <3>1, NoneFails
  <2> QED BY <2>3 DEF U
<1>7. f \in [0 .. n -> Nat]
  BY <1>3, <1>6
<1> QED BY <1>4, <1>5, <1>7

\* Zeros behind a string multiply it.
LEMMA NumberExtended ==
    ASSUME NEW s \in Seq(DigitChars), NEW m \in Nat
    PROVE  /\ s \o Zeros(m) \in Seq(DigitChars) /\ Len(s \o Zeros(m)) = Len(s) + m
           /\ Number(s \o Zeros(m)) = Number(s) * TenTo(m)
<1> DEFINE z == Zeros(m)
           t == s \o z
<1>1. z \in Seq(DigitChars) /\ Len(z) = m /\ \A k \in 1 .. m : z[k] = "0"
  BY ZerosFact
<1> HIDE DEF z
<1>2. /\ t \in Seq(DigitChars) /\ Len(t) = Len(s) + m
      /\ \A k \in 1 .. Len(s) : t[k] = s[k]
      /\ \A k \in 1 .. m : t[Len(s) + k] = "0"
  <2>1. Len(s) \in Nat
    OBVIOUS
  <2>2. t \in Seq(DigitChars) /\ Len(t) = Len(s) + m
    BY <1>1
  <2>3. \A k \in 1 .. Len(s) : t[k] = s[k]
    BY <1>1, <2>1
  <2>4. \A k \in 1 .. m : t[Len(s) + k] = "0"
    BY <1>1, <2>1
  <2> QED BY <2>2, <2>3, <2>4
<1> HIDE DEF t
<1>3. PICK f \in [0 .. Len(s) -> Nat] : /\ f[0] = 0
                                        /\ \A k \in 1 .. Len(s) : f[k] = 10 * f[k - 1] + DigitOf(s[k])
                                        /\ Number(s) = f[Len(s)]
  BY NumberSteps
<1>4. PICK h \in [0 .. Len(t) -> Nat] : /\ h[0] = 0
                                        /\ \A k \in 1 .. Len(t) : h[k] = 10 * h[k - 1] + DigitOf(t[k])
                                        /\ Number(t) = h[Len(t)]
  BY <1>2, NumberSteps
<1>5. PICK g \in [0 .. m -> Nat] : /\ g[0] = 1
                                   /\ \A k \in 1 .. m : g[k] = 10 * g[k - 1]
                                   /\ TenTo(m) = g[m]
  BY TenToSteps
<1>6. Len(s) \in Nat /\ Len(s) \in 0 .. Len(s)
  <2>1. Len(s) \in Nat
    OBVIOUS
  <2> QED BY <2>1
<1> DEFINE l == Len(s)
           x == Number(s)
<1>7. x \in Nat
  BY NumberIsNat
<1> HIDE DEF x
<1>8. h[l] = x
  <2> DEFINE T == {k \in 0 .. Len(s) : f[k] # h[k]}
  <2>1. 0 \notin T
    BY <1>3, <1>4
  <2>2. ASSUME NEW y \in 1 .. Len(s), y - 1 \notin T PROVE y \notin T
    <3>1. y - 1 \in 0 .. Len(s) /\ y \in 1 .. Len(t)
      BY <1>2, <1>6
    <3>2. f[y - 1] = h[y - 1]
      BY <2>2, <3>1
    <3>3. f[y] = 10 * f[y - 1] + DigitOf(s[y]) /\ h[y] = 10 * h[y - 1] + DigitOf(t[y]) /\ t[y] = s[y]
      BY <1>2, <1>3, <1>4, <3>1
    <3> QED BY <3>2, <3>3
  <2>3. T = {}
    <3> HIDE DEF T
    <3>1. T \in SUBSET (0 .. Len(s))
      BY DEF T
    <3> QED BY <1>6, <2>1, <2>2, <3>1, NoneFails
  <2> QED BY <1>3, <1>6, <2>3 DEF x
<1> HIDE DEF l
<1>9. \A k \in 0 .. m : h[l + k] = x * g[k]
  <2> DEFINE T == {k \in 0 .. m : h[l + k] # x * g[k]}
  <2>1. 0 \notin T
    <3>1. l + 0 = l
      BY <1>6 DEF l
    <3> QED BY <1>5, <1>7, <1>8, <3>1
  <2>2. ASSUME NEW y \in 1 .. m, y - 1 \notin T PROVE y \notin T
    <3>1. y - 1 \in 0 .. m /\ l + y \in 1 .. Len(t) /\ (l + y) - 1 = l + (y - 1)
      BY <1>2, <1>6 DEF l
    <3>2. h[l + (y - 1)] = x * g[y - 1]
      BY <2>2, <3>1
    <3>3. h[l + y] = 10 * h[(l + y) - 1] + DigitOf(t[l + y]) /\ t[l + y] = "0"
      BY <1>2, <1>4, <3>1 DEF l
    <3>4. h[l + y] = 10 * (x * g[y - 1]) + 0
      BY <3>1, <3>2, <3>3, DigitChar
    <3>5. g[y] = 10 * g[y - 1] /\ g[y - 1] \in Nat
      BY <1>5, <3>1
    <3>6. \A a, b \in Nat : 10 * (a * b) + 0 = a * (10 * b)
      OBVIOUS
    <3>7. h[l + y] = x * g[y]
      BY <1>7, <3>4, <3>5, <3>6
    <3> QED BY <3>7
  <2>3. T = {}
    <3> HIDE DEF T
    <3>1. T \in SUBSET (0 .. m)
      BY DEF T
    <3> QED BY <2>1, <2>2, <3>1, NoneFails
  <2> QED BY <2>3
<1>10. m \in 0 .. m /\ l + m = Len(t)
  BY <1>2, <1>6 DEF l
<1>11. Number(t) = x * TenTo(m)
  BY <1>4, <1>5, <1>9, <1>10
<1> QED BY <1>2, <1>11 DEF t, z, x

LEMMA TenToIsNat == ASSUME NEW n \in Nat PROVE TenTo(n) \in Nat
<1>1. PICK g \in [0 .. n -> Nat] : TenTo(n) = g[n]
  BY TenToSteps
<1>2. n \in 0 .. n
  OBVIOUS
<1> QED BY <1>1, <1>2

LEMMA TenToZero == TenTo(0) = 1
<1> DEFINE IsPower(f) == f = [j \in 0 .. 0 |-> IF j = 0 THEN 1 ELSE 10 * f[j - 1]]
           p == CHOOSE f : IsPower(f)
<1>1. IsPower([j \in 0 .. 0 |-> 1])
  <2> DEFINE g == [j \in 0 .. 0 |-> 1]
  <2>1. g = [j \in 0 .. 0 |-> IF j = 0 THEN 1 ELSE 10 * g[j - 1]]
    OBVIOUS
  <2> QED BY <2>1
<1>2. IsPower(p)
  <2> HIDE DEF IsPower
  <2> QED BY <1>1
<1>3. TenTo(0) = p[0]
  BY DEF TenTo
<1> HIDE DEF p
<1> QED BY <1>2, <1>3

\* A string in two parts.
LEMMA Parted ==
    ASSUME NEW T, NEW r \in Seq(T), NEW j \in 0 .. Len(r)
    PROVE  LET u == SubSeq(r, 1, j)
               v == SubSeq(r, j + 1, Len(r))
           IN  /\ u \in Seq(T) /\ Len(u) = j
               /\ v \in Seq(T) /\ Len(v) = Len(r) - j
               /\ u \o v = r
<1> DEFINE u == SubSeq(r, 1, j)
           v == SubSeq(r, j + 1, Len(r))
           w == u \o v
<1>1. Len(r) \in Nat /\ j \in Nat /\ j <= Len(r)
  OBVIOUS
<1>2. u \in Seq(T) /\ Len(u) = j /\ \A k \in 1 .. j : u[k] = r[k]
  BY <1>1
<1>3. v \in Seq(T) /\ Len(v) = Len(r) - j /\ \A k \in 1 .. Len(r) - j : v[k] = r[j + k]
  BY <1>1
<1> HIDE DEF u, v
<1>4. /\ w \in Seq(T) /\ Len(w) = Len(u) + Len(v)
      /\ \A k \in 1 .. Len(u) : w[k] = u[k]
      /\ \A k \in 1 .. Len(v) : w[Len(u) + k] = v[k]
  <2>1. u \in Seq(T) /\ v \in Seq(T)
    BY <1>2, <1>3
  <2> QED BY <2>1
<1> HIDE DEF w
<1>5. Len(w) = Len(r)
  BY <1>1, <1>2, <1>3, <1>4
<1>6. ASSUME NEW k \in 1 .. Len(w) PROVE w[k] = r[k]
  <2>1. CASE k <= j
    <3>1. k \in 1 .. Len(u) /\ k \in 1 .. j
      BY <1>1, <1>2, <1>5, <2>1
    <3> QED BY <1>2, <1>4, <3>1
  <2>2. CASE k > j
    <3>1. k - j \in 1 .. Len(v) /\ k - j \in 1 .. Len(r) - j /\ j + (k - j) = k
      BY <1>1, <1>3, <1>5, <2>2
    <3>2. w[j + (k - j)] = v[k - j]
      BY <1>2, <1>4, <3>1
    <3>3. v[k - j] = r[j + (k - j)]
      BY <1>3, <3>1
    <3> QED BY <3>1, <3>2, <3>3
  <2> QED BY <1>1, <1>5, <2>1, <2>2
<1>7. w = r
  BY <1>4, <1>5, <1>6, SameSeq
<1> QED BY <1>2, <1>3, <1>7 DEF u, v, w

\* Zeros in front of any string.
LEMMA ZerosInFront ==
    ASSUME NEW T, DigitChars \subseteq T, NEW r \in Seq(T), NEW m \in Nat
    PROVE  /\ Zeros(m) \in Seq(T) /\ Len(Zeros(m)) = m
           /\ Zeros(m) \o r \in Seq(T) /\ Len(Zeros(m) \o r) = m + Len(r)
           /\ \A k \in 1 .. Len(r) : (Zeros(m) \o r)[m + k] = r[k]
<1> DEFINE z == Zeros(m)
<1>1. z \in Seq(T) /\ Len(z) = m
  BY DigitChar DEF Zeros
<1> HIDE DEF z
<1>2. Len(r) \in Nat
  OBVIOUS
<1>3. z \o r \in Seq(T) /\ Len(z \o r) = m + Len(r)
  BY <1>1
<1>4. \A k \in 1 .. Len(r) : (z \o r)[m + k] = r[k]
  BY <1>1, <1>2
<1> QED BY <1>1, <1>3, <1>4 DEF z

\* What a shift down makes of a string that, without its dot, is r, if the
\* dot was after i characters: the same string, perhaps with zeros in front,
\* and a dot so many places to the left.
LEMMA PointMoved ==
    ASSUME NEW T, DigitChars \subseteq T, "." \notin T, NEW r \in Seq(T),
           NEW i \in 0 .. Len(r), NEW size \in Nat \ {0}, NEW t,
           i > size => t = SubSeq(r, 1, i - size) \o <<".">> \o SubSeq(r, i - size + 1, Len(r)),
           ~(i > size) => t = <<"0", ".">> \o Zeros(size - i) \o r
    PROVE  /\ \E m \in Nat : Undotted(t) = Zeros(m) \o r
           /\ Fraction(t) = (Len(r) - i) + size
           /\ Dot(t) \in Nat /\ Dot(t) + Fraction(t) = Len(t) - 1
           /\ t # <<>>
<1>1. Len(r) \in Nat /\ i \in Nat /\ i <= Len(r) /\ size \in Nat /\ size > 0
  OBVIOUS
<1> SUFFICES \E u, v \in Seq(T), m \in Nat : /\ t = u \o <<".">> \o v
                                             /\ u \o v = Zeros(m) \o r
                                             /\ Len(v) = (Len(r) - i) + size
  <2>1. PICK u \in Seq(T), v \in Seq(T), m \in Nat : /\ t = u \o <<".">> \o v
                                                     /\ u \o v = Zeros(m) \o r
                                                     /\ Len(v) = (Len(r) - i) + size
    OBVIOUS
  <2>2. Dot(t) = Len(u) /\ Fraction(t) = Len(v) /\ Undotted(t) = u \o v /\ Len(t) = Len(u) + 1 + Len(v)
    <3> DEFINE x == u \o <<".">> \o v
    <3>1. Dot(x) = Len(u) /\ Fraction(x) = Len(v) /\ Undotted(x) = u \o v /\ Len(x) = Len(u) + 1 + Len(v)
      BY DottedString, ZenonT(30)
    <3> HIDE DEF x
    <3>2. t = x
      BY <2>1 DEF x
    <3> QED BY <3>1, <3>2
  <2>3. Len(u) \in Nat /\ Len(v) \in Nat
    OBVIOUS
  <2>4. t # <<>>
    <3>1. Len(t) # 0
      BY <2>2, <2>3
    <3> QED BY <3>1
  <2>5. Dot(t) + Fraction(t) = Len(t) - 1
    BY <2>2, <2>3
  <2> QED BY <2>1, <2>2, <2>3, <2>4, <2>5
<1>2. CASE i > size
  <2> DEFINE u == SubSeq(r, 1, i - size)
             v == SubSeq(r, i - size + 1, Len(r))
  <2>1. i - size \in 0 .. Len(r)
    BY <1>1, <1>2
  <2>2. u \in Seq(T) /\ v \in Seq(T) /\ u \o v = r /\ Len(v) = Len(r) - (i - size)
    BY <2>1, Parted, ZenonT(30)
  <2>3. t = u \o <<".">> \o v
    BY <1>2
  <2> HIDE DEF u, v
  <2>4. Zeros(0) \o r = r
    <3>1. Zeros(0) = <<>>
      BY DEF Zeros
    <3> QED BY <3>1
  <2>5. Len(v) = (Len(r) - i) + size /\ 0 \in Nat
    BY <1>1, <2>2
  <2> QED BY <2>2, <2>3, <2>4, <2>5
<1>3. CASE ~(i > size)
  <2> DEFINE z == Zeros(size - i)
             u == <<"0">>
             v == z \o r
  <2>1. size - i \in Nat
    BY <1>1, <1>3
  <2>2. v \in Seq(T) /\ Len(v) = (size - i) + Len(r) /\ z \in Seq(T) /\ Len(z) = size - i
    BY <2>1, ZerosInFront
  <2>3. u \in Seq(T)
    BY DigitChar
  <2>4. t = u \o <<".">> \o v
    <3> DEFINE w == <<"0", ".">>
               S == T \cup {"."}
    <3>1. w = u \o <<".">>
      OBVIOUS
    <3>2. w \in Seq(S)
      BY DigitChar
    <3>3. t = (w \o z) \o r
      BY <1>3
    <3> HIDE DEF u, w, z
    <3>4. z \in Seq(S) /\ r \in Seq(S)
      BY <2>2
    <3> HIDE DEF S
    <3>5. (w \o z) \o r = w \o (z \o r)
      BY <3>2, <3>4
    <3> QED BY <3>1, <3>3, <3>5
  <2> DEFINE m == (size - i) + 1
  <2>5. u \o v = Zeros(m) \o r /\ m \in Nat
    <3>1. m \in Nat
      BY <2>1
    <3> DEFINE y == Zeros(m)
               x == u \o z
    <3>2. Len(y) = m /\ y \in Seq(T) /\ \A k \in 1 .. m : y[k] = "0"
      <4>1. Len(y) = m /\ y \in Seq(T)
        BY <3>1, ZerosInFront
      <4>2. \A k \in 1 .. m : y[k] = "0"
        BY <3>1, ZerosFact
      <4> QED BY <4>1, <4>2
    <3>3. \A k \in 1 .. size - i : z[k] = "0"
      BY <2>1, ZerosFact
    <3>4. x \in Seq(T) /\ Len(x) = m /\ \A k \in 1 .. m : x[k] = "0"
      <4> HIDE DEF z
      <4>1. x \in Seq(T) /\ Len(x) = 1 + (size - i)
        BY <2>2, <2>3
      <4>2. x[1] = "0" /\ \A k \in 1 .. size - i : x[1 + k] = z[k]
        BY <2>2, <2>3
      <4> HIDE DEF x
      <4>3. ASSUME NEW k \in 1 .. m PROVE x[k] = "0"
        <5>1. CASE k = 1
          BY <4>2, <5>1
        <5>2. CASE k # 1
          <6>1. k - 1 \in 1 .. size - i /\ 1 + (k - 1) = k
            BY <2>1, <5>2
          <6> QED BY <3>3, <4>2, <6>1
        <5> QED BY <5>1, <5>2
      <4>4. Len(x) = m
        BY <2>1, <4>1
      <4> QED BY <4>1, <4>3, <4>4
    <3> HIDE DEF x, y
    <3>5. x = y
      <4>1. \A k \in 1 .. Len(x) : x[k] = y[k]
        BY <3>2, <3>4
      <4>2. Len(x) = Len(y) /\ x \in Seq(T) /\ y \in Seq(T)
        BY <3>2, <3>4
      <4> HIDE DEF m
      <4> QED BY <4>1, <4>2, SameSeq
    <3>6. u \o (z \o r) = (u \o z) \o r
      <4> HIDE DEF u, z
      <4>1. u \in Seq(T) /\ z \in Seq(T) /\ r \in Seq(T)
        BY <2>2, <2>3
      <4> QED BY <4>1
    <3> QED BY <3>1, <3>5, <3>6 DEF x, y
  <2> HIDE DEF u, v, m
  <2>6. Len(v) = (Len(r) - i) + size
    BY <1>1, <2>2
  <2> QED BY <2>2, <2>3, <2>4, <2>5, <2>6
<1> QED BY <1>2, <1>3

\* LeftShift of a string without a dot.
LEMMA UndottedShifted ==
    ASSUME NEW T, DigitChars \subseteq T, "." \notin T, NEW s \in Seq(T), Len(s) >= 1,
           NEW size \in Nat \ {0}
    PROVE  LET t == LeftShift(s, size)
           IN  /\ \E m \in Nat : Undotted(t) = Zeros(m) \o s
               /\ Fraction(t) = size
               /\ Dot(t) \in Nat /\ Dot(t) + Fraction(t) = Len(t) - 1
               /\ t # <<>>
<1> DEFINE t == LeftShift(s, size)
<1>1. Len(s) \in Nat /\ s # <<>> /\ \A k \in 1 .. Len(s) : s[k] # "."
  OBVIOUS
<1>2. Dot(s) = -1
  BY <1>1, NoDot
<1>3. s # <<>> /\ ~(size <= 0) /\ ~(Dot(s) > size) /\ ~(Dot(s) >= 0)
  BY <1>1, <1>2
<1>4. ASSUME Len(s) <= size PROVE t = <<"0", ".">> \o Zeros(size - Len(s)) \o s
  BY <1>3, <1>4, Zenon DEF LeftShift
<1>5. ASSUME ~(Len(s) <= size)
      PROVE  t = SubSeq(s, 1, Len(s) - size) \o <<".">> \o SubSeq(s, Len(s) - size + 1, Len(s))
  BY <1>3, <1>5, Zenon DEF LeftShift
<1> HIDE DEF t
<1>6. Len(s) > size <=> ~(Len(s) <= size)
  BY <1>1
<1>7. Len(s) \in 0 .. Len(s) /\ (Len(s) - Len(s)) + size = size
  BY <1>1
<1> DEFINE i == Len(s)
<1>8. /\ i > size => t = SubSeq(s, 1, i - size) \o <<".">> \o SubSeq(s, i - size + 1, Len(s))
      /\ ~(i > size) => t = <<"0", ".">> \o Zeros(size - i) \o s
  BY <1>4, <1>5, <1>6
<1>9. i \in 0 .. Len(s) /\ (Len(s) - i) + size = size
  BY <1>7
<1> HIDE DEF i
<1>10. /\ \E m \in Nat : Undotted(t) = Zeros(m) \o s
       /\ Fraction(t) = (Len(s) - i) + size
       /\ Dot(t) \in Nat /\ Dot(t) + Fraction(t) = Len(t) - 1
       /\ t # <<>>
  <2>1. i > size => t = SubSeq(s, 1, i - size) \o <<".">> \o SubSeq(s, i - size + 1, Len(s))
    BY <1>8
  <2>2. ~(i > size) => t = <<"0", ".">> \o Zeros(size - i) \o s
    BY <1>8
  <2>3. i \in 0 .. Len(s)
    BY <1>9
  <2> HIDE DEF DigitChars
  <2> QED BY <2>1, <2>2, <2>3, PointMoved
<1> QED BY <1>9, <1>10 DEF t

\* Shifted down, a string of digits has so many decimals and the number it
\* had.
LEMMA ShiftedDown ==
    ASSUME NEW s \in Seq(DigitChars), Len(s) >= 1, NEW size \in Nat
    PROVE  LET t == LeftShift(s, size)
           IN  /\ Undotted(t) \in Seq(DigitChars) /\ Len(Undotted(t)) >= 1
               /\ Number(Undotted(t)) = Number(s)
               /\ Fraction(t) = size
               /\ size = 0 => t = s
               /\ size > 0 => /\ Dot(t) \in Nat /\ Dot(t) + size = Len(t) - 1
                              /\ t # <<>>
<1> DEFINE t == LeftShift(s, size)
<1>1. Dot(s) = -1 /\ Undotted(s) = s /\ Len(s) \in Nat
  BY DigitString
<1>2. CASE size = 0
  <2>1. t = s
    BY <1>2 DEF LeftShift
  <2> HIDE DEF t
  <2>2. Fraction(t) = 0
    BY <1>1, <2>1 DEF Fraction
  <2> QED BY <1>1, <1>2, <2>1, <2>2 DEF t
<1>3. CASE size # 0
  <2>1. "." \notin DigitChars /\ size \in Nat \ {0}
    BY <1>3, DigitChar
  <2>2. /\ \E m \in Nat : Undotted(t) = Zeros(m) \o s
        /\ Fraction(t) = size
        /\ Dot(t) \in Nat /\ Dot(t) + Fraction(t) = Len(t) - 1
        /\ t # <<>>
    BY <2>1, UndottedShifted
  <2> HIDE DEF t
  <2>3. PICK m \in Nat : Undotted(t) = Zeros(m) \o s
    BY <2>2
  <2>4. /\ Undotted(t) \in Seq(DigitChars) /\ Len(Undotted(t)) = m + Len(s)
        /\ Number(Undotted(t)) = Number(s)
    BY <2>3, NumberOfPadded
  <2>5. Len(Undotted(t)) >= 1
    BY <1>1, <2>4
  <2> QED BY <1>3, <2>2, <2>4, <2>5 DEF t
<1> QED BY <1>2, <1>3

\* The text of a negative number is no numeral: its sign counts as a digit.
LEMMA NegativeText ==
    ASSUME NEW n \in Int, n < 0, NEW size \in Nat \ {0}
    PROVE  ~IsNumeral(LeftShift(String(n), size))
<1> DEFINE d == Unsigned(-n)
           s == <<"-">> \o d
           T == DigitChars \cup {"-"}
           t == LeftShift(s, size)
<1>1. -n \in Nat
  OBVIOUS
<1>2. d \in Seq(DigitChars)
  BY <1>1, UnsignedFact
<1>3. String(n) = s
  BY DEF String
<1> HIDE DEF d
<1>4. d \in Seq(T) /\ <<"-">> \in Seq(T)
  BY <1>2
<1>5. s \in Seq(T) /\ Len(s) >= 1 /\ s[1] = "-"
  <2> HIDE DEF T
  <2> QED BY <1>4
<1>6. "." \notin T /\ DigitChars \subseteq T /\ "-" \notin DigitChars
  BY DigitChar
<1> HIDE DEF s, T
<1>7. PICK m \in Nat : Undotted(t) = Zeros(m) \o s
  BY <1>5, <1>6, UndottedShifted
<1> HIDE DEF t
<1> DEFINE w == Undotted(t)
<1>8. Len(w) = m + Len(s) /\ \A k \in 1 .. Len(s) : w[m + k] = s[k]
  <2>1. /\ Len(Zeros(m) \o s) = m + Len(s)
        /\ \A k \in 1 .. Len(s) : (Zeros(m) \o s)[m + k] = s[k]
    BY <1>5, <1>6, ZerosInFront, Zenon
  <2> QED BY <1>7, <2>1, Zenon
<1> HIDE DEF w
<1>9. Len(s) \in Nat /\ 1 \in 1 .. Len(s) /\ m + 1 \in 1 .. Len(w)
  BY <1>5, <1>8
<1>10. w[m + 1] = "-"
  BY <1>5, <1>8, <1>9
<1>11. ~IsDigits(w)
  BY <1>6, <1>9, <1>10 DEF IsDigits, DigitChars
<1> QED BY <1>3, <1>11 DEF IsNumeral, w, t

\* The text of an amount means the amount.
LEMMA TextMeans ==
    ASSUME NEW n \in Nat, NEW places \in Nat
    PROVE  Denotes(LeftShift(String(n), places), n, places)
<1> DEFINE s == Unsigned(n)
           t == LeftShift(s, places)
<1>1. s \in Seq(DigitChars) /\ Len(s) >= 1 /\ Number(s) = n
  BY UnsignedFact
<1>2. String(n) = s
  BY DEF String
<1> HIDE DEF s
<1>3. Undotted(t) \in Seq(DigitChars) /\ Len(Undotted(t)) >= 1 /\ Number(Undotted(t)) = n /\ Fraction(t) = places
  BY <1>1, ShiftedDown
<1> HIDE DEF t
<1>4. IsNumeral(t)
  BY <1>3, DigitString DEF IsNumeral
<1>5. Value(t, places) = n
  <2>1. places - Fraction(t) = 0
    BY <1>3
  <2> QED BY <1>3, <2>1, TenToZero DEF Value
<1>6. Fraction(t) <= places
  BY <1>3
<1> QED BY <1>2, <1>4, <1>5, <1>6 DEF Denotes, Value, IsNumeral, t

\* Trimming leaves a string of digits its number.
LEMMA TrimmedHead ==
    ASSUME NEW s \in Seq(DigitChars), Len(s) >= 1
    PROVE  /\ TrimHead(s) \in Seq(DigitChars) /\ Len(TrimHead(s)) >= 1
           /\ Number(TrimHead(s)) = Number(s)
<1> DEFINE I == {j \in 1 .. Len(s) : s[j] # "0"}
           stop == SelectInSeq(s, LAMBDA c : c # "0")
<1>1. Len(s) \in Nat /\ \A k \in 1 .. Len(s) : s[k] \in DigitChars /\ s[k] # "."
  <2>1. Len(s) \in Nat /\ \A k \in 1 .. Len(s) : s[k] \in DigitChars
    OBVIOUS
  <2> QED BY <2>1, DigitChar
<1>2. stop = IF I # {} THEN Min(I) ELSE 0
  BY DEF SelectInSeq
<1>3. CASE I = {}
  <2>1. stop = 0
    BY <1>2, <1>3
  <2>2. TrimHead(s) = s
    BY <2>1 DEF TrimHead
  <2> QED BY <2>2
<1>4. CASE I # {}
  <2>1. stop \in I /\ \A j \in I : stop <= j
    <3>1. stop = Min(I)
      BY <1>2, <1>4
    <3> HIDE DEF stop
    <3>2. \E x \in I : \A y \in I : x <= y
      <4>1. I \in SUBSET Nat
        OBVIOUS
      <4> HIDE DEF I
      <4> QED BY <1>4, <4>1, LeastElement
    <3> HIDE DEF I
    <3> QED BY <3>1, <3>2 DEF Min
  <2>2. TrimHead(s) = IF stop = 0 THEN s ELSE SubSeq(s, IF s[stop] = "." THEN stop - 1 ELSE stop, Len(s))
    BY DEF TrimHead
  <2> HIDE DEF stop
  <2>3. stop \in 1 .. Len(s)
    BY <2>1
  <2>4. TrimHead(s) = SubSeq(s, stop, Len(s))
    BY <1>1, <2>2, <2>3
  <2> DEFINE t == SubSeq(s, stop, Len(s))
  <2>5. /\ t \in Seq(DigitChars) /\ Len(t) = Len(s) - stop + 1
        /\ \A k \in 1 .. Len(t) : t[k] = s[(stop - 1) + k]
    BY <1>1, <2>3
  <2>6. \A k \in 1 .. stop - 1 : s[k] = "0"
    BY <1>1, <2>1, <2>3
  <2> HIDE DEF t
  <2>7. Number(s) = Number(t)
    <3>1. stop - 1 \in Nat /\ Len(s) = (stop - 1) + Len(t)
      BY <1>1, <2>3, <2>5
    <3> QED BY <2>5, <2>6, <3>1, NumberPadded
  <2>8. Len(t) >= 1
    BY <1>1, <2>3, <2>5
  <2> QED BY <2>4, <2>5, <2>7, <2>8 DEF t
<1> QED BY <1>3, <1>4

LEMMA DigitsAreInt ==
    ASSUME NEW s \in Seq(DigitChars), Len(s) >= 1
    PROVE  IsInt(s) /\ ParseInt(s) = Number(s) /\ ParseInt(s) \in Nat
  BY DigitString, NumberIsNat DEF IsInt, ParseInt

\* What the code writes it reads again.
LEMMA ReadsAgain ==
    ASSUME NEW n \in Nat, NEW places \in Nat
    PROVE  ParseInt(RightShift(LeftShift(String(n), places), places)) = n
<1> DEFINE s == Unsigned(n)
           t == LeftShift(s, places)
           r == RightShift(t, places)
<1>1. s \in Seq(DigitChars) /\ Len(s) >= 1 /\ Number(s) = n
  BY UnsignedFact
<1>2. String(n) = s
  BY DEF String
<1> HIDE DEF s
<1>3. /\ Undotted(t) \in Seq(DigitChars) /\ Len(Undotted(t)) >= 1 /\ Number(Undotted(t)) = n
      /\ places = 0 => t = s
      /\ places > 0 => Dot(t) \in Nat /\ Dot(t) + places = Len(t) - 1 /\ t # <<>>
  BY <1>1, ShiftedDown
<1> HIDE DEF t
<1>4. r \in Seq(DigitChars) /\ Len(r) >= 1 /\ Number(r) = n
  <2>1. CASE places = 0
    BY <1>1, <1>3, <2>1 DEF RightShift
  <2>2. CASE places > 0
    <3> DEFINE raw == Undotted(t)
    <3>1. Dot(t) # -1 /\ Dot(t) + places >= Len(t) - 1 /\ Dot(t) + places - Len(t) + 1 = 0
      <4>1. Dot(t) + places - Len(t) + 1 = 0
        <5> DEFINE d == Dot(t)
        <5>1. Len(t) = Dot(t) + places + 1
          <6>1. Len(t) \in Int
            <7>1. Len(t) - 1 \in Nat => Len(t) - 1 + 1 \in Nat
              OBVIOUS
            <7> QED BY <1>3, <2>2, <7>1
          <6> QED BY <1>3, <2>2, <6>1
        <5> QED BY <1>3, <2>2, <5>1
      <4> QED BY <1>3, <2>2, <4>1
    <3>2. r = TrimHead(raw \o Zeros(0))
      BY <1>3, <2>2, <3>1 DEF RightShift
    <3>3. raw \o Zeros(0) = raw
      <4>1. Zeros(0) = <<>>
        BY DEF Zeros
      <4> HIDE DEF raw
      <4>2. raw \o <<>> = raw
        BY <1>3 DEF raw
      <4> QED BY <4>1, <4>2
    <3> HIDE DEF raw, r
    <3>4. r = TrimHead(raw)
      BY <3>2, <3>3
    <3> QED BY <1>3, <3>4, TrimmedHead DEF raw
  <2> QED BY <2>1, <2>2
<1> HIDE DEF r
<1>5. ParseInt(r) = n
  BY <1>4, DigitsAreInt
<1> QED BY <1>2, <1>5 DEF r, t

\* With at most one dot, a string is digits, or digits, a dot, and digits.
LEMMA DotSplits ==
    ASSUME NEW s \in Seq(DigitChars \cup {"."}), Undotted(s) \in Seq(DigitChars)
    PROVE  \/ s \in Seq(DigitChars)
           \/ \E u, v \in Seq(DigitChars) : s = u \o <<".">> \o v
<1> DEFINE S == DigitChars \cup {"."}
           I == {j \in 1 .. Len(s) : s[j] = "."}
<1>1. Len(s) \in Nat /\ \A k \in 1 .. Len(s) : s[k] \in S
  OBVIOUS
<1>2. CASE I = {}
  <2>1. \A k \in 1 .. Len(s) : s[k] \in DigitChars
    BY <1>1, <1>2
  <2>2. s \in Seq(S)
    OBVIOUS
  <2> HIDE DEF S
  <2> QED BY <2>1, <2>2, SeqWithin
<1>3. CASE I # {}
  <2>1. PICK k \in I : \A j \in I : k <= j
    <3>1. I \in SUBSET Nat
      OBVIOUS
    <3> HIDE DEF I
    <3> QED BY <1>3, <3>1, LeastElement
  <2>2. k \in 1 .. Len(s) /\ s[k] = "." /\ k \in Nat /\ k >= 1 /\ k <= Len(s)
    BY <1>1
  <2>3. \A j \in 1 .. k - 1 : s[j] # "."
    BY <1>1, <2>1, <2>2
  <2>4. Dot(s) = k - 1
    BY <1>1, <2>2, <2>3, DotAt
  <2> DEFINE u == SubSeq(s, 1, k - 1)
             v == SubSeq(s, k + 1, Len(s))
             w == u \o v
  <2>5. Undotted(s) = w
    <3>1. (k - 1) + 2 = k + 1
      BY <2>2
    <3> QED BY <2>4, <3>1 DEF Undotted
  <2>6. u \in Seq(S) /\ Len(u) = k - 1 /\ \A j \in 1 .. k - 1 : u[j] = s[j]
    BY <1>1, <2>2
  <2>7. v \in Seq(S) /\ Len(v) = Len(s) - k /\ \A j \in 1 .. Len(s) - k : v[j] = s[k + j]
    BY <1>1, <2>2
  <2> HIDE DEF u, v, S
  <2>8. \A j \in 1 .. Len(u) : w[j] = u[j]
    <3>1. u \in Seq(S) /\ v \in Seq(S)
      BY <2>6, <2>7
    <3> QED BY <3>1
  <2>9. /\ Len(w) = Len(u) + Len(v)
        /\ \A j \in 1 .. Len(v) : w[Len(u) + j] = v[j]
    <3>1. u \in Seq(S) /\ v \in Seq(S)
      BY <2>6, <2>7
    <3> QED BY <3>1
  <2>10. w \in Seq(DigitChars)
    BY <2>5
  <2> HIDE DEF w
  <2>11. u \in Seq(DigitChars)
    <3>1. ASSUME NEW j \in 1 .. Len(u) PROVE u[j] \in DigitChars
      <4>1. j \in 1 .. Len(w)
        BY <1>1, <2>2, <2>6, <2>7, <2>9
      <4> QED BY <2>8, <2>10, <4>1
    <3> QED BY <2>6, <3>1, SeqWithin
  <2>12. v \in Seq(DigitChars)
    <3>1. ASSUME NEW j \in 1 .. Len(v) PROVE v[j] \in DigitChars
      <4>1. Len(u) + j \in 1 .. Len(w)
        BY <1>1, <2>2, <2>6, <2>7, <2>9
      <4> QED BY <2>9, <2>10, <4>1
    <3> QED BY <2>7, <3>1, SeqWithin
  <2> DEFINE a == u \o <<".">>
             x == a \o v
  <2>13. /\ a \in Seq(S) /\ Len(a) = k
         /\ \A j \in 1 .. k - 1 : a[j] = s[j]
         /\ a[k] = "."
    <3>1. <<".">> \in Seq(S)
      BY DEF S
    <3>2. u \in Seq(S)
      BY <2>6
    <3>3. /\ a \in Seq(S) /\ Len(a) = Len(u) + 1
          /\ \A j \in 1 .. Len(u) : a[j] = u[j]
          /\ a[Len(u) + 1] = "."
      BY <3>1, <3>2
    <3> HIDE DEF a
    <3>4. Len(u) + 1 = k /\ Len(u) = k - 1
      BY <2>2, <2>6
    <3> QED BY <2>6, <3>3, <3>4
  <2> HIDE DEF a
  <2>14. /\ x \in Seq(S) /\ Len(x) = Len(a) + Len(v)
         /\ \A j \in 1 .. Len(a) : x[j] = a[j]
         /\ \A j \in 1 .. Len(v) : x[Len(a) + j] = v[j]
    <3>1. a \in Seq(S) /\ v \in Seq(S)
      BY <2>7, <2>13
    <3> QED BY <3>1
  <2> HIDE DEF x
  <2>15. Len(x) = Len(s)
    BY <1>1, <2>2, <2>7, <2>13, <2>14
  <2>16. ASSUME NEW j \in 1 .. Len(x) PROVE x[j] = s[j]
    <3>1. CASE j < k
      <4>1. j \in 1 .. k - 1 /\ j \in 1 .. Len(a)
        BY <2>2, <2>13, <3>1
      <4> QED BY <2>13, <2>14, <4>1
    <3>2. CASE j = k
      <4>1. j \in 1 .. Len(a)
        BY <2>2, <2>13, <3>2
      <4> QED BY <2>2, <2>13, <2>14, <3>2, <4>1
    <3>3. CASE j > k
      <4>1. j - k \in 1 .. Len(v) /\ j - k \in 1 .. Len(s) - k /\ k + (j - k) = j
        BY <1>1, <2>2, <2>7, <2>15, <3>3
      <4>2. x[k + (j - k)] = v[j - k]
        BY <2>13, <2>14, <4>1
      <4>3. v[j - k] = s[k + (j - k)]
        BY <2>7, <4>1
      <4> QED BY <4>1, <4>2, <4>3
    <3> QED BY <2>2, <3>1, <3>2, <3>3
  <2>17. x = s
    <3>1. s \in Seq(S)
      BY DEF S
    <3> QED BY <2>14, <2>15, <2>16, <3>1, SameSeq
  <2> QED BY <2>11, <2>12, <2>17 DEF x, a
<1> QED BY <1>2, <1>3

\* Trimming keeps a dot that is not in front.
LEMMA DotStays ==
    ASSUME NEW w \in Seq(DigitChars \cup {"."}), NEW k \in 1 .. Len(w), w[k] = ".", w[1] # "."
    PROVE  ~IsInt(TrimHead(w))
<1> DEFINE S == DigitChars \cup {"."}
           I == {j \in 1 .. Len(w) : w[j] # "0"}
           stop == SelectInSeq(w, LAMBDA c : c # "0")
           first == IF w[stop] = "." THEN stop - 1 ELSE stop
           t == SubSeq(w, first, Len(w))
<1>1. Len(w) \in Nat /\ (\A j \in 1 .. Len(w) : w[j] \in S) /\ k >= 1 /\ k <= Len(w) /\ k \in Nat
  OBVIOUS
<1>2. stop = IF I # {} THEN Min(I) ELSE 0
  BY DEF SelectInSeq
<1>3. stop \in I /\ \A j \in I : stop <= j
  <2>1. I # {}
    <3>1. k \in I
      OBVIOUS
    <3> QED BY <3>1
  <2>2. stop = Min(I)
    BY <1>2, <2>1
  <2> HIDE DEF stop
  <2>3. \E x \in I : \A y \in I : x <= y
    <3>1. I \in SUBSET Nat
      OBVIOUS
    <3> HIDE DEF I
    <3> QED BY <2>1, <3>1, LeastElement
  <2> HIDE DEF I
  <2> QED BY <2>2, <2>3 DEF Min
<1>4. TrimHead(w) = IF stop = 0 THEN w ELSE t
  BY DEF TrimHead
<1> HIDE DEF stop
<1>5. stop \in 1 .. Len(w) /\ stop <= k
  <2>1. k \in I
    OBVIOUS
  <2> QED BY <1>3, <2>1
<1>6. TrimHead(w) = t
  BY <1>1, <1>4, <1>5
<1>7. first \in 1 .. k
  <2>1. CASE w[stop] = "."
    <3>1. stop # 1
      BY <2>1
    <3>2. first = stop - 1
      BY <2>1
    <3> HIDE DEF first
    <3> QED BY <1>1, <1>5, <3>1, <3>2
  <2>2. CASE w[stop] # "."
    <3>1. first = stop
      BY <2>2
    <3> HIDE DEF first
    <3> QED BY <1>1, <1>5, <3>1
  <2> QED BY <2>1, <2>2
<1> HIDE DEF first, S
<1>8. /\ Len(t) = (Len(w) - first) + 1
      /\ \A j \in 1 .. (Len(w) - first) + 1 : t[j] = w[(first - 1) + j]
  <2>1. w \in Seq(S)
    BY DEF S
  <2> QED BY <1>1, <1>7, <2>1
<1> HIDE DEF t
<1>9. t[(k - first) + 1] = "." /\ (k - first) + 1 \in 1 .. Len(t)
  <2>1. (k - first) + 1 \in 1 .. (Len(w) - first) + 1 /\ (first - 1) + ((k - first) + 1) = k
    BY <1>1, <1>7
  <2> QED BY <1>8, <2>1
<1>10. t[1] \notin {"-", "+"}
  <2>1. 1 \in 1 .. (Len(w) - first) + 1 /\ (first - 1) + 1 = first /\ first \in 1 .. Len(w)
    BY <1>1, <1>7
  <2>2. t[1] = w[first] /\ w[first] \in S
    BY <1>1, <1>8, <2>1
  <2> QED BY <2>2, DigitChar DEF S
<1>11. ~IsDigits(t)
  <2>1. "." \notin DigitChars
    BY DigitChar
  <2> QED BY <1>9, <2>1 DEF IsDigits, DigitChars
<1> QED BY <1>6, <1>10, <1>11 DEF IsInt

\* An amount shifted up is the amount in the smallest unit: without a dot,
LEMMA RaisedDigits ==
    ASSUME NEW s \in Seq(DigitChars), Len(s) >= 1, NEW P \in Nat \ {0}
    PROVE  LET r == RightShift(s, P)
           IN  /\ IsNumeral(s) /\ Fraction(s) = 0 /\ s # <<".">>
               /\ IsInt(r) /\ ParseInt(r) = Value(s, P) /\ ParseInt(r) \in Nat
<1> DEFINE r == RightShift(s, P)
<1>1. Dot(s) = -1 /\ Undotted(s) = s /\ IsDigits(s) /\ Len(s) \in Nat
  BY DigitString
<1>2. s # <<>> /\ s # <<".">>
  BY <1>1, DigitChar DEF IsDigits, DigitChars
<1>3. Fraction(s) = 0
  BY <1>1 DEF Fraction
<1>4. r = s \o Zeros(P)
  BY <1>1, <1>2 DEF RightShift
<1>5. r \in Seq(DigitChars) /\ Len(r) = Len(s) + P /\ Number(r) = Number(s) * TenTo(P)
  BY <1>4, NumberExtended
<1> HIDE DEF r
<1>6. Len(r) >= 1
  BY <1>1, <1>5
<1>7. IsInt(r) /\ ParseInt(r) = Number(s) * TenTo(P) /\ ParseInt(r) \in Nat
  BY <1>5, <1>6, DigitsAreInt
<1>8. Value(s, P) = Number(s) * TenTo(P)
  <2>1. P - Fraction(s) = P
    BY <1>3
  <2> QED BY <1>1, <2>1 DEF Value
<1>9. IsNumeral(s)
  BY <1>1 DEF IsNumeral
<1> QED BY <1>2, <1>3, <1>7, <1>8, <1>9 DEF r

\* and with one.  What is too precise stays no number.
LEMMA RaisedDotted ==
    ASSUME NEW u \in Seq(DigitChars), NEW v \in Seq(DigitChars), NEW P \in Nat \ {0}
    PROVE  LET s == u \o <<".">> \o v
               r == RightShift(s, P)
           IN  /\ Len(v) <= P => IsInt(r) /\ ParseInt(r) = Value(s, P) /\ ParseInt(r) \in Nat
               /\ ~(Len(v) <= P) => ~IsInt(r)
<1> DEFINE s == u \o <<".">> \o v
           r == RightShift(s, P)
           raw == u \o v
<1>1. Dot(s) = Len(u) /\ Fraction(s) = Len(v) /\ Undotted(s) = raw /\ Len(s) = Len(u) + 1 + Len(v)
  <2>1. "." \notin DigitChars
    BY DigitChar
  <2> QED BY <2>1, DottedString
<1>2. Len(u) \in Nat /\ Len(v) \in Nat /\ P \in Nat /\ P > 0
  OBVIOUS
<1>3. raw \in Seq(DigitChars) /\ Len(raw) = Len(u) + Len(v)
  OBVIOUS
<1> HIDE DEF s, raw
<1>4. s # <<>> /\ ~(P <= 0) /\ Dot(s) # -1
  <2>1. Len(s) # 0 /\ Dot(s) # -1
    BY <1>1, <1>2
  <2> QED BY <1>2, <2>1
<1>5. ASSUME Len(v) <= P PROVE IsInt(r) /\ ParseInt(r) = Value(s, P) /\ ParseInt(r) \in Nat
  <2> DEFINE d == P - Len(v)
             w == raw \o Zeros(d)
  <2>1. d \in Nat
    BY <1>2, <1>5
  <2>2. Dot(s) + P >= Len(s) - 1 /\ Dot(s) + P - Len(s) + 1 = d
    BY <1>1, <1>2, <1>5
  <2>3. r = TrimHead(w)
    <3>1. r = TrimHead(raw \o Zeros(Dot(s) + P - Len(s) + 1))
      BY <1>1, <1>4, <2>2, Zenon DEF RightShift
    <3> QED BY <2>2, <3>1
  <2> HIDE DEF d
  <2>4. w \in Seq(DigitChars) /\ Len(w) = Len(raw) + d /\ Number(w) = Number(raw) * TenTo(d)
    BY <1>3, <2>1, NumberExtended
  <2> HIDE DEF w
  <2>5. Len(w) >= 1
    BY <1>2, <1>3, <2>4 DEF d
  <2>6. r \in Seq(DigitChars) /\ Len(r) >= 1 /\ Number(r) = Number(raw) * TenTo(d)
    BY <2>3, <2>4, <2>5, TrimmedHead
  <2> HIDE DEF r
  <2>7. IsInt(r) /\ ParseInt(r) = Number(raw) * TenTo(d) /\ ParseInt(r) \in Nat
    BY <2>6, DigitsAreInt
  <2>8. Value(s, P) = Number(raw) * TenTo(d)
    BY <1>1 DEF Value, d
  <2> QED BY <2>7, <2>8
<1>6. ASSUME ~(Len(v) <= P) PROVE ~IsInt(r)
  <2> DEFINE j == Len(u) + P
             x == SubSeq(raw, 1, j)
             y == SubSeq(raw, j + 1, Len(raw))
             w == x \o <<".">> \o y
             S == DigitChars \cup {"."}
  <2>1. ~(Dot(s) + P >= Len(s) - 1) /\ Dot(s) + P = j
    BY <1>1, <1>2, <1>6
  <2>2. r = TrimHead(w)
    <3>1. r = TrimHead(SubSeq(raw, 1, Dot(s) + P) \o <<".">> \o SubSeq(raw, Dot(s) + P + 1, Len(raw)))
      BY <1>1, <1>4, <2>1, Zenon DEF RightShift
    <3> QED BY <2>1, <3>1
  <2>3. j \in 0 .. Len(raw) /\ j >= 1
    BY <1>2, <1>3, <1>6
  <2> HIDE DEF j
  <2>4. x \in Seq(DigitChars) /\ Len(x) = j /\ y \in Seq(DigitChars)
    BY <1>3, <2>3, Parted
  <2> HIDE DEF r, x, y
  <2>5. w \in Seq(S) /\ w[j + 1] = "." /\ j + 1 \in 1 .. Len(w) /\ w[1] \in DigitChars
    <3> DEFINE a == x \o <<".">>
    <3>1. x \in Seq(S) /\ y \in Seq(S) /\ <<".">> \in Seq(S) /\ x[1] \in DigitChars
      BY <2>3, <2>4
    <3> HIDE DEF S
    <3>2. a \in Seq(S) /\ Len(a) = Len(x) + 1 /\ a[Len(x) + 1] = "." /\ \A k \in 1 .. Len(x) : a[k] = x[k]
      BY <3>1
    <3> HIDE DEF a
    <3>3. a \in Seq(S) /\ y \in Seq(S)
      BY <3>1, <3>2
    <3>4. a \o y \in Seq(S) /\ Len(a \o y) = Len(a) + Len(y) /\ \A k \in 1 .. Len(a) : (a \o y)[k] = a[k]
      BY <3>3
    <3>5. w = a \o y /\ Len(y) \in Nat
      BY <3>1 DEF a
    <3> HIDE DEF w
    <3>6. 1 \in 1 .. Len(x) /\ 1 \in 1 .. Len(a) /\ j + 1 \in 1 .. Len(a) /\ Len(x) + 1 = j + 1 /\ j + 1 \in 1 .. Len(w)
      BY <2>3, <2>4, <3>2, <3>4, <3>5
    <3> QED BY <3>1, <3>2, <3>4, <3>5, <3>6
  <2> HIDE DEF w
  <2>6. w[1] # "."
    BY <2>5, DigitChar
  <2> QED BY <2>2, <2>5, <2>6, DotStays DEF S
<1> QED BY <1>5, <1>6 DEF s, r

\* A numeral shifted down has its point moved.
LEMMA Lowered ==
    ASSUME NEW s \in Seq(DigitChars \cup {"."}), Undotted(s) \in Seq(DigitChars),
           IsNumeral(s), NEW P \in Nat \ {0}, Fraction(s) <= P
    PROVE  Denotes(LeftShift(s, P), Value(s, P), 2 * P)
<1> DEFINE t == LeftShift(s, P)
           raw == Undotted(s)
<1>0. "." \notin DigitChars
  BY DigitChar
<1>1. Len(raw) \in Nat /\ Len(raw) >= 1
  <2>1. Len(raw) \in Nat /\ raw # <<>>
    BY DEF IsNumeral, IsDigits
  <2> QED BY <2>1
<1>2. (\E m \in Nat : Undotted(t) = Zeros(m) \o raw) /\ Fraction(t) = Fraction(s) + P /\ Fraction(s) \in Nat
  <2>1. CASE s \in Seq(DigitChars)
    <3>1. raw = s /\ Dot(s) = -1
      BY <2>1, DigitString
    <3>2. Fraction(s) = 0
      BY <3>1 DEF Fraction
    <3>3. (\E m \in Nat : Undotted(t) = Zeros(m) \o s) /\ Fraction(t) = P
      <4>1. s \in Seq(DigitChars) /\ Len(s) >= 1
        BY <1>1, <2>1, <3>1
      <4> HIDE DEF DigitChars
      <4> QED BY <1>0, <4>1, UndottedShifted
    <3> HIDE DEF t, raw
    <3>4. Fraction(t) = Fraction(s) + P /\ Fraction(s) \in Nat
      BY <3>2, <3>3
    <3> QED BY <3>1, <3>3, <3>4, Zenon
  <2>2. ASSUME NEW u \in Seq(DigitChars), NEW v \in Seq(DigitChars), s = u \o <<".">> \o v
        PROVE  (\E m \in Nat : Undotted(t) = Zeros(m) \o raw) /\ Fraction(t) = Fraction(s) + P /\ Fraction(s) \in Nat
    <3> DEFINE i == Len(u)
    <3>1. Dot(s) = i /\ Fraction(s) = Len(v) /\ raw = u \o v /\ Len(s) = i + 1 + Len(v)
      BY <1>0, <2>2, DottedString
    <3>2. i \in Nat /\ Len(v) \in Nat /\ P \in Nat /\ P > 0
      OBVIOUS
    <3>3. u \o v \in Seq(DigitChars) /\ Len(u \o v) = i + Len(v)
      OBVIOUS
    <3>4. s # <<>> /\ ~(P <= 0)
      <4>1. Len(s) # 0
        BY <3>1, <3>2
      <4> QED BY <3>2, <4>1
    <3>5. ASSUME i > P
          PROVE  t = SubSeq(raw, 1, i - P) \o <<".">> \o SubSeq(raw, i - P + 1, Len(raw))
      <4>1. t = SubSeq(s, 1, i - P) \o <<".">> \o SubSeq(raw, i - P + 1, Len(raw))
        BY <3>1, <3>4, <3>5, Zenon DEF LeftShift
      <4>2. SubSeq(s, 1, i - P) = SubSeq(raw, 1, i - P)
        <5> DEFINE n == i - P
                   S == DigitChars \cup {"."}
        <5>1. n \in Nat /\ n <= i
          BY <3>2, <3>5
        <5>2. \A k \in 1 .. i : s[k] = u[k] /\ raw[k] = u[k]
          <6>1. \A k \in 1 .. i : (u \o v)[k] = u[k]
            OBVIOUS
          <6>2. u \o <<".">> \o v = u \o (<<".">> \o v)
            <7>1. u \in Seq(S) /\ v \in Seq(S) /\ <<".">> \in Seq(S)
              OBVIOUS
            <7> HIDE DEF S
            <7> QED BY <7>1
          <6>3. \A k \in 1 .. i : (u \o (<<".">> \o v))[k] = u[k]
            <7> DEFINE b == <<".">> \o v
            <7>1. u \in Seq(S) /\ v \in Seq(S) /\ <<".">> \in Seq(S)
              OBVIOUS
            <7>2. b \in Seq(S)
              <8> HIDE DEF S
              <8> QED BY <7>1
            <7> HIDE DEF b, S
            <7>3. \A k \in 1 .. Len(u) : (u \o b)[k] = u[k]
              BY <7>1, <7>2
            <7> QED BY <7>3 DEF b
          <6> HIDE DEF i
          <6> QED BY <2>2, <3>1, <6>1, <6>2, <6>3
        <5> HIDE DEF raw
        <5>3. SubSeq(s, 1, n) = [k \in 1 .. n |-> s[k]] /\ SubSeq(raw, 1, n) = [k \in 1 .. n |-> raw[k]]
          <6>1. raw \in Seq(DigitChars) /\ n <= Len(raw) /\ n <= Len(s)
            BY <3>1, <3>2, <3>3, <5>1
          <6> HIDE DEF n, i
          <6> QED BY <5>1, <6>1
        <5> HIDE DEF n
        <5>4. \A k \in 1 .. n : s[k] = raw[k]
          <6>1. \A k \in 1 .. n : k \in 1 .. i
            <7> HIDE DEF i
            <7> QED BY <3>2, <5>1
          <6> HIDE DEF i
          <6> QED BY <5>2, <6>1
        <5> QED BY <5>3, <5>4 DEF n
      <4> QED BY <4>1, <4>2
    <3>6. ASSUME ~(i > P) PROVE t = <<"0", ".">> \o Zeros(P - i) \o raw
      <4>1. Dot(s) >= 0 /\ ~(Dot(s) > P) /\ Dot(s) = i
        BY <3>1, <3>2, <3>6
      <4>2. t = <<"0", ".">> \o Zeros(P - Dot(s)) \o raw
        BY <3>4, <4>1, Zenon DEF LeftShift
      <4> QED BY <4>1, <4>2
    <3>7. i \in 0 .. Len(raw) /\ (Len(raw) - i) + P = Fraction(s) + P /\ raw \in Seq(DigitChars)
      BY <3>1, <3>2, <3>3
    <3> HIDE DEF t, raw, i
    <3>8. /\ \E m \in Nat : Undotted(t) = Zeros(m) \o raw
          /\ Fraction(t) = (Len(raw) - i) + P
          /\ Dot(t) \in Nat /\ Dot(t) + Fraction(t) = Len(t) - 1
          /\ t # <<>>
      <4> HIDE DEF DigitChars
      <4>1. i > P => t = SubSeq(raw, 1, i - P) \o <<".">> \o SubSeq(raw, i - P + 1, Len(raw))
        BY <3>5
      <4>2. ~(i > P) => t = <<"0", ".">> \o Zeros(P - i) \o raw
        BY <3>6
      <4>3. i \in 0 .. Len(raw) /\ raw \in Seq(DigitChars)
        BY <3>7
      <4> QED BY <1>0, <4>1, <4>2, <4>3, PointMoved
    <3> QED BY <3>1, <3>2, <3>7, <3>8
  <2> QED BY <2>1, <2>2, DotSplits
<1> HIDE DEF t
<1>3. PICK m \in Nat : Undotted(t) = Zeros(m) \o raw
  BY <1>2
<1> HIDE DEF raw
<1>4. raw \in Seq(DigitChars)
  BY DEF raw
<1>5. Undotted(t) \in Seq(DigitChars) /\ Len(Undotted(t)) = m + Len(raw) /\ Number(Undotted(t)) = Number(raw)
  BY <1>3, <1>4, NumberOfPadded
<1>6. IsNumeral(t)
  <2>1. Len(Undotted(t)) >= 1
    BY <1>1, <1>5
  <2> QED BY <1>5, <2>1, DigitString DEF IsNumeral
<1>7. Fraction(t) <= 2 * P /\ 2 * P - Fraction(t) = P - Fraction(s)
  BY <1>2
<1>8. Value(t, 2 * P) = Value(s, P)
  BY <1>5, <1>7 DEF Value, raw
<1> QED BY <1>6, <1>7, <1>8 DEF Denotes, Value, IsNumeral, t

\* What the code makes of a request.
LEMMA RequestMeant ==
    ASSUME NEW s \in Seq(DigitChars \cup {"."}), Undotted(s) \in Seq(DigitChars),
           NEW P \in Nat \ {0}
    PROVE  LET r == RightShift(s, P)
           IN  /\ IsInt(r) => ParseInt(r) \in Nat
               /\ s = <<".">> => ParseInt(r) = 0
               /\ s # <<".">> /\ IsInt(r) => /\ Denotes(s, ParseInt(r), P)
                                             /\ Denotes(LeftShift(s, P), ParseInt(r), 2 * P)
               /\ IsNumeral(s) /\ Fraction(s) <= P => IsInt(r) /\ ParseInt(r) = Value(s, P)
<1> DEFINE r == RightShift(s, P)
<1>1. /\ IsInt(r) => ParseInt(r) \in Nat
      /\ s = <<".">> => ParseInt(r) = 0
      /\ s # <<".">> /\ IsInt(r) => /\ IsNumeral(s) /\ Fraction(s) <= P
                                    /\ ParseInt(r) = Value(s, P)
      /\ IsNumeral(s) /\ Fraction(s) <= P => IsInt(r) /\ ParseInt(r) = Value(s, P)
  <2>1. CASE s = <<>>
    <3>1. r = <<>> /\ s # <<".">>
      BY <2>1 DEF RightShift
    <3>2. ~IsInt(r)
      BY <3>1 DEF IsInt, IsDigits
    <3>3. ~IsNumeral(s)
      <4>1. s \in Seq(DigitChars)
        BY <2>1
      <4>2. Undotted(s) = <<>>
        BY <2>1, <4>1, DigitString
      <4> QED BY <4>2 DEF IsNumeral, IsDigits
    <3> HIDE DEF r
    <3> QED BY <3>1, <3>2, <3>3
  <2>2. CASE s # <<>> /\ s \in Seq(DigitChars)
    <3>1. Len(s) >= 1
      <4>1. Len(s) \in Nat /\ Len(s) # 0
        BY <2>2
      <4> QED BY <4>1
    <3>2. /\ IsNumeral(s) /\ Fraction(s) = 0 /\ s # <<".">>
          /\ IsInt(r) /\ ParseInt(r) = Value(s, P) /\ ParseInt(r) \in Nat
      BY <2>2, <3>1, RaisedDigits
    <3> HIDE DEF r
    <3> QED BY <3>2
  <2>3. ASSUME NEW u \in Seq(DigitChars), NEW v \in Seq(DigitChars), s = u \o <<".">> \o v
        PROVE  /\ IsInt(r) => ParseInt(r) \in Nat
               /\ s = <<".">> => ParseInt(r) = 0
               /\ s # <<".">> /\ IsInt(r) => /\ IsNumeral(s) /\ Fraction(s) <= P
                                             /\ ParseInt(r) = Value(s, P)
               /\ IsNumeral(s) /\ Fraction(s) <= P => IsInt(r) /\ ParseInt(r) = Value(s, P)
    <3>1. "." \notin DigitChars
      BY DigitChar
    <3>2. Dot(s) = Len(u) /\ Fraction(s) = Len(v) /\ Undotted(s) = u \o v /\ Len(s) = Len(u) + 1 + Len(v)
      BY <2>3, <3>1, DottedString
    <3>3. /\ Len(v) <= P => IsInt(r) /\ ParseInt(r) = Value(s, P) /\ ParseInt(r) \in Nat
          /\ ~(Len(v) <= P) => ~IsInt(r)
      BY <2>3, RaisedDotted
    <3> HIDE DEF r
    <3>4. Len(u) \in Nat /\ Len(v) \in Nat
      OBVIOUS
    <3>5. ASSUME s = <<".">> PROVE ParseInt(r) = 0
      <4>1. Len(s) = 1
        BY <3>5
      <4>2. Len(u) = 0 /\ Len(v) = 0
        BY <3>2, <3>4, <4>1
      <4>3. Undotted(s) = <<>>
        BY <3>2, <4>2
      <4>4. Value(s, P) = 0 * TenTo(P - Fraction(s))
        BY <4>3, NumberEmpty DEF Value
      <4>5. P - Fraction(s) \in Nat /\ Len(v) <= P
        BY <3>2, <4>2
      <4>6. TenTo(P - Fraction(s)) \in Nat
        BY <4>5, TenToIsNat
      <4> QED BY <3>3, <4>4, <4>5, <4>6
    <3>6. ASSUME s # <<".">> PROVE IsNumeral(s)
      <4>1. u \o v \in Seq(DigitChars) /\ Len(u \o v) = Len(u) + Len(v)
        OBVIOUS
      <4>2. Len(u \o v) >= 1
        <5> SUFFICES ASSUME ~(Len(u \o v) >= 1) PROVE FALSE
          OBVIOUS
        <5>1. Len(u) = 0 /\ Len(v) = 0
          BY <3>4, <4>1
        <5>2. u = <<>> /\ v = <<>>
          BY <5>1
        <5>3. s = <<".">>
          BY <2>3, <5>2
        <5> QED BY <3>6, <5>3
      <4> QED BY <3>2, <4>1, <4>2, DigitString DEF IsNumeral
    <3> QED BY <3>2, <3>3, <3>5, <3>6
  <2> QED BY <2>1, <2>2, <2>3, DotSplits
<1>2. ASSUME s # <<".">>, IsInt(r)
      PROVE  Denotes(s, ParseInt(r), P) /\ Denotes(LeftShift(s, P), ParseInt(r), 2 * P)
  <2>1. IsNumeral(s) /\ Fraction(s) <= P /\ ParseInt(r) = Value(s, P)
    BY <1>1, <1>2
  <2>2. Denotes(LeftShift(s, P), Value(s, P), 2 * P)
    BY <2>1, Lowered
  <2> QED BY <2>1, <2>2 DEF Denotes, Value, IsNumeral
<1> QED BY <1>1, <1>2
=============================================================================
