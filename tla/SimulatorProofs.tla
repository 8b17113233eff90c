-------------------------- MODULE SimulatorProofs --------------------------
(***************************************************************************)
(* The simulators, for every strategy and every sequence of candles: the   *)
(* trades of a simulation explain its equity curve and its result, the     *)
(* ladder is climbed once, no candle both buys and sells, and a single     *)
(* entry is the buy-and-hold baseline.                                     *)
(***************************************************************************)
EXTENDS DcaSimulator, FiniteSetTheorems, SequenceTheorems, WellFoundedInduction, TLAPS

-----------------------------------------------------------------------------
(* Numbers and loops *)

LEMMA LeastExists ==
    ASSUME NEW S \in SUBSET Nat, S # {}
    PROVE  \E n \in S : \A m \in S : n <= m
<1>1. PICK n \in S : \A m \in S : ~ (<<m, n>> \in OpToRel(<, Nat))
  BY NatLessThanWellFounded, WFMin
<1>2. \A m \in S : ~ (m < n)
  BY <1>1 DEF OpToRel
<1>3. QED
  BY <1>2

LEMMA GreatestExists ==
    ASSUME NEW N \in Nat, NEW S \in SUBSET (0..N), S # {}
    PROVE  \E n \in S : \A m \in S : m <= n
<1> DEFINE U == {n \in Nat : \A m \in S : m <= n}
<1>1. N \in U
  OBVIOUS
<1>2. PICK n \in U : \A m \in U : n <= m
  BY <1>1, LeastExists
<1>3. CASE n \in S
  BY <1>2, <1>3
<1>4. CASE n \notin S
  <2>1. PICK x \in S : TRUE
    OBVIOUS
  <2>2. n # 0 /\ n \in Nat
    BY <1>2, <1>4, <2>1
  <2>3. n - 1 \in U
    <3>1. ASSUME NEW m \in S PROVE m <= n - 1
      BY <1>2, <1>4, <2>2
    <3>2. QED
      BY <2>2, <3>1
  <2>4. QED
    BY <1>2, <2>2, <2>3
<1>5. QED
  BY <1>3, <1>4

LEMMA MaxIs ==
    ASSUME NEW N \in Nat, NEW S \in SUBSET (0..N), S # {}
    PROVE  Max(S) \in S /\ \A m \in S : m <= Max(S)
<1>1. PICK n \in S : \A m \in S : m <= n
  BY GreatestExists
<1>2. \E x \in S : \A y \in S : x >= y
  BY <1>1
<1>3. Max(S) \in S /\ \A y \in S : Max(S) >= y
  BY <1>2, Zenon DEF Max
<1>4. QED
  BY <1>3
\* What holds at 0 and goes on to hold holds of all.
LEMMA Upwards ==
    ASSUME NEW N \in Nat, NEW S, 0 \in S, \A n \in S : n + 1 \in 0..N => n + 1 \in S
    PROVE  0..N \subseteq S
<1> DEFINE Missing == {n \in 0..N : n \notin S}
<1>1. SUFFICES ASSUME Missing # {} PROVE FALSE
  OBVIOUS
<1>2. Missing \in SUBSET Nat
  OBVIOUS
<1>3. PICK n \in Missing : \A m \in Missing : n <= m
  <2> HIDE DEF Missing
  <2>1. QED
    BY <1>1, <1>2, LeastExists
<1>4. n - 1 \in 0..N /\ n - 1 \notin Missing
  BY <1>3
<1>5. n - 1 \in S /\ (n - 1) + 1 = n /\ n \in 0..N
  BY <1>4
<1>6. QED
  BY <1>3, <1>5

LEMMA LastOne ==
    ASSUME NEW n \in Nat, NEW T \in SUBSET (1..n + 1), n + 1 \in T PROVE Max(T) = n + 1
<1>1. \A y \in T : n + 1 >= y
  OBVIOUS
<1>2. \A x \in T : (\A y \in T : x >= y) => x = n + 1
  OBVIOUS
<1>3. QED
  BY <1>1, <1>2 DEF Max

LEMMA UpTo ==
    ASSUME NEW N \in Nat, NEW k \in 1..N
    PROVE  /\ Max(1..k) = k /\ (1..k) \ {k} = 1..k - 1
           /\ 1..k \in SUBSET (1..N) /\ 1..k # {}
<1>1. PICK n \in Nat : n = k - 1 /\ k = n + 1
  OBVIOUS
<1>2. 1..k \in SUBSET (1..n + 1) /\ n + 1 \in 1..k
  BY <1>1
<1>3. Max(1..k) = k
  BY <1>1, <1>2, LastOne
<1>4. ASSUME NEW i PROVE i \in (1..k) \ {k} <=> i \in 1..k - 1
  OBVIOUS
<1>5. 1..k \in SUBSET (1..N) /\ 1..k # {}
  OBVIOUS
<1>6. (1..k) \ {k} = 1..k - 1
  BY <1>4
<1>7. QED
  BY <1>3, <1>5, <1>6
\* A sum adds one number after another.
LEMMA Adds ==
    ASSUME NEW N \in Nat, NEW ns \in [1..N -> Int]
    PROVE  \E h : /\ Sum(ns) = h[N]
                 /\ h[0] = 0
                 /\ \A k \in 1..N : h[k] = h[k - 1] + ns[k]
<1> DEFINE Goes(f, n) == f = [T \in SUBSET (1..n) |->
             IF T = {} THEN 0 ELSE f[T \ {Max(T)}] + ns[Max(T)]]
           S == {n \in 0..N : \E f : Goes(f, n)}
           loop == CHOOSE f : Goes(f, N)
<1>1. 0 \in S
  <2>1. PICK f : f = [T \in SUBSET (1..0) |-> 0]
    OBVIOUS
  <2>2. ASSUME NEW T \in SUBSET (1..0)
        PROVE  f[T] = IF T = {} THEN 0 ELSE f[T \ {Max(T)}] + ns[Max(T)]
    <3>1. T = {} /\ f[T] = 0
      BY <2>1
    <3>2. QED
      BY <3>1
  <2>3. Goes(f, 0)
    BY <2>1, <2>2
  <2>4. 0 \in 0..N
    OBVIOUS
  <2> HIDE DEF Goes
  <2>5. QED
    BY <2>3, <2>4
<1>2. ASSUME NEW n \in S, n + 1 \in 0..N PROVE n + 1 \in S
  <2>1. PICK f : Goes(f, n)
    OBVIOUS
  <2>2. PICK g : g = [T \in SUBSET (1..n + 1) |->
                        IF n + 1 \in T THEN f[T \ {n + 1}] + ns[n + 1]
                        ELSE f[T]]
    OBVIOUS
  <2>3. ASSUME NEW T \in SUBSET (1..n + 1)
        PROVE  g[T] = IF T = {} THEN 0 ELSE g[T \ {Max(T)}] + ns[Max(T)]
    <3>1. CASE n + 1 \in T
      <4>1. Max(T) = n + 1
        BY <1>2, <3>1, LastOne
      <4>2. T \ {n + 1} \in SUBSET (1..n + 1) /\ n + 1 \notin T \ {n + 1} /\ T # {}
        BY <3>1
      <4>3. g[T \ {n + 1}] = f[T \ {n + 1}]
        BY <2>2, <4>2
      <4>4. QED
        BY <2>2, <3>1, <4>1, <4>2, <4>3
    <3>2. CASE n + 1 \notin T
      <4>1. T \in SUBSET (1..n)
        BY <1>2, <3>2
      <4>2. PICK x : x = Max(T)
        OBVIOUS
      <4>3. T \ {x} \in SUBSET (1..n + 1) /\ n + 1 \notin T \ {x}
        BY <3>2
      <4>4. g[T] = f[T] /\ g[T \ {x}] = f[T \ {x}]
        BY <2>2, <3>2, <4>3
      <4>5. f[T] = IF T = {} THEN 0 ELSE f[T \ {x}] + ns[x]
        BY <2>1, <4>1, <4>2
      <4>6. QED
        BY <4>2, <4>4, <4>5
    <3>3. QED
      BY <3>1, <3>2
  <2>4. Goes(g, n + 1)
    BY <2>2, <2>3
  <2>5. QED
    BY <1>2, <2>4
<1>3. N \in S
  <2> HIDE DEF S
  <2>1. QED
    BY <1>1, <1>2, Upwards
<1>4. PICK f : f = loop /\ Goes(f, N)
  <2>1. \E f : Goes(f, N)
    BY <1>3
  <2>2. QED
    BY <2>1
<1>5. Sum(ns) = f[1..N]
  <2>1. DOMAIN ns = 1..N
    OBVIOUS
  <2>2. QED
    BY <1>4, <2>1, Zenon DEF Sum, FoldLeft, MapThenFoldSet
<1> HIDE DEF loop
<1>6. PICK h : h = [k \in 0..N |-> f[1..k]]
  OBVIOUS
<1>7. h[0] = 0
  <2>1. {} \in SUBSET (1..N) /\ 1..0 = {}
    OBVIOUS
  <2>2. QED
    BY <1>4, <1>6, <2>1
<1>8. ASSUME NEW k \in 1..N PROVE h[k] = h[k - 1] + ns[k]
  <2>1. /\ Max(1..k) = k /\ (1..k) \ {k} = 1..k - 1
        /\ 1..k \in SUBSET (1..N) /\ 1..k # {}
    BY UpTo
  <2>2. f[1..k] = f[1..k - 1] + ns[k]
    BY <1>4, <2>1
  <2>3. h[k] = f[1..k] /\ h[k - 1] = f[1..k - 1]
    BY <1>6
  <2>4. QED
    BY <2>2, <2>3
<1>9. Sum(ns) = h[N]
  BY <1>5, <1>6
<1>10. QED
  BY <1>7, <1>8, <1>9

LEMMA SumGrows ==
    ASSUME NEW N \in Nat, NEW ns \in [1..N -> Int]
    PROVE  \E h \in [0..N -> Int] :
              /\ Sum(ns) = h[N] /\ h[0] = 0
              /\ \A k \in 1..N : h[k] = h[k - 1] + ns[k]
<1>1. PICK f : /\ Sum(ns) = f[N] /\ f[0] = 0
               /\ \A k \in 1..N : f[k] = f[k - 1] + ns[k]
  BY Adds
<1> DEFINE S == {n \in 0..N : f[n] \in Int}
<1>2. 0 \in S
  BY <1>1
<1>3. ASSUME NEW n \in S, n + 1 \in 0..N PROVE n + 1 \in S
  <2>1. n + 1 \in 1..N /\ (n + 1) - 1 = n
    BY <1>3
  <2>2. f[n + 1] = f[n] + ns[n + 1] /\ ns[n + 1] \in Int /\ f[n] \in Int
    BY <1>1, <2>1
  <2>3. QED
    BY <1>3, <2>2
<1>4. 0..N \subseteq S
  <2> HIDE DEF S
  <2>1. QED
    BY <1>2, <1>3, Upwards
<1>5. PICK h : h = [k \in 0..N |-> f[k]]
  OBVIOUS
<1>6. h \in [0..N -> Int]
  BY <1>4, <1>5
<1>7. \A k \in 1..N : h[k] = h[k - 1] + ns[k]
  BY <1>1, <1>5
<1>8. h[N] = Sum(ns) /\ h[0] = 0
  BY <1>1, <1>5
<1>9. QED
  BY <1>6, <1>7, <1>8

\* Two that go on alike from where they are equal stay equal.
LEMMA SumNext ==
    ASSUME NEW N \in Nat, NEW ns \in [1..N + 1 -> Int], NEW ms \in [1..N -> Int],
           \A k \in 1..N : ms[k] = ns[k]
    PROVE  Sum(ns) = Sum(ms) + ns[N + 1] /\ Sum(ms) \in Int /\ Sum(ns) \in Int
<1>1. PICK h \in [0..N + 1 -> Int] : /\ Sum(ns) = h[N + 1] /\ h[0] = 0
                                     /\ \A k \in 1..N + 1 : h[k] = h[k - 1] + ns[k]
  <2>1. N + 1 \in Nat
    OBVIOUS
  <2>2. QED
    BY <2>1, SumGrows
<1>2. PICK g \in [0..N -> Int] : /\ Sum(ms) = g[N] /\ g[0] = 0
                                 /\ \A k \in 1..N : g[k] = g[k - 1] + ms[k]
  BY SumGrows
<1> DEFINE S == {n \in 0..N : g[n] = h[n]}
<1>3. 0 \in S
  BY <1>1, <1>2
<1>4. ASSUME NEW n \in S, n + 1 \in 0..N PROVE n + 1 \in S
  <2>1. n + 1 \in 1..N /\ n + 1 \in 1..N + 1 /\ (n + 1) - 1 = n
    BY <1>4
  <2>2. g[n + 1] = g[n] + ms[n + 1] /\ h[n + 1] = h[n] + ns[n + 1]
    BY <1>1, <1>2, <2>1
  <2>3. QED
    BY <1>4, <2>1, <2>2
<1>5. N \in S
  <2>1. 0..N \subseteq S
    <3> HIDE DEF S
    <3>1. QED
      BY <1>3, <1>4, Upwards
  <2> HIDE DEF S
  <2>2. QED
    BY <2>1
<1>6. h[N + 1] = h[N] + ns[N + 1]
  <2>1. N + 1 \in 1..N + 1 /\ (N + 1) - 1 = N
    OBVIOUS
  <2>2. QED
    BY <1>1, <2>1
<1>7. QED
  BY <1>1, <1>2, <1>5, <1>6

LEMMA SumNone == ASSUME NEW ns \in [1..0 -> Int] PROVE Sum(ns) = 0
BY SumGrows

LEMMA SumType == ASSUME NEW N \in Nat, NEW ns \in [1..N -> Int] PROVE Sum(ns) \in Int
<1>1. PICK h \in [0..N -> Int] : Sum(ns) = h[N]
  BY SumGrows
<1>2. QED
  BY <1>1

\* No addend is greater than the sum of numbers that are not negative.
LEMMA SumNat ==
    ASSUME NEW N \in Nat, NEW ns \in [1..N -> Nat]
    PROVE  Sum(ns) \in Nat /\ \A k \in 1..N : ns[k] <= Sum(ns)
<1>1. PICK h \in [0..N -> Int] : /\ Sum(ns) = h[N] /\ h[0] = 0
                                 /\ \A k \in 1..N : h[k] = h[k - 1] + ns[k]
  <2>1. ns \in [1..N -> Int]
    OBVIOUS
  <2>2. QED
    BY <2>1, SumGrows
<1> DEFINE S == {n \in 0..N : h[n] \in Nat /\ \A k \in 1..n : ns[k] <= h[n]}
<1>2. 0 \in S
  BY <1>1
<1>3. ASSUME NEW n \in S, n + 1 \in 0..N PROVE n + 1 \in S
  <2>1. n + 1 \in 1..N /\ (n + 1) - 1 = n
    BY <1>3
  <2>2. h[n + 1] = h[n] + ns[n + 1] /\ ns[n + 1] \in Nat /\ h[n] \in Nat
    BY <1>1, <2>1
  <2>3. ASSUME NEW k \in 1..n + 1 PROVE ns[k] <= h[n + 1]
    <3>1. CASE k = n + 1
      BY <2>2, <3>1
    <3>2. CASE k # n + 1
      <4>1. k \in 1..n /\ k \in 1..N
        BY <1>3, <3>2
      <4>2. ns[k] <= h[n] /\ ns[k] \in Nat
        BY <4>1
      <4>3. QED
        BY <2>2, <4>2
    <3>3. QED
      BY <3>1, <3>2
  <2>4. QED
    BY <1>3, <2>2, <2>3
<1>4. N \in S
  <2> HIDE DEF S
  <2>1. QED
    BY <1>2, <1>3, Upwards
<1>5. QED
  BY <1>1, <1>4

\* What is left when one addend is taken out.
LEMMA SumWithout ==
    ASSUME NEW N \in Nat, NEW ns \in [1..N + 1 -> Int], NEW i \in 1..N + 1,
           NEW ms \in [1..N -> Int],
           \A k \in 1..N : ms[k] = IF k < i THEN ns[k] ELSE ns[k + 1]
    PROVE  Sum(ns) = Sum(ms) + ns[i] /\ Sum(ms) \in Int
<1>1. PICK h \in [0..N + 1 -> Int] : /\ Sum(ns) = h[N + 1] /\ h[0] = 0
                                     /\ \A k \in 1..N + 1 : h[k] = h[k - 1] + ns[k]
  <2>1. N + 1 \in Nat
    OBVIOUS
  <2>2. QED
    BY <2>1, SumGrows
<1>2. PICK g \in [0..N -> Int] : /\ Sum(ms) = g[N] /\ g[0] = 0
                                 /\ \A k \in 1..N : g[k] = g[k - 1] + ms[k]
  BY SumGrows
<1>3. ns[i] \in Int
  OBVIOUS
<1> DEFINE Fits(n) == IF n < i THEN g[n] = h[n] ELSE g[n] = h[n + 1] - ns[i]
           S == {n \in 0..N : Fits(n)}
<1>4. 0 \in S
  BY <1>1, <1>2
<1>5. ASSUME NEW n \in S, n + 1 \in 0..N PROVE n + 1 \in S
  <2>1. n \in Nat /\ n + 1 \in 1..N /\ n + 1 \in 1..N + 1 /\ (n + 1) - 1 = n
        /\ n + 2 \in 1..N + 1 /\ (n + 2) - 1 = n + 1 /\ (n + 1) + 1 = n + 2
    BY <1>5
  <2>2. /\ g[n + 1] = g[n] + ms[n + 1] /\ h[n + 1] = h[n] + ns[n + 1]
        /\ h[n + 2] = h[n + 1] + ns[n + 2]
        /\ ms[n + 1] = IF n + 1 < i THEN ns[n + 1] ELSE ns[n + 2]
    BY <1>1, <1>2, <2>1
  <2>3. /\ h[n] \in Int /\ h[n + 1] \in Int /\ h[n + 2] \in Int /\ g[n] \in Int /\ g[n + 1] \in Int
        /\ ns[n + 1] \in Int /\ ns[n + 2] \in Int
    BY <2>1
  <2>4. Fits(n)
    OBVIOUS
  <2>5. CASE n + 1 < i
    <3>1. n < i
      BY <2>1, <2>5
    <3>2. QED
      BY <2>1, <2>2, <2>3, <2>4, <2>5, <3>1
  <2>6. CASE n + 1 = i
    <3>1. n < i /\ ~(n + 1 < i)
      BY <2>1, <2>6
    <3>2. g[n] = h[n] /\ ms[n + 1] = ns[n + 2] /\ ns[i] = ns[n + 1]
      BY <2>2, <2>4, <2>6, <3>1
    <3>3. g[n + 1] = h[n + 2] - ns[i]
      <4>1. PICK a, b, c, d, e, f :
               /\ a = g[n] /\ b = g[n + 1] /\ c = h[n + 1] /\ d = h[n + 2] /\ e = ns[i] /\ f = ns[n + 2]
        OBVIOUS
      <4>2. b = a + f /\ d = c + f /\ c = a + e
        BY <2>2, <3>2, <4>1
      <4>3. a \in Int /\ b \in Int /\ c \in Int /\ d \in Int /\ e \in Int /\ f \in Int
        BY <1>3, <2>3, <4>1
      <4>4. b = d - e
        BY <4>2, <4>3
      <4>5. QED
        BY <4>1, <4>4
    <3>4. QED
      BY <2>1, <3>1, <3>3
  <2>7. CASE n + 1 > i
    <3>1. ~(n < i) /\ ~(n + 1 < i)
      BY <2>1, <2>7
    <3>2. g[n] = h[n + 1] - ns[i] /\ ms[n + 1] = ns[n + 2]
      BY <2>2, <2>4, <3>1
    <3>3. g[n + 1] = h[n + 2] - ns[i]
      <4>1. PICK a, b, c, d, e, f :
               /\ a = g[n] /\ b = g[n + 1] /\ c = h[n + 1] /\ d = h[n + 2] /\ e = ns[i] /\ f = ns[n + 2]
        OBVIOUS
      <4>2. b = a + f /\ d = c + f /\ a = c - e
        BY <2>2, <3>2, <4>1
      <4>3. a \in Int /\ b \in Int /\ c \in Int /\ d \in Int /\ e \in Int /\ f \in Int
        BY <1>3, <2>3, <4>1
      <4>4. b = d - e
        BY <4>2, <4>3
      <4>5. QED
        BY <4>1, <4>4
    <3>4. QED
      BY <2>1, <3>1, <3>3
  <2>8. QED
    BY <2>1, <2>5, <2>6, <2>7
<1>6. Fits(N)
  <2> HIDE DEF Fits
  <2>1. 0..N \subseteq S
    <3> HIDE DEF S
    <3>1. QED
      BY <1>4, <1>5, Upwards
  <2>2. QED
    BY <2>1
<1>7. CASE N < i
  <2>1. i = N + 1 /\ N + 1 \in 1..N + 1 /\ (N + 1) - 1 = N
    BY <1>7
  <2>2. h[N + 1] = h[N] + ns[N + 1]
    BY <1>1, <2>1
  <2>3. QED
    BY <1>1, <1>2, <1>6, <1>7, <2>1, <2>2
<1>8. CASE ~(N < i)
  <2>1. g[N] = h[N + 1] - ns[i] /\ h[N + 1] \in Int /\ g[N] \in Int
    BY <1>6, <1>8
  <2>2. Sum(ns) = h[N + 1] /\ Sum(ms) = g[N]
    BY <1>1, <1>2
  <2>3. QED
    BY <1>3, <2>1, <2>2
<1>9. QED
  BY <1>7, <1>8

LEMMA Quotient ==
    ASSUME NEW a \in Nat, NEW b \in Nat \ {0}
    PROVE  /\ a \div b \in Nat /\ (a \div b) * b <= a
           /\ b <= a => a \div b # 0
OBVIOUS

\* Every level weighs something.
LEMMA WeightsWeigh == ASSUME NEW n \in Nat PROVE Weights(n) \in [1..n -> Nat \ {0}]
<1> DEFINE Goes(f, m) == f = [l \in 1..m |-> IF l = 1 THEN 1 ELSE Multiplier * f[l - 1]]
           S == {m \in 0..n : \E f \in [1..m -> Nat \ {0}] : Goes(f, m)}
           weight == CHOOSE f : Goes(f, n)
<1>1. 0 \in S
  <2>1. PICK f : f = [l \in 1..0 |-> 1]
    OBVIOUS
  <2>2. f \in [1..0 -> Nat \ {0}] /\ Goes(f, 0)
    BY <2>1
  <2>3. 0 \in 0..n
    OBVIOUS
  <2> HIDE DEF Goes
  <2>4. QED
    BY <2>2, <2>3
<1>2. ASSUME NEW m \in S, m + 1 \in 0..n PROVE m + 1 \in S
  <2>1. PICK f \in [1..m -> Nat \ {0}] : Goes(f, m)
    OBVIOUS
  <2>2. PICK g : g = [l \in 1..m + 1 |-> IF l = m + 1
                                         THEN IF m = 0 THEN 1 ELSE Multiplier * f[m] ELSE f[l]]
    OBVIOUS
  <2>3. m \in Nat /\ Multiplier \in Nat \ {0}
    BY <1>2, SimulatorAssumption
  <2>4. m # 0 => Multiplier * f[m] \in Nat \ {0}
    <3>1. SUFFICES ASSUME m # 0 PROVE Multiplier * f[m] \in Nat \ {0}
      OBVIOUS
    <3>2. f[m] \in Nat \ {0}
      BY <2>3, <3>1
    <3>3. QED
      BY <2>3, <3>2
  <2>5. g \in [1..m + 1 -> Nat \ {0}]
    <3>1. ASSUME NEW l \in 1..m + 1 PROVE g[l] \in Nat \ {0}
      <4>1. CASE l = m + 1
        BY <2>2, <2>4, <4>1
      <4>2. CASE l # m + 1
        <5>1. l \in 1..m
          BY <2>3, <4>2
        <5>2. QED
          BY <2>2, <4>2, <5>1
      <4>3. QED
        BY <4>1, <4>2
    <3>2. QED
      BY <2>2, <3>1
  <2>6. ASSUME NEW l \in 1..m + 1 PROVE g[l] = IF l = 1 THEN 1 ELSE Multiplier * g[l - 1]
    <3>1. CASE l = 1
      <4>1. m = 0 \/ f[1] = 1
        <5>1. m # 0 => 1 \in 1..m
          BY <2>3
        <5>2. QED
          BY <2>1, <5>1
      <4>2. QED
        BY <2>2, <2>3, <3>1, <4>1
    <3>2. CASE l # 1
      <4>1. l - 1 \in 1..m /\ l - 1 # m + 1 /\ m # 0
        BY <2>3, <3>2
      <4>2. g[l - 1] = f[l - 1]
        BY <2>2, <4>1
      <4>3. CASE l = m + 1
        BY <2>2, <2>3, <3>2, <4>1, <4>2, <4>3
      <4>4. CASE l # m + 1
        <5>1. l \in 1..m
          BY <2>3, <4>4
        <5>2. f[l] = Multiplier * f[l - 1]
          BY <2>1, <3>2, <5>1
        <5>3. QED
          BY <2>2, <3>2, <4>2, <4>4, <5>2
      <4>5. QED
        BY <4>3, <4>4
    <3>3. QED
      BY <3>1, <3>2
  <2>7. Goes(g, m + 1)
    BY <2>2, <2>6
  <2> HIDE DEF Goes
  <2>8. QED
    BY <1>2, <2>5, <2>7
<1>3. n \in S
  <2>1. 0..n \subseteq S
    <3> HIDE DEF S
    <3>1. QED
      BY <1>1, <1>2, Upwards
  <2> HIDE DEF S
  <2>2. QED
    BY <2>1
<1>4. \E f : Goes(f, n)
  BY <1>3
<1>5. PICK f : f = weight /\ Goes(f, n)
  BY <1>4
<1>6. Weights(n) = f
  BY <1>5, Zenon DEF Weights
<1> HIDE DEF weight
<1>7. PICK g \in [1..n -> Nat \ {0}] : Goes(g, n)
  BY <1>3
<1>8. \A l \in 1..n : /\ f[l] = IF l = 1 THEN 1 ELSE Multiplier * f[l - 1]
                      /\ g[l] = IF l = 1 THEN 1 ELSE Multiplier * g[l - 1]
  BY <1>5, <1>7
<1> HIDE DEF Goes, S
<1> DEFINE U == {m \in 0..n : \A l \in 1..m : f[l] = g[l]}
<1>9. 0 \in U
  OBVIOUS
<1>10. ASSUME NEW m \in U, m + 1 \in 0..n PROVE m + 1 \in U
  <2>1. m \in Nat /\ m + 1 \in 1..n /\ (m + 1) - 1 = m
    BY <1>10
  <2>2. /\ f[m + 1] = IF m + 1 = 1 THEN 1 ELSE Multiplier * f[(m + 1) - 1]
        /\ g[m + 1] = IF m + 1 = 1 THEN 1 ELSE Multiplier * g[(m + 1) - 1]
    BY <1>8, <2>1
  <2>3. m + 1 # 1 => m \in 1..m
    BY <2>1
  <2>4. f[m + 1] = g[m + 1]
    BY <2>1, <2>2, <2>3
  <2>5. ASSUME NEW l \in 1..m + 1 PROVE f[l] = g[l]
    <3>1. l = m + 1 \/ l \in 1..m
      BY <2>1
    <3>2. QED
      BY <2>4, <3>1
  <2>6. QED
    BY <1>10, <2>5
<1>11. n \in U
  <2>1. 0..n \subseteq U
    <3> HIDE DEF U
    <3>1. QED
      BY <1>9, <1>10, Upwards
  <2> HIDE DEF U
  <2>2. QED
    BY <2>1
<1>12. DOMAIN f = 1..n /\ f = [l \in DOMAIN f |-> f[l]]
  <2>1. f = [l \in 1..n |-> IF l = 1 THEN 1 ELSE Multiplier * f[l - 1]]
    BY <1>5 DEF Goes
  <2>2. QED
    BY <2>1, Zenon
<1>13. \A l \in 1..n : f[l] \in Nat \ {0}
  BY <1>11
<1> HIDE DEF U
<1>14. QED
  BY <1>6, <1>12, <1>13

\* What the levels up to m are given.
Given(p, m) == Sum([l \in 1..m |-> Allocation(p, l)])

\* The capital is enough for all levels.
LEMMA CapitalSuffices ==
    ASSUME NEW p, p.maxEntries \in Nat \ {0}
    PROVE  /\ \A l \in 1..p.maxEntries : Allocation(p, l) \in Nat
           /\ Given(p, 0) = 0
           /\ \A m \in 0..p.maxEntries : Given(p, m) \in Nat /\ Given(p, m) <= Capital
           /\ \A l \in 1..p.maxEntries : Given(p, l) = Given(p, l - 1) + Allocation(p, l)
<1>1. PICK N \in Nat \ {0} : N = p.maxEntries
  OBVIOUS
<1>2. PICK W \in [1..N -> Nat \ {0}] : W = Weights(p.maxEntries)
  BY <1>1, WeightsWeigh
<1>3. PICK h \in [0..N -> Int] : /\ Sum(W) = h[N] /\ h[0] = 0
                                 /\ \A k \in 1..N : h[k] = h[k - 1] + W[k]
  <2>1. W \in [1..N -> Int]
    OBVIOUS
  <2>2. QED
    BY <2>1, SumGrows
<1>4. PICK T \in Nat \ {0} : T = Sum(W)
  <2>1. W \in [1..N -> Nat] /\ 1 \in 1..N /\ W[1] \in Nat \ {0}
    OBVIOUS
  <2>2. Sum(W) \in Nat /\ W[1] <= Sum(W)
    BY <2>1, SumNat
  <2>3. QED
    BY <2>1, <2>2
<1>5. Capital \in Nat
  BY SimulatorAssumption
<1>6. ASSUME NEW l \in 1..N
      PROVE  Allocation(p, l) \in Nat /\ Allocation(p, l) * T <= Capital * W[l]
  <2>1. PICK w \in Nat : w = Capital * W[l]
    BY <1>5
  <2>2. Allocation(p, l) = w \div T
    BY <1>2, <1>4, <2>1 DEF Allocation
  <2>3. w \div T \in Nat /\ (w \div T) * T <= w
    BY Quotient
  <2>4. QED
    BY <2>1, <2>2, <2>3
<1> DEFINE a(m) == [l \in 1..m |-> Allocation(p, l)]
<1>7. ASSUME NEW m \in 0..N PROVE a(m) \in [1..m -> Int] /\ a(m) \in [1..m -> Nat]
  BY <1>6
<1>8. Given(p, 0) = 0
  <2>1. a(0) \in [1..0 -> Int]
    BY <1>7
  <2>2. QED
    BY <2>1, SumNone DEF Given
<1>9. ASSUME NEW l \in 1..N
      PROVE  Given(p, l) = Given(p, l - 1) + Allocation(p, l) /\ Given(p, l) \in Nat
  <2>1. PICK m \in 0..N : m = l - 1 /\ l = m + 1 /\ m \in Nat
    OBVIOUS
  <2>2. PICK x, y : x = a(l) /\ y = a(m)
    OBVIOUS
  <2>3. x \in [1..m + 1 -> Int] /\ y \in [1..m -> Int] /\ x[m + 1] = Allocation(p, l)
        /\ \A k \in 1..m : y[k] = x[k]
    <3>1. x \in [1..l -> Int] /\ y \in [1..m -> Int]
      <4>1. l \in 0..N
        OBVIOUS
      <4> HIDE DEF a
      <4>2. QED
        BY <1>7, <2>2, <4>1
    <3>2. QED
      BY <2>1, <2>2, <3>1
  <2>4. Sum(x) = Sum(y) + x[m + 1]
    BY <2>1, <2>3, SumNext
  <2>5. Sum(x) \in Nat
    <3>1. x \in [1..l -> Nat] /\ l \in Nat
      <4>1. l \in 0..N /\ l \in Nat
        OBVIOUS
      <4> HIDE DEF a
      <4>2. QED
        BY <1>7, <2>2, <4>1
    <3>2. QED
      BY <3>1, SumNat
  <2>6. QED
    BY <2>1, <2>2, <2>3, <2>4, <2>5 DEF Given
<1> HIDE DEF a
<1> DEFINE Good(m) == Given(p, m) \in Nat /\ Given(p, m) * T <= Capital * h[m]
           S == {m \in 0..N : Good(m)}
<1>10. 0 \in S
  BY <1>3, <1>5, <1>8
<1>11. ASSUME NEW m \in S, m + 1 \in 0..N PROVE m + 1 \in S
  <2>1. m + 1 \in 1..N /\ (m + 1) - 1 = m
    BY <1>11
  <2>2. Given(p, m + 1) = Given(p, m) + Allocation(p, m + 1) /\ Given(p, m + 1) \in Nat
    BY <1>9, <2>1
  <2>3. h[m + 1] = h[m] + W[m + 1] /\ W[m + 1] \in Nat /\ h[m] \in Int
    BY <1>3, <2>1
  <2>4. PICK b \in Nat, c \in Nat : b = Given(p, m) /\ c = Allocation(p, m + 1)
    BY <1>6, <2>1
  <2>5. b * T <= Capital * h[m] /\ c * T <= Capital * W[m + 1]
    BY <1>6, <2>1, <2>4
  <2>6. PICK x \in Int, y \in Nat : x = h[m] /\ y = W[m + 1]
    BY <2>3
  <2>7. (b + c) * T <= Capital * (x + y)
    <3>1. (b + c) * T = b * T + c * T /\ Capital * (x + y) = Capital * x + Capital * y
      BY <1>5
    <3>2. b * T \in Int /\ c * T \in Int /\ Capital * x \in Int /\ Capital * y \in Int
      BY <1>5
    <3>3. b * T <= Capital * x /\ c * T <= Capital * y
      BY <2>5, <2>6
    <3>4. PICK i \in Int, j \in Int, k \in Int, l \in Int :
             i = b * T /\ j = c * T /\ k = Capital * x /\ l = Capital * y
      BY <3>2
    <3>5. i + j <= k + l
      BY <3>3, <3>4
    <3>6. QED
      BY <3>1, <3>4, <3>5, Zenon
  <2>8. Good(m + 1)
    BY <2>2, <2>3, <2>4, <2>6, <2>7
  <2> HIDE DEF Good
  <2>9. QED
    BY <1>11, <2>8
<1>12. \A m \in 0..N : Good(m)
  <2> HIDE DEF Good
  <2>1. 0..N \subseteq S
    <3> HIDE DEF S
    <3>1. QED
      BY <1>10, <1>11, Upwards
  <2>2. QED
    BY <2>1
<1>13. ASSUME NEW m \in 0..N PROVE h[m] <= T
  <2> DEFINE U == {k \in 0..N : k < m \/ h[m] <= h[k]}
  <2>1. 0 \in U
    BY <1>3
  <2>2. ASSUME NEW k \in U, k + 1 \in 0..N PROVE k + 1 \in U
    <3>1. k + 1 \in 1..N /\ (k + 1) - 1 = k /\ k \in Nat
      BY <2>2
    <3>2. h[k + 1] = h[k] + W[k + 1] /\ W[k + 1] \in Nat /\ h[k] \in Int /\ h[m] \in Int
      BY <1>3, <3>1
    <3>3. CASE k < m /\ ~(k + 1 < m)
      <4>1. k + 1 = m
        BY <3>1, <3>3
      <4>2. QED
        BY <2>2, <3>2, <4>1
    <3>4. CASE ~(k < m)
      <4>1. h[m] <= h[k]
        BY <3>4
      <4>2. h[m] <= h[k + 1]
        BY <3>2, <4>1
      <4>3. QED
        BY <2>2, <4>2
    <3>5. QED
      BY <2>2, <3>3, <3>4
  <2>3. N \in U
    <3>1. 0..N \subseteq U
      <4> HIDE DEF U
      <4>1. QED
        BY <2>1, <2>2, Upwards
    <3> HIDE DEF U
    <3>2. QED
      BY <3>1
  <2>4. QED
    BY <1>3, <1>4, <2>3
<1>14. ASSUME NEW m \in 0..N PROVE Given(p, m) \in Nat /\ Given(p, m) <= Capital
  <2>1. PICK b \in Nat, x \in Int : b = Given(p, m) /\ x = h[m]
    BY <1>12
  <2>2. b * T <= Capital * x /\ x <= T
    BY <1>12, <1>13, <2>1
  <2>3. b * T <= Capital * T
    <3>1. Capital * x <= Capital * T
      BY <1>5, <2>2
    <3>2. QED
      BY <1>5, <2>2, <3>1
  <2>4. b <= Capital
    BY <1>5, <2>3
  <2>5. QED
    BY <2>1, <2>4
<1>15. QED
  BY <1>1, <1>6, <1>8, <1>9, <1>14

-----------------------------------------------------------------------------
(* The lists of a simulation *)

TradeRow == [type : Entries \cup Exits, level : Nat, slot : Nat, quantity : Nat, quote : Nat,
             pnl : Int]
LotRow == [level : Nat, quantity : Nat \ {0}, cost : Nat \ {0}]

Costs(independents) == Sum([k \in DOMAIN independents |-> independents[k].cost])

LEMMA ListAppended ==
    ASSUME NEW V, NEW s \in Seq(V), NEW x \in V
    PROVE  /\ Append(s, x) \in Seq(V) /\ Len(s) \in Nat /\ Len(Append(s, x)) = Len(s) + 1
           /\ DOMAIN s = 1..Len(s) /\ DOMAIN Append(s, x) = 1..Len(s) + 1
           /\ Append(s, x)[Len(s) + 1] = x
           /\ \A k \in 1..Len(s) : Append(s, x)[k] = s[k] /\ s[k] \in V
OBVIOUS

LEMMA ListRemoved ==
    ASSUME NEW V, NEW s \in Seq(V), NEW i \in DOMAIN s, NEW r, r = RemoveAt(s, i)
    PROVE  /\ r \in Seq(V) /\ Len(s) \in Nat \ {0} /\ Len(r) = Len(s) - 1
           /\ DOMAIN s = 1..Len(s) /\ DOMAIN r = 1..Len(s) - 1
           /\ \A k \in 1..Len(s) - 1 : r[k] = IF k < i THEN s[k] ELSE s[k + 1]
<1>1. PICK n \in Nat \ {0} : n = Len(s) /\ i \in 1..n /\ DOMAIN s = 1..n
  OBVIOUS
<1>2. PICK a, b : a = SubSeq(s, 1, i - 1) /\ b = SubSeq(s, i + 1, n)
  OBVIOUS
<1>3. /\ a \in Seq(V) /\ Len(a) = i - 1 /\ \A k \in 1..i - 1 : a[k] = s[k]
  <2>1. 1 \in Int /\ i - 1 \in Int /\ \A k \in 1..i - 1 : s[k] \in V
    BY <1>1
  <2>2. /\ a \in Seq(V) /\ Len(a) = IF 1 <= i - 1 THEN (i - 1) - 1 + 1 ELSE 0
        /\ \A k \in 1..Len(a) : a[k] = s[1 + k - 1]
    BY <1>2, <2>1, SubSeqProperties
  <2>3. Len(a) = i - 1
    BY <1>1, <2>2
  <2>4. ASSUME NEW k \in 1..i - 1 PROVE a[k] = s[k]
    <3>1. 1 + k - 1 = k
      OBVIOUS
    <3>2. QED
      BY <2>2, <2>3, <3>1
  <2>5. QED
    BY <2>2, <2>3, <2>4
<1>4. /\ b \in Seq(V) /\ Len(b) = n - i /\ \A k \in 1..n - i : b[k] = s[i + k]
  <2>1. i + 1 \in Int /\ n \in Int /\ \A k \in i + 1..n : s[k] \in V
    BY <1>1
  <2>2. /\ b \in Seq(V) /\ Len(b) = IF i + 1 <= n THEN n - (i + 1) + 1 ELSE 0
        /\ \A k \in 1..Len(b) : b[k] = s[i + 1 + k - 1]
    BY <1>2, <2>1, SubSeqProperties
  <2>3. Len(b) = n - i
    BY <1>1, <2>2
  <2>4. ASSUME NEW k \in 1..n - i PROVE b[k] = s[i + k]
    <3>1. i + 1 + k - 1 = i + k
      BY <1>1
    <3>2. QED
      BY <2>2, <2>3, <3>1
  <2>5. QED
    BY <2>2, <2>3, <2>4
<1>5. r = a \o b
  BY <1>1, <1>2 DEF RemoveAt
<1>6. /\ r \in Seq(V) /\ Len(r) = (i - 1) + (n - i)
      /\ \A k \in 1..(i - 1) + (n - i) : r[k] = IF k <= i - 1 THEN a[k] ELSE b[k - (i - 1)]
  <2>1. PICK u \in Nat, v \in Nat : u = i - 1 /\ v = n - i
    BY <1>1
  <2>2. a \in Seq(V) /\ Len(a) = u /\ b \in Seq(V) /\ Len(b) = v
    BY <1>3, <1>4, <2>1
  <2>3. /\ r \in Seq(V) /\ Len(r) = u + v
        /\ \A k \in 1..u + v : r[k] = IF k <= u THEN a[k] ELSE b[k - u]
    BY <1>5, <2>2, ConcatProperties
  <2>4. QED
    BY <2>1, <2>3
<1>7. (i - 1) + (n - i) = n - 1
  BY <1>1
<1>8. ASSUME NEW k \in 1..n - 1 PROVE r[k] = IF k < i THEN s[k] ELSE s[k + 1]
  <2>1. r[k] = IF k <= i - 1 THEN a[k] ELSE b[k - (i - 1)]
    BY <1>6, <1>7
  <2>2. CASE k < i
    <3>1. k \in 1..i - 1 /\ k <= i - 1
      BY <1>1, <2>2
    <3>2. QED
      BY <1>3, <2>1, <2>2, <3>1
  <2>3. CASE ~(k < i)
    <3>1. ~(k <= i - 1) /\ k - (i - 1) \in 1..n - i /\ i + (k - (i - 1)) = k + 1
      BY <1>1, <2>3
    <3>2. QED
      BY <1>4, <2>1, <2>3, <3>1
  <2>4. QED
    BY <2>2, <2>3
<1>9. DOMAIN r = 1..n - 1 /\ Len(r) = n - 1
  BY <1>6, <1>7
<1>10. QED
  BY <1>1, <1>6, <1>8, <1>9

LEMMA StockIs ==
    ASSUME NEW s \in Seq(LotRow)
    PROVE  /\ Loose(s) \in Nat /\ Costs(s) \in Nat
           /\ \A k \in DOMAIN s : s[k].quantity <= Loose(s) /\ s[k].cost <= Costs(s)
<1>1. PICK n \in Nat : n = Len(s) /\ DOMAIN s = 1..n
  OBVIOUS
<1>2. PICK q, c : q = [k \in DOMAIN s |-> s[k].quantity] /\ c = [k \in DOMAIN s |-> s[k].cost]
  OBVIOUS
<1>3. \A k \in 1..n : s[k] \in LotRow
  BY <1>1
<1>4. q \in [1..n -> Nat] /\ c \in [1..n -> Nat]
  BY <1>1, <1>2, <1>3 DEF LotRow
<1>5. Sum(q) \in Nat /\ Sum(c) \in Nat /\ \A k \in 1..n : q[k] <= Sum(q) /\ c[k] <= Sum(c)
  BY <1>4, SumNat
<1>6. QED
  BY <1>1, <1>2, <1>5 DEF Loose, Costs

\* One more lot is added to the stock, or one is taken from it.
LEMMA StockAppended ==
    ASSUME NEW s \in Seq(LotRow), NEW x \in LotRow
    PROVE  /\ Loose(Append(s, x)) = Loose(s) + x.quantity
           /\ Costs(Append(s, x)) = Costs(s) + x.cost
<1>1. PICK n \in Nat : n = Len(s) /\ DOMAIN s = 1..n
  OBVIOUS
<1>2. PICK t : t = Append(s, x)
  OBVIOUS
<1>3. /\ t \in Seq(LotRow) /\ DOMAIN t = 1..n + 1 /\ t[n + 1] = x
      /\ \A k \in 1..n : t[k] = s[k] /\ s[k] \in LotRow
  BY <1>1, <1>2
<1>4. PICK q, c, r, d : /\ q = [k \in DOMAIN s |-> s[k].quantity] /\ c = [k \in DOMAIN s |-> s[k].cost]
                        /\ r = [k \in DOMAIN t |-> t[k].quantity] /\ d = [k \in DOMAIN t |-> t[k].cost]
  OBVIOUS
<1>5. \A k \in 1..n + 1 : t[k] \in LotRow
  BY <1>3
<1>6. q \in [1..n -> Int] /\ c \in [1..n -> Int] /\ r \in [1..n + 1 -> Int] /\ d \in [1..n + 1 -> Int]
  BY <1>1, <1>3, <1>4, <1>5 DEF LotRow
<1>7. n + 1 \in 1..n + 1 /\ \A k \in 1..n : k \in 1..n + 1
  OBVIOUS
<1>8. r[n + 1] = x.quantity /\ d[n + 1] = x.cost /\ \A k \in 1..n : q[k] = r[k] /\ c[k] = d[k]
  BY <1>1, <1>3, <1>4, <1>7
<1>9. Sum(r) = Sum(q) + r[n + 1] /\ Sum(d) = Sum(c) + d[n + 1]
  BY <1>6, <1>8, SumNext
<1>10. QED
  BY <1>2, <1>4, <1>8, <1>9 DEF Loose, Costs

LEMMA StockRemoved ==
    ASSUME NEW s \in Seq(LotRow), NEW i \in DOMAIN s
    PROVE  /\ Loose(RemoveAt(s, i)) = Loose(s) - s[i].quantity
           /\ Costs(RemoveAt(s, i)) = Costs(s) - s[i].cost
<1>1. PICK t : t = RemoveAt(s, i)
  OBVIOUS
<1>2. PICK m \in Nat : m + 1 = Len(s) /\ m = Len(s) - 1
  OBVIOUS
<1>3. /\ t \in Seq(LotRow) /\ DOMAIN s = 1..m + 1 /\ DOMAIN t = 1..m
      /\ \A k \in 1..m : t[k] = IF k < i THEN s[k] ELSE s[k + 1]
  BY <1>1, <1>2, ListRemoved
<1>4. PICK q, c, r, d : /\ q = [k \in DOMAIN s |-> s[k].quantity] /\ c = [k \in DOMAIN s |-> s[k].cost]
                        /\ r = [k \in DOMAIN t |-> t[k].quantity] /\ d = [k \in DOMAIN t |-> t[k].cost]
  OBVIOUS
<1>5. (\A k \in 1..m : t[k] \in LotRow) /\ \A k \in 1..m + 1 : s[k] \in LotRow
  BY <1>3
<1>6. q \in [1..m + 1 -> Int] /\ c \in [1..m + 1 -> Int] /\ r \in [1..m -> Int] /\ d \in [1..m -> Int]
  BY <1>3, <1>4, <1>5 DEF LotRow
<1>7. i \in 1..m + 1 /\ \A k \in 1..m : k \in 1..m + 1 /\ k + 1 \in 1..m + 1
  BY <1>3
<1>8. \A k \in 1..m : /\ r[k] = IF k < i THEN q[k] ELSE q[k + 1]
                      /\ d[k] = IF k < i THEN c[k] ELSE c[k + 1]
  BY <1>3, <1>4, <1>7
<1>9. Sum(q) = Sum(r) + q[i] /\ Sum(c) = Sum(d) + c[i] /\ Sum(r) \in Int /\ Sum(d) \in Int
  BY <1>6, <1>7, <1>8, SumWithout
<1>10. q[i] = s[i].quantity /\ c[i] = s[i].cost /\ q[i] \in Int /\ c[i] \in Int
  BY <1>3, <1>4, <1>6, <1>7
<1>11. Sum(r) = Sum(q) - q[i] /\ Sum(d) = Sum(c) - c[i]
  BY <1>9, <1>10
<1>12. QED
  BY <1>1, <1>4, <1>10, <1>11 DEF Loose, Costs

\* What one trade more makes of the sums over the list.
AddsUp(s, t, x, n, K, L) ==
    /\ Spent(t, L) = Spent(s, K) + (IF n \in L THEN Paid(x) ELSE 0)
    /\ Held(t, L) = Held(s, K) + (IF n \in L THEN Got(x) ELSE 0)
    /\ Profit(t, L) = Profit(s, K) + (IF n \in L THEN x.pnl ELSE 0)
    /\ Spent(s, K) \in Int /\ Held(s, K) \in Int /\ Profit(s, K) \in Int
    /\ Paid(x) \in Int /\ Got(x) \in Int /\ x.pnl \in Int

LEMMA TradeAdds ==
    ASSUME NEW s \in Seq(TradeRow), NEW x \in TradeRow, NEW n, n = Len(s) + 1,
           NEW t, t = Append(s, x), NEW K, NEW L, \A k \in DOMAIN s : k \in K <=> k \in L
    PROVE  AddsUp(s, t, x, n, K, L)
<1>1. PICK m \in Nat : m = Len(s) /\ n = m + 1 /\ DOMAIN s = 1..m
  OBVIOUS
<1>2. /\ DOMAIN t = 1..m + 1 /\ t[m + 1] = x
      /\ \A k \in 1..m : t[k] = s[k] /\ s[k] \in TradeRow
  BY <1>1
<1>3. \A y \in TradeRow : Paid(y) \in Int /\ Got(y) \in Int /\ y.pnl \in Int
  BY DEF TradeRow, Paid, Got
<1>4. PICK a, b, c, d, e, f :
        /\ a = [k \in DOMAIN s |-> IF k \in K THEN Paid(s[k]) ELSE 0]
        /\ b = [k \in DOMAIN t |-> IF k \in L THEN Paid(t[k]) ELSE 0]
        /\ c = [k \in DOMAIN s |-> IF k \in K THEN Got(s[k]) ELSE 0]
        /\ d = [k \in DOMAIN t |-> IF k \in L THEN Got(t[k]) ELSE 0]
        /\ e = [k \in DOMAIN s |-> IF k \in K THEN s[k].pnl ELSE 0]
        /\ f = [k \in DOMAIN t |-> IF k \in L THEN t[k].pnl ELSE 0]
  OBVIOUS
<1>5. m + 1 \in 1..m + 1 /\ \A k \in 1..m + 1 : k \in 1..m \/ k = m + 1
  OBVIOUS
<1>6. \A k \in 1..m + 1 : t[k] \in TradeRow
  BY <1>2, <1>5
<1>7. /\ a \in [1..m -> Int] /\ b \in [1..m + 1 -> Int]
      /\ c \in [1..m -> Int] /\ d \in [1..m + 1 -> Int]
      /\ e \in [1..m -> Int] /\ f \in [1..m + 1 -> Int]
  BY <1>1, <1>2, <1>3, <1>4, <1>6
<1>8. \A k \in 1..m : a[k] = b[k] /\ c[k] = d[k] /\ e[k] = f[k]
  <2>1. ASSUME NEW k \in 1..m PROVE a[k] = b[k] /\ c[k] = d[k] /\ e[k] = f[k]
    <3>1. k \in DOMAIN s /\ k \in DOMAIN t /\ t[k] = s[k] /\ (k \in K <=> k \in L)
      BY <1>1, <1>2
    <3>2. QED
      BY <1>4, <3>1
  <2>2. QED
    BY <2>1
<1>9. /\ b[n] = IF n \in L THEN Paid(x) ELSE 0
      /\ d[n] = IF n \in L THEN Got(x) ELSE 0
      /\ f[n] = IF n \in L THEN x.pnl ELSE 0
  BY <1>1, <1>2, <1>4, <1>5
<1>10. /\ Sum(b) = Sum(a) + b[n] /\ Sum(d) = Sum(c) + d[n] /\ Sum(f) = Sum(e) + f[n]
       /\ Sum(a) \in Int /\ Sum(c) \in Int /\ Sum(e) \in Int
  <2>1. Sum(b) = Sum(a) + b[m + 1] /\ Sum(a) \in Int
    BY <1>7, <1>8, SumNext
  <2>2. Sum(d) = Sum(c) + d[m + 1] /\ Sum(c) \in Int
    BY <1>7, <1>8, SumNext
  <2>3. Sum(f) = Sum(e) + f[m + 1] /\ Sum(e) \in Int
    BY <1>7, <1>8, SumNext
  <2>4. QED
    BY <1>1, <2>1, <2>2, <2>3
<1>11. /\ Spent(s, K) = Sum(a) /\ Held(s, K) = Sum(c) /\ Profit(s, K) = Sum(e)
       /\ Spent(t, L) = Sum(b) /\ Held(t, L) = Sum(d) /\ Profit(t, L) = Sum(f)
  BY <1>4, Zenon DEF Spent, Held, Profit
<1>12. QED
  BY <1>3, <1>9, <1>10, <1>11 DEF AddsUp

LEMMA SumsAre ==
    ASSUME NEW s \in Seq(TradeRow), NEW K
    PROVE  Spent(s, K) \in Int /\ Held(s, K) \in Int /\ Profit(s, K) \in Int
<1>1. PICK m \in Nat : m = Len(s) /\ DOMAIN s = 1..m /\ \A k \in 1..m : s[k] \in TradeRow
  OBVIOUS
<1>2. \A y \in TradeRow : Paid(y) \in Int /\ Got(y) \in Int /\ y.pnl \in Int
  BY DEF TradeRow, Paid, Got
<1>3. PICK a, c, e :
        /\ a = [k \in DOMAIN s |-> IF k \in K THEN Paid(s[k]) ELSE 0]
        /\ c = [k \in DOMAIN s |-> IF k \in K THEN Got(s[k]) ELSE 0]
        /\ e = [k \in DOMAIN s |-> IF k \in K THEN s[k].pnl ELSE 0]
  OBVIOUS
<1>4. a \in [1..m -> Int] /\ c \in [1..m -> Int] /\ e \in [1..m -> Int]
  BY <1>1, <1>2, <1>3
<1>5. Sum(a) \in Int /\ Sum(c) \in Int /\ Sum(e) \in Int
  BY <1>4, SumType
<1>6. QED
  BY <1>3, <1>5, Zenon DEF Spent, Held, Profit

-----------------------------------------------------------------------------
(* What a trade makes of the state *)

PointRow == [slot : Nat, equity : Int, drawdown : Int \X Int]
StateRow == [quote : Nat, quantity : Nat, cost : Nat, independents : Seq(LotRow), entries : Nat,
             exits : Nat, peak : Int, drawdown : Int \X Int, trades : Seq(TradeRow),
             equity : Seq(PointRow)]

Playable(p) == p.maxEntries \in Nat \ {0} /\ p.from \in Nat /\ p.from >= 2 /\ p.target \in Nat

\* The balance has what is not given away yet; a position that holds nothing cost nothing.
Kept(p, s) ==
    /\ s \in StateRow
    /\ s.quantity = 0 <=> s.cost = 0
    /\ s.entries <= p.maxEntries
    /\ Capital <= s.quote + Given(p, s.entries)

Traded(s, t, x) ==
    /\ x \in TradeRow
    /\ t.trades = Append(s.trades, x)
    /\ t.quote = s.quote - Paid(x)
    /\ t.equity = s.equity

LotOf(x) == [level |-> x.level, quantity |-> x.quantity, cost |-> x.quote]

Bought(p, candle, s, t, x) ==
    /\ x.type \in Entries /\ x.slot = candle.slot /\ x.pnl = 0
    /\ x.level = s.entries + 1 /\ x.level <= p.maxEntries /\ t.entries = x.level
    /\ x.quantity # 0 /\ x.quantity * candle.close <= x.quote
    /\ IF x.type = "PARENT_ENTRY"
       THEN /\ t.quantity = s.quantity + x.quantity /\ t.cost = s.cost + x.quote
            /\ t.independents = s.independents
       ELSE /\ t.quantity = s.quantity /\ t.cost = s.cost
            /\ t.independents = Append(s.independents, LotOf(x))

SoldAll(candle, s, t, x) ==
    /\ x.type = "PARENT_EXIT" /\ x.slot = candle.slot /\ x.pnl > 0
    /\ x.level <= s.entries /\ t.entries = s.entries
    /\ x.quantity = s.quantity /\ x.quote - x.pnl = s.cost
    /\ t.quantity = 0 /\ t.cost = 0 /\ t.independents = s.independents

SoldOne(candle, s, t, x) ==
    /\ x.type = "INDEPENDENT_EXIT" /\ x.slot = candle.slot /\ x.pnl > 0
    /\ t.entries = s.entries /\ t.quantity = s.quantity /\ t.cost = s.cost
    /\ \E i \in DOMAIN s.independents :
         /\ x.level = s.independents[i].level /\ x.quantity = s.independents[i].quantity
         /\ x.quote - x.pnl = s.independents[i].cost
         /\ t.independents = RemoveAt(s.independents, i)

\* A level that is entered is given what is allocated to it, whatever was sold before.
LEMMA EnterBuys ==
    ASSUME NEW p, Playable(p), NEW s, Kept(p, s), NEW candle \in Candle, NEW first,
           NEW level \in 1..p.maxEntries, Allocation(p, level) >= candle.close,
           NEW t, t = Enter(p, first, candle, s, level), t # s
    PROVE  /\ Kept(p, t) /\ level = s.entries + 1 /\ Reached(candle.close, first, level)
           /\ \E x : Traded(s, t, x) /\ Bought(p, candle, s, t, x)
<1> DEFINE allocation == Allocation(p, level)
           spend == IF allocation < s.quote THEN allocation ELSE s.quote
           bought == spend \div candle.close
           alone == level >= p.from
           lot == [level |-> level, quantity |-> bought, cost |-> spend]
           trade == [type |-> IF alone THEN "INDEPENDENT_ENTRY" ELSE "PARENT_ENTRY",
                     level |-> level, slot |-> candle.slot, quantity |-> bought,
                     quote |-> spend, pnl |-> 0]
<1>1. /\ level = s.entries + 1 /\ Reached(candle.close, first, level)
      /\ t = [s EXCEPT
           !.quote = @ - spend,
           !.entries = level,
           !.quantity = IF alone THEN @ ELSE @ + bought,
           !.cost = IF alone THEN @ ELSE @ + spend,
           !.independents = IF ~alone THEN @ ELSE Append(@, lot),
           !.trades = Append(@, trade)]
  BY Zenon DEF Enter
<1>2. /\ s \in StateRow /\ (s.quantity = 0 <=> s.cost = 0) /\ s.quote \in Nat /\ s.entries \in Nat
      /\ s.quantity \in Nat /\ s.cost \in Nat
      /\ Capital <= s.quote + Given(p, s.entries)
  BY DEF Kept, StateRow
<1>3. level \in Nat /\ candle.close \in Nat \ {0} /\ candle.slot \in Nat /\ Capital \in Nat
  BY SimulatorAssumption DEF Playable, Candle
<1>4. /\ allocation \in Nat /\ allocation <= s.quote
      /\ Given(p, level) \in Nat /\ Given(p, level) = Given(p, s.entries) + allocation
  <2>1. p.maxEntries \in Nat \ {0} /\ level - 1 = s.entries /\ s.entries \in 0..p.maxEntries
        /\ level \in 0..p.maxEntries
    BY <1>1, <1>2 DEF Playable
  <2>2. /\ Given(p, level) = Given(p, s.entries) + allocation /\ Given(p, level) <= Capital
        /\ Given(p, level) \in Nat /\ Given(p, s.entries) \in Nat /\ allocation \in Nat
    BY <2>1, CapitalSuffices
  <2> HIDE DEF allocation
  <2>3. QED
    BY <1>2, <1>3, <2>2
<1>5. PICK a \in Nat \ {0} : a = allocation /\ candle.close <= a
  BY <1>3, <1>4
<1>6. spend = a
  <2> HIDE DEF allocation
  <2>1. QED
    BY <1>2, <1>4, <1>5
<1>7. PICK b \in Nat \ {0} : b = bought /\ b * candle.close <= a
  BY <1>3, <1>5, <1>6, Quotient
<1> HIDE DEF allocation, spend, bought
<1>8. PICK x : x = trade
  OBVIOUS
<1>9. /\ x.type = (IF alone THEN "INDEPENDENT_ENTRY" ELSE "PARENT_ENTRY") /\ x.level = level
      /\ x.slot = candle.slot /\ x.quantity = b /\ x.quote = a /\ x.pnl = 0 /\ x \in TradeRow
      /\ x.type \in Entries
  BY <1>3, <1>5, <1>6, <1>7, <1>8 DEF TradeRow, Entries
<1>10. PICK u, c, i : /\ u = IF alone THEN s.quantity ELSE s.quantity + b
                      /\ c = IF alone THEN s.cost ELSE s.cost + a
                      /\ i = IF ~alone THEN s.independents ELSE Append(s.independents, LotOf(x))
  OBVIOUS
<1>11. lot = LotOf(x)
  BY <1>6, <1>7, <1>9 DEF LotOf
<1> HIDE DEF trade, lot, alone
<1>12. t = [s EXCEPT !.quote = s.quote - a, !.entries = level, !.quantity = u, !.cost = c,
                     !.independents = i, !.trades = Append(s.trades, x)]
  BY <1>1, <1>6, <1>7, <1>8, <1>10, <1>11
<1>13. /\ s.quote - a \in Nat /\ u \in Nat /\ c \in Nat /\ (u = 0 <=> c = 0)
  <2>1. s.quote - a \in Nat
    BY <1>2, <1>4, <1>5
  <2>2. CASE alone
    BY <1>2, <1>10, <2>1, <2>2
  <2>3. CASE ~alone
    BY <1>2, <1>10, <2>1, <2>3
  <2>4. QED
    BY <2>2, <2>3
<1>14. i \in Seq(LotRow)
  <2>1. LotOf(x) \in LotRow /\ s.independents \in Seq(LotRow)
    BY <1>2, <1>3, <1>9 DEF LotOf, LotRow, StateRow
  <2>2. Append(s.independents, LotOf(x)) \in Seq(LotRow)
    BY <2>1, ListAppended
  <2>3. QED
    BY <1>10, <2>1, <2>2
<1>15. Append(s.trades, x) \in Seq(TradeRow)
  BY <1>2, <1>9, ListAppended DEF StateRow
<1>16. t \in StateRow
  BY <1>2, <1>3, <1>12, <1>13, <1>14, <1>15 DEF StateRow
<1>17. /\ t.quote = s.quote - a /\ t.entries = level /\ t.quantity = u /\ t.cost = c
       /\ t.independents = i /\ t.trades = Append(s.trades, x) /\ t.equity = s.equity
  BY <1>2, <1>12 DEF StateRow
<1>18. Kept(p, t)
  <2>1. Capital <= t.quote + Given(p, t.entries)
    <3>1. PICK g, h : g = Given(p, s.entries) /\ h = Given(p, level)
      OBVIOUS
    <3>2. h = g + a /\ h \in Nat /\ g \in Int /\ Capital <= s.quote + g
      <4>1. s.entries \in 0..p.maxEntries /\ p.maxEntries \in Nat \ {0}
        BY <1>1, <1>2 DEF Playable
      <4>2. g \in Int
        BY <3>1, <4>1, CapitalSuffices
      <4>3. QED
        BY <1>2, <1>4, <1>5, <3>1, <4>2
    <3>3. Capital <= (s.quote - a) + h
      BY <1>2, <1>3, <3>2
    <3>4. QED
      BY <1>17, <3>1, <3>3
  <2>2. t.entries <= p.maxEntries
    BY <1>17 DEF Playable
  <2>3. QED
    BY <1>13, <1>16, <1>17, <2>1, <2>2 DEF Kept
<1>19. Traded(s, t, x)
  BY <1>9, <1>17 DEF Traded, Paid
<1>20. Bought(p, candle, s, t, x)
  <2>1. x.level <= p.maxEntries
    BY <1>9 DEF Playable
  <2>2. x.quantity # 0 /\ x.quantity * candle.close <= x.quote
    BY <1>7, <1>9
  <2>3. x.type = "PARENT_ENTRY" <=> ~alone
    BY <1>9
  <2>4. QED
    BY <1>1, <1>9, <1>10, <1>17, <2>1, <2>2, <2>3 DEF Bought
<1>21. QED
  BY <1>1, <1>18, <1>19, <1>20

\* What is sold with a profit is sold for more than it cost.
LEMMA ProfitIsPositive ==
    ASSUME NEW p, Playable(p), p.target # 0, NEW price \in Nat, NEW quantity \in Nat,
           NEW cost \in Nat \ {0}, Profitable(p, price, quantity, cost)
    PROVE  quantity * price > cost
<1>1. PICK g \in Nat \ {0} : g = p.target
  BY DEF Playable
<1>2. price * quantity * 100 >= cost * (100 + g)
  BY <1>1 DEF Profitable
<1>3. PICK a \in Nat : a = quantity * price /\ price * quantity = a
  OBVIOUS
<1>4. cost * (100 + g) = cost * 100 + cost * g /\ cost * g >= 1 /\ cost * g \in Nat
  OBVIOUS
<1>5. a * 100 > cost * 100
  BY <1>2, <1>3, <1>4
<1>6. QED
  BY <1>3, <1>5

LEMMA ExitSells ==
    ASSUME NEW p, Playable(p), p.target # 0, NEW s, Kept(p, s), NEW candle \in Candle,
           NEW t, t = ExitParent(p, candle, s), t # s
    PROVE  /\ Kept(p, t) /\ Profitable(p, candle.close, s.quantity, s.cost) /\ s.quantity # 0
           /\ \E x : Traded(s, t, x) /\ SoldAll(candle, s, t, x)
<1> DEFINE last == IF s.entries < p.from - 1 THEN s.entries ELSE p.from - 1
           sale == Sale("PARENT_EXIT", last, candle, s.quantity, s.cost)
<1>1. /\ s.quantity # 0 /\ Profitable(p, candle.close, s.quantity, s.cost)
      /\ t = [s EXCEPT !.quote = @ + s.quantity * candle.close, !.exits = @ + 1,
                       !.quantity = 0, !.cost = 0, !.trades = Append(@, sale)]
  BY Zenon DEF ExitParent
<1>2. /\ s \in StateRow /\ (s.quantity = 0 <=> s.cost = 0) /\ s.quote \in Nat /\ s.entries \in Nat
      /\ s.quantity \in Nat /\ s.cost \in Nat /\ s.exits \in Nat /\ s.entries <= p.maxEntries
      /\ Capital <= s.quote + Given(p, s.entries)
  BY DEF Kept, StateRow
<1>3. candle.close \in Nat \ {0} /\ candle.slot \in Nat
  BY DEF Candle
<1>4. PICK w \in Nat : w = s.quantity * candle.close /\ w > s.cost
  <2>1. s.cost \in Nat \ {0}
    BY <1>1, <1>2
  <2>2. QED
    BY <1>1, <1>2, <1>3, <2>1, ProfitIsPositive
<1>5. PICK l \in Nat : l = last /\ l <= s.entries
  BY <1>2 DEF Playable
<1> HIDE DEF last
<1>6. PICK x : x = sale
  OBVIOUS
<1>7. /\ x.type = "PARENT_EXIT" /\ x.level = l /\ x.slot = candle.slot /\ x.quantity = s.quantity
      /\ x.quote = w /\ x.pnl = w - s.cost /\ x \in TradeRow
  BY <1>2, <1>3, <1>4, <1>5, <1>6 DEF Sale, TradeRow, Exits
<1> HIDE DEF sale
<1>8. t = [s EXCEPT !.quote = s.quote + w, !.exits = s.exits + 1, !.quantity = 0, !.cost = 0,
                    !.trades = Append(s.trades, x)]
  BY <1>1, <1>4, <1>6
<1>9. Append(s.trades, x) \in Seq(TradeRow)
  BY <1>2, <1>7, ListAppended DEF StateRow
<1>10. t \in StateRow
  <2>1. s.quote + w \in Nat /\ s.exits + 1 \in Nat /\ 0 \in Nat
    BY <1>2, <1>4
  <2>2. PICK q \in Nat, e \in Nat, y \in Seq(TradeRow), z \in Nat :
           q = s.quote + w /\ e = s.exits + 1 /\ y = Append(s.trades, x) /\ z = 0
    BY <1>9, <2>1, Zenon
  <2>3. t = [s EXCEPT !.quote = q, !.exits = e, !.quantity = z, !.cost = z, !.trades = y]
    BY <1>8, <2>2
  <2>4. QED
    BY <1>2, <2>3 DEF StateRow
<1>11. /\ t.quote = s.quote + w /\ t.entries = s.entries /\ t.quantity = 0 /\ t.cost = 0
       /\ t.independents = s.independents /\ t.trades = Append(s.trades, x) /\ t.equity = s.equity
  BY <1>2, <1>8 DEF StateRow
<1>12. Kept(p, t)
  <2>1. Capital <= t.quote + Given(p, t.entries)
    <3>1. PICK g \in Int : g = Given(p, s.entries)
      <4>1. s.entries \in 0..p.maxEntries /\ p.maxEntries \in Nat \ {0}
        BY <1>2 DEF Playable
      <4>2. QED
        BY <4>1, CapitalSuffices
    <3>2. Capital \in Nat
      BY SimulatorAssumption
    <3>3. Capital <= (s.quote + w) + g
      BY <1>2, <1>4, <3>1, <3>2
    <3>4. QED
      BY <1>11, <3>1, <3>3
  <2>2. QED
    BY <1>2, <1>10, <1>11, <2>1 DEF Kept
<1>13. Traded(s, t, x)
  <2>1. Paid(x) = -w
    BY <1>4, <1>7 DEF Paid, Entries
  <2>2. t.quote = s.quote - Paid(x)
    BY <1>2, <1>4, <1>11, <2>1
  <2>3. QED
    BY <1>7, <1>11, <2>2 DEF Traded
<1>14. SoldAll(candle, s, t, x)
  <2>1. x.pnl > 0 /\ x.quote - x.pnl = s.cost
    BY <1>2, <1>4, <1>7
  <2>2. QED
    BY <1>5, <1>7, <1>11, <2>1 DEF SoldAll
<1>15. QED
  BY <1>1, <1>12, <1>13, <1>14

LEMMA SellSells ==
    ASSUME NEW p, Playable(p), p.target # 0, NEW s, Kept(p, s), NEW candle \in Candle,
           NEW index \in DOMAIN s.independents,
           NEW t, t = SellIndependent(p, candle, s, index), t # s
    PROVE  /\ Kept(p, t) /\ t.independents = RemoveAt(s.independents, index)
           /\ Profitable(p, candle.close, s.independents[index].quantity, s.independents[index].cost)
           /\ \E x : Traded(s, t, x) /\ SoldOne(candle, s, t, x)
<1>1. PICK i : i = s.independents[index]
  OBVIOUS
<1> DEFINE sale == Sale("INDEPENDENT_EXIT", i.level, candle, i.quantity, i.cost)
<1>2. /\ Profitable(p, candle.close, i.quantity, i.cost)
      /\ t = [s EXCEPT !.quote = @ + i.quantity * candle.close, !.exits = @ + 1,
                       !.independents = Spliced(@, index), !.trades = Append(@, sale)]
  BY <1>1, Zenon DEF SellIndependent
<1>3. /\ s \in StateRow /\ (s.quantity = 0 <=> s.cost = 0) /\ s.quote \in Nat /\ s.entries \in Nat
      /\ s.quantity \in Nat /\ s.cost \in Nat /\ s.exits \in Nat /\ s.entries <= p.maxEntries
      /\ s.independents \in Seq(LotRow) /\ Capital <= s.quote + Given(p, s.entries)
  BY DEF Kept, StateRow
<1>4. candle.close \in Nat \ {0} /\ candle.slot \in Nat
  BY DEF Candle
<1>5. i \in LotRow /\ i.level \in Nat /\ i.quantity \in Nat \ {0} /\ i.cost \in Nat \ {0}
  <2>1. i \in LotRow
    BY <1>1, <1>3
  <2>2. QED
    BY <2>1 DEF LotRow
<1>6. PICK w \in Nat : w = i.quantity * candle.close /\ w > i.cost
  BY <1>2, <1>4, <1>5, ProfitIsPositive
<1>7. PICK x : x = sale
  OBVIOUS
<1>8. /\ x.type = "INDEPENDENT_EXIT" /\ x.level = i.level /\ x.slot = candle.slot
      /\ x.quantity = i.quantity /\ x.quote = w /\ x.pnl = w - i.cost /\ x \in TradeRow
  BY <1>4, <1>5, <1>6, <1>7 DEF Sale, TradeRow, Exits
<1>9. PICK r : r = RemoveAt(s.independents, index) /\ r \in Seq(LotRow)
  BY <1>3, ListRemoved
<1> HIDE DEF sale
<1>10. t = [s EXCEPT !.quote = s.quote + w, !.exits = s.exits + 1, !.independents = r,
                     !.trades = Append(s.trades, x)]
  BY <1>2, <1>6, <1>7, <1>9 DEF Spliced
<1>11. Append(s.trades, x) \in Seq(TradeRow)
  BY <1>3, <1>8, ListAppended DEF StateRow
<1>12. t \in StateRow
  <2>1. s.quote + w \in Nat /\ s.exits + 1 \in Nat
    BY <1>3, <1>6
  <2>2. PICK q \in Nat, e \in Nat, y \in Seq(TradeRow) :
           q = s.quote + w /\ e = s.exits + 1 /\ y = Append(s.trades, x)
    BY <1>11, <2>1, Zenon
  <2>3. t = [s EXCEPT !.quote = q, !.exits = e, !.independents = r, !.trades = y]
    BY <1>10, <2>2
  <2>4. QED
    BY <1>3, <1>9, <2>3 DEF StateRow
<1>13. /\ t.quote = s.quote + w /\ t.entries = s.entries /\ t.quantity = s.quantity /\ t.cost = s.cost
       /\ t.independents = r /\ t.trades = Append(s.trades, x) /\ t.equity = s.equity
  BY <1>3, <1>10 DEF StateRow
<1>14. Kept(p, t)
  <2>1. Capital <= t.quote + Given(p, t.entries)
    <3>1. PICK g \in Int : g = Given(p, s.entries)
      <4>1. s.entries \in 0..p.maxEntries /\ p.maxEntries \in Nat \ {0}
        BY <1>3 DEF Playable
      <4>2. QED
        BY <4>1, CapitalSuffices
    <3>2. Capital \in Nat
      BY SimulatorAssumption
    <3>3. Capital <= (s.quote + w) + g
      BY <1>3, <1>6, <3>1, <3>2
    <3>4. QED
      BY <1>13, <3>1, <3>3
  <2>2. QED
    BY <1>3, <1>12, <1>13, <2>1 DEF Kept
<1>15. Traded(s, t, x)
  <2>1. Paid(x) = -w
    BY <1>6, <1>8 DEF Paid, Entries
  <2>2. t.quote = s.quote - Paid(x)
    BY <1>3, <1>6, <1>13, <2>1
  <2>3. QED
    BY <1>8, <1>13, <2>2 DEF Traded
<1>16. SoldOne(candle, s, t, x)
  <2>1. x.pnl > 0 /\ x.quote - x.pnl = i.cost
    BY <1>5, <1>6, <1>8
  <2>2. QED
    BY <1>1, <1>8, <1>9, <1>13, <2>1 DEF SoldOne
<1>17. QED
  BY <1>1, <1>2, <1>9, <1>13, <1>14, <1>15, <1>16

Steps(p, candle, s, t, x) ==
    /\ s \in StateRow /\ t \in StateRow /\ Traded(s, t, x)
    /\ Bought(p, candle, s, t, x) \/ SoldAll(candle, s, t, x) \/ SoldOne(candle, s, t, x)

\* The list of trades goes on with its n-th.
GoesTo(n, s, t, x) ==
    /\ n = Len(t.trades) /\ n \in Nat \ {0} /\ n - 1 \in Nat /\ n = Len(s.trades) + 1
    /\ DOMAIN s.trades = 1..n - 1 /\ DOMAIN t.trades = 1..n
    /\ s.trades \in Seq(TradeRow) /\ t.trades = Append(s.trades, x) /\ x \in TradeRow
    /\ t.trades[n] = x
    /\ \A k \in 1..n - 1 : t.trades[k] = s.trades[k] /\ s.trades[k] \in TradeRow
    /\ s.independents \in Seq(LotRow) /\ s.entries \in Nat

LEMMA GoesOnList ==
    ASSUME NEW p, NEW candle, NEW s, NEW t, NEW x, Steps(p, candle, s, t, x)
    PROVE  \E n : GoesTo(n, s, t, x)
<1> DEFINE n == Len(t.trades)
<1>1. s.trades \in Seq(TradeRow) /\ x \in TradeRow /\ t.trades = Append(s.trades, x)
      /\ s.independents \in Seq(LotRow) /\ s.entries \in Nat
  BY DEF Steps, Traded, StateRow
<1>2. /\ Len(s.trades) \in Nat /\ Len(t.trades) = Len(s.trades) + 1 /\ DOMAIN s.trades = 1..Len(s.trades)
      /\ DOMAIN t.trades = 1..Len(s.trades) + 1 /\ t.trades[Len(s.trades) + 1] = x
      /\ \A k \in 1..Len(s.trades) : t.trades[k] = s.trades[k] /\ s.trades[k] \in TradeRow
  BY <1>1, ListAppended
<1>3. n \in Nat \ {0} /\ Len(s.trades) = n - 1 /\ n - 1 \in Nat
  BY <1>2
<1>4. GoesTo(n, s, t, x)
  BY <1>1, <1>2, <1>3 DEF GoesTo
<1>5. QED
  BY <1>4

TypesGo(n, s, t, x, T) ==
    /\ OfType(t.trades, T) = OfType(s.trades, T) \cup (IF x.type \in T THEN {n} ELSE {})
    /\ OfType(s.trades, T) \in SUBSET (1..n - 1)
    /\ \A k : k \in OfType(t.trades, T) <=> k \in OfType(s.trades, T) \/ (k = n /\ x.type \in T)

LEMMA TypesGoOn ==
    ASSUME NEW n, NEW s, NEW t, NEW x, GoesTo(n, s, t, x), NEW T
    PROVE  TypesGo(n, s, t, x, T)
<1>1. /\ n \in Nat \ {0} /\ DOMAIN s.trades = 1..n - 1 /\ DOMAIN t.trades = 1..n
      /\ t.trades[n] = x /\ \A k \in 1..n - 1 : t.trades[k] = s.trades[k]
  BY DEF GoesTo
<1>2. \A k : k \in 1..n <=> k \in 1..n - 1 \/ k = n
  BY <1>1
<1>3. \A k : k \in OfType(t.trades, T) <=> k \in OfType(s.trades, T) \/ (k = n /\ x.type \in T)
  BY <1>1, <1>2 DEF OfType
<1>4. OfType(s.trades, T) \in SUBSET (1..n - 1)
  BY <1>1 DEF OfType
<1>5. QED
  BY <1>3, <1>4 DEF TypesGo

\* How many trades there are of a type.
LEMMA CountGoesOn ==
    ASSUME NEW n, NEW s, NEW t, NEW x, GoesTo(n, s, t, x), NEW T
    PROVE  /\ Cardinality(OfType(s.trades, T)) \in Nat
           /\ Cardinality(OfType(t.trades, T))
                = Cardinality(OfType(s.trades, T)) + (IF x.type \in T THEN 1 ELSE 0)
<1>1. n \in Nat \ {0} /\ n - 1 \in Nat
  BY DEF GoesTo
<1>2. /\ OfType(t.trades, T) = OfType(s.trades, T) \cup (IF x.type \in T THEN {n} ELSE {})
      /\ OfType(s.trades, T) \in SUBSET (1..n - 1)
  BY TypesGoOn DEF TypesGo
<1>3. IsFiniteSet(1..n - 1)
  BY <1>1, FS_Interval
<1>4. IsFiniteSet(OfType(s.trades, T)) /\ Cardinality(OfType(s.trades, T)) \in Nat
  BY <1>2, <1>3, FS_Subset, FS_CardinalityType
<1>5. n \notin OfType(s.trades, T)
  BY <1>1, <1>2
<1>6. CASE x.type \in T
  <2>1. OfType(t.trades, T) = OfType(s.trades, T) \cup {n}
    BY <1>2, <1>6
  <2>2. QED
    BY <1>4, <1>5, <1>6, <2>1, FS_AddElement
<1>7. CASE x.type \notin T
  <2>1. OfType(t.trades, T) = OfType(s.trades, T)
    BY <1>2, <1>7
  <2>2. QED
    BY <1>4, <1>7, <2>1
<1>8. QED
  BY <1>6, <1>7

-----------------------------------------------------------------------------
(* The balance, the stock and what it cost follow from the trades *)

Books(s) ==
    /\ s.quote = Capital - Spent(s.trades, DOMAIN s.trades)
    /\ s.quantity + Loose(s.independents) = Held(s.trades, DOMAIN s.trades)
    /\ s.cost + Costs(s.independents)
         = Spent(s.trades, DOMAIN s.trades) + Profit(s.trades, OfType(s.trades, Exits))

LEMMA StockGoesOn ==
    ASSUME NEW p, NEW candle, NEW s, NEW t, NEW x, Steps(p, candle, s, t, x)
    PROVE  /\ t.quantity + Loose(t.independents) = s.quantity + Loose(s.independents) + Got(x)
           /\ t.cost + Costs(t.independents)
                = s.cost + Costs(s.independents) + Paid(x) + (IF x.type \in Exits THEN x.pnl ELSE 0)
<1>1. /\ s \in StateRow /\ t \in StateRow /\ x \in TradeRow /\ s.independents \in Seq(LotRow)
      /\ s.quantity \in Nat /\ s.cost \in Nat /\ x.quantity \in Nat /\ x.quote \in Nat /\ x.pnl \in Int
  BY DEF Steps, Traded, StateRow, TradeRow
<1>2. /\ Loose(s.independents) \in Nat /\ Costs(s.independents) \in Nat
      /\ \A k \in DOMAIN s.independents : s.independents[k] \in LotRow
  BY <1>1, StockIs
<1>3. CASE Bought(p, candle, s, t, x)
  <2>1. Got(x) = x.quantity /\ Paid(x) = x.quote /\ x.type \notin Exits
    BY <1>3 DEF Bought, Got, Paid, Entries, Exits
  <2>2. CASE x.type = "PARENT_ENTRY"
    <3>1. /\ t.quantity = s.quantity + x.quantity /\ t.cost = s.cost + x.quote
          /\ t.independents = s.independents
      BY <1>3, <2>2 DEF Bought
    <3>2. QED
      BY <1>1, <1>2, <2>1, <3>1
  <2>3. CASE x.type # "PARENT_ENTRY"
    <3>1. /\ t.quantity = s.quantity /\ t.cost = s.cost
          /\ t.independents = Append(s.independents, LotOf(x))
      BY <1>3, <2>3 DEF Bought
    <3>2. LotOf(x) \in LotRow /\ LotOf(x).quantity = x.quantity /\ LotOf(x).cost = x.quote
      <4>1. x.quantity # 0 /\ x.quantity * candle.close <= x.quote
        BY <1>3 DEF Bought
      <4>2. t.independents \in Seq(LotRow)
        BY <1>1 DEF StateRow
      <4>3. LotOf(x) = t.independents[Len(s.independents) + 1]
            /\ Len(s.independents) + 1 \in DOMAIN t.independents
        <5>1. PICK l : l = LotOf(x)
          OBVIOUS
        <5>2. t.independents = Append(s.independents, l) /\ s.independents \in Seq(LotRow)
          BY <1>1, <3>1, <5>1
        <5>3. QED
          BY <5>1, <5>2
      <4>4. LotOf(x) \in LotRow
        BY <4>2, <4>3
      <4>5. QED
        BY <4>4 DEF LotOf
    <3>3. /\ Loose(t.independents) = Loose(s.independents) + x.quantity
          /\ Costs(t.independents) = Costs(s.independents) + x.quote
      BY <1>1, <3>1, <3>2, StockAppended
    <3>4. QED
      BY <1>1, <1>2, <2>1, <3>1, <3>3
  <2>4. QED
    BY <2>2, <2>3
<1>4. CASE SoldAll(candle, s, t, x)
  <2>1. Got(x) = -x.quantity /\ Paid(x) = -x.quote /\ x.type \in Exits
    BY <1>4 DEF SoldAll, Got, Paid, Entries, Exits
  <2>2. /\ t.quantity = 0 /\ t.cost = 0 /\ t.independents = s.independents
        /\ x.quantity = s.quantity /\ x.quote - x.pnl = s.cost
    BY <1>4 DEF SoldAll
  <2>3. QED
    BY <1>1, <1>2, <2>1, <2>2
<1>5. CASE SoldOne(candle, s, t, x)
  <2>1. Got(x) = -x.quantity /\ Paid(x) = -x.quote /\ x.type \in Exits
    BY <1>5 DEF SoldOne, Got, Paid, Entries, Exits
  <2>2. /\ t.quantity = s.quantity /\ t.cost = s.cost
        /\ \E i \in DOMAIN s.independents :
             /\ x.quantity = s.independents[i].quantity /\ x.quote - x.pnl = s.independents[i].cost
             /\ t.independents = RemoveAt(s.independents, i)
    BY <1>5 DEF SoldOne
  <2>3. PICK i \in DOMAIN s.independents :
             /\ x.quantity = s.independents[i].quantity /\ x.quote - x.pnl = s.independents[i].cost
             /\ t.independents = RemoveAt(s.independents, i)
    BY <2>2
  <2>4. /\ Loose(t.independents) = Loose(s.independents) - x.quantity
        /\ Costs(t.independents) = Costs(s.independents) - (x.quote - x.pnl)
    BY <1>1, <2>3, StockRemoved
  <2>5. PICK a \in Int, b \in Int, c \in Int, d \in Int, e \in Int, f \in Int, g \in Int :
             /\ a = Loose(s.independents) /\ b = Costs(s.independents) /\ c = s.quantity
             /\ d = s.cost /\ e = x.quantity /\ f = x.quote /\ g = x.pnl
    <3>1. /\ Loose(s.independents) \in Int /\ Costs(s.independents) \in Int /\ s.quantity \in Int
          /\ s.cost \in Int /\ x.quantity \in Int /\ x.quote \in Int /\ x.pnl \in Int
      BY <1>1, <1>2
    <3>2. QED
      BY <3>1, Zenon
  <2>6. /\ t.quantity + Loose(t.independents) = c + (a - e)
        /\ t.cost + Costs(t.independents) = d + (b - (f - g))
    BY <2>2, <2>4, <2>5
  <2>7. /\ s.quantity + Loose(s.independents) + Got(x) = c + a + -e
        /\ s.cost + Costs(s.independents) + Paid(x) + (IF x.type \in Exits THEN x.pnl ELSE 0)
             = d + b + -f + g
    BY <2>1, <2>5
  <2>8. c + (a - e) = c + a + -e /\ d + (b - (f - g)) = d + b + -f + g
    OBVIOUS
  <2>9. QED
    BY <2>6, <2>7, <2>8
<1>6. QED
  BY <1>3, <1>4, <1>5 DEF Steps

LEMMA BooksGoOn ==
    ASSUME NEW p, NEW candle, NEW s, NEW t, NEW x, Steps(p, candle, s, t, x), Books(s)
    PROVE  Books(t)
<1>1. PICK n : GoesTo(n, s, t, x)
  BY GoesOnList
<1>2. /\ n = Len(s.trades) + 1 /\ n \in Nat \ {0} /\ n - 1 \in Nat
      /\ DOMAIN s.trades = 1..n - 1 /\ DOMAIN t.trades = 1..n
      /\ s.trades \in Seq(TradeRow) /\ t.trades = Append(s.trades, x) /\ x \in TradeRow
  BY <1>1 DEF GoesTo
<1>3. /\ OfType(s.trades, Exits) \in SUBSET (1..n - 1)
      /\ \A k : k \in OfType(t.trades, Exits) <=> k \in OfType(s.trades, Exits) \/ (k = n /\ x.type \in Exits)
  <2>1. TypesGo(n, s, t, x, Exits)
    BY <1>1, TypesGoOn
  <2>2. QED
    BY <2>1 DEF TypesGo
<1>4. PICK K, L, M, N : /\ K = DOMAIN s.trades /\ L = DOMAIN t.trades
                        /\ M = OfType(s.trades, Exits) /\ N = OfType(t.trades, Exits)
  OBVIOUS
<1>5. /\ \A k \in DOMAIN s.trades : k \in K <=> k \in L
      /\ \A k \in DOMAIN s.trades : k \in M <=> k \in N
      /\ n \in L /\ (n \in N <=> x.type \in Exits)
  <2>1. n \in 1..n /\ n \notin 1..n - 1 /\ \A k \in 1..n - 1 : k \in 1..n /\ k # n
    BY <1>2
  <2>2. QED
    BY <1>2, <1>3, <1>4, <2>1
<1>6. /\ Spent(t.trades, L) = Spent(s.trades, K) + Paid(x) /\ Spent(s.trades, K) \in Int
      /\ Held(t.trades, L) = Held(s.trades, K) + Got(x) /\ Held(s.trades, K) \in Int
      /\ Paid(x) \in Int /\ Got(x) \in Int
  <2>1. AddsUp(s.trades, t.trades, x, n, K, L)
    BY <1>2, <1>5, TradeAdds
  <2>2. QED
    BY <1>5, <2>1 DEF AddsUp
<1>7. /\ Profit(t.trades, N) = Profit(s.trades, M) + (IF x.type \in Exits THEN x.pnl ELSE 0)
      /\ Profit(s.trades, M) \in Int /\ x.pnl \in Int
  <2>1. AddsUp(s.trades, t.trades, x, n, M, N)
    BY <1>2, <1>5, TradeAdds
  <2>2. QED
    BY <1>5, <2>1 DEF AddsUp
<1>8. t.quote = s.quote - Paid(x) /\ s.quote \in Int /\ Capital \in Int
  BY SimulatorAssumption DEF Steps, Traded, StateRow
<1>9. /\ t.quantity + Loose(t.independents) = s.quantity + Loose(s.independents) + Got(x)
      /\ t.cost + Costs(t.independents)
           = s.cost + Costs(s.independents) + Paid(x) + (IF x.type \in Exits THEN x.pnl ELSE 0)
  BY StockGoesOn
<1>10. /\ s.quote = Capital - Spent(s.trades, K)
       /\ s.quantity + Loose(s.independents) = Held(s.trades, K)
       /\ s.cost + Costs(s.independents) = Spent(s.trades, K) + Profit(s.trades, M)
  BY <1>4 DEF Books
<1>11. PICK a, b, c, d, e : /\ a = Spent(s.trades, K) /\ b = Profit(s.trades, M) /\ c = Paid(x)
                            /\ d = (IF x.type \in Exits THEN x.pnl ELSE 0)
                            /\ e = s.quantity + Loose(s.independents)
  OBVIOUS
<1>12. a \in Int /\ b \in Int /\ c \in Int /\ d \in Int
  BY <1>6, <1>7, <1>11
<1>13. t.quote = Capital - Spent(t.trades, L)
  <2>1. t.quote = (Capital - a) - c /\ Spent(t.trades, L) = a + c
    BY <1>6, <1>8, <1>10, <1>11
  <2>2. QED
    BY <1>8, <1>12, <2>1
<1>14. t.quantity + Loose(t.independents) = Held(t.trades, L)
  BY <1>6, <1>9, <1>10
<1>15. t.cost + Costs(t.independents) = Spent(t.trades, L) + Profit(t.trades, N)
  <2>1. /\ t.cost + Costs(t.independents) = ((a + b) + c) + d
        /\ Spent(t.trades, L) = a + c /\ Profit(t.trades, N) = b + d
    BY <1>6, <1>7, <1>9, <1>10, <1>11
  <2>2. QED
    BY <1>12, <2>1
<1>16. QED
  BY <1>4, <1>13, <1>14, <1>15 DEF Books

-----------------------------------------------------------------------------
(* The points of the curve *)

Dated(s, now) == \A k \in DOMAIN s.trades : s.trades[k].slot <= now

LEMMA DatedGoesOn ==
    ASSUME NEW p, NEW candle, NEW s, NEW t, NEW x, Steps(p, candle, s, t, x), Dated(s, candle.slot),
           candle \in Candle
    PROVE  Dated(t, candle.slot)
<1>1. PICK n : GoesTo(n, s, t, x)
  BY GoesOnList
<1>2. /\ n \in Nat \ {0} /\ DOMAIN s.trades = 1..n - 1 /\ DOMAIN t.trades = 1..n
      /\ t.trades[n] = x /\ \A k \in 1..n - 1 : t.trades[k] = s.trades[k]
  BY <1>1 DEF GoesTo
<1>3. x.slot = candle.slot /\ candle.slot \in Nat
  BY DEF Steps, Bought, SoldAll, SoldOne, Candle
<1>4. \A k \in 1..n : k \in 1..n - 1 \/ k = n
  BY <1>2
<1>5. QED
  BY <1>2, <1>3, <1>4 DEF Dated

\* A trade changes nothing about the points before it.
LEMMA PointGoesOn ==
    ASSUME NEW p, NEW candle \in Candle, NEW s, NEW t, NEW x, Steps(p, candle, s, t, x),
           NEW point, NEW c \in Candle, c.slot < candle.slot, PointExplained(s.trades, point, c)
    PROVE  PointExplained(t.trades, point, c)
<1>1. PICK n : GoesTo(n, s, t, x)
  BY GoesOnList
<1>2. /\ n = Len(s.trades) + 1 /\ n \in Nat \ {0}
      /\ DOMAIN s.trades = 1..n - 1 /\ DOMAIN t.trades = 1..n
      /\ s.trades \in Seq(TradeRow) /\ t.trades = Append(s.trades, x) /\ x \in TradeRow
      /\ t.trades[n] = x /\ \A k \in 1..n - 1 : t.trades[k] = s.trades[k]
  BY <1>1 DEF GoesTo
<1>3. x.slot = candle.slot /\ candle.slot \in Nat /\ c.slot \in Nat /\ ~(x.slot <= c.slot)
  BY DEF Steps, Bought, SoldAll, SoldOne, Candle
<1>4. PICK K, L : K = Before(s.trades, c.slot) /\ L = Before(t.trades, c.slot)
  OBVIOUS
<1>5. \A k \in DOMAIN s.trades : k \in 1..n /\ k \in 1..n - 1
  BY <1>2
<1>6. n \notin L /\ \A k \in DOMAIN s.trades : k \in K <=> k \in L
  BY <1>2, <1>3, <1>4, <1>5 DEF Before
<1>7. AddsUp(s.trades, t.trades, x, n, K, L)
  BY <1>2, <1>6, TradeAdds
<1>8. Spent(t.trades, L) = Spent(s.trades, K) /\ Held(t.trades, L) = Held(s.trades, K)
  BY <1>6, <1>7 DEF AddsUp
<1>9. Worth(t.trades, L, c.close) = Worth(s.trades, K, c.close)
  BY <1>8 DEF Worth
<1>10. QED
  BY <1>4, <1>8, <1>9 DEF PointExplained

\* The point that is measured is explained by all the trades.
LEMMA MeasureExplains ==
    ASSUME NEW p, NEW s, Kept(p, s), Books(s), NEW candle \in Candle, Dated(s, candle.slot),
           NEW point, point.equity = Equity(s, candle.close)
    PROVE  PointExplained(s.trades, point, candle)
<1>1. /\ s \in StateRow /\ s.quote \in Nat /\ s.quantity \in Nat /\ s.independents \in Seq(LotRow)
      /\ s.trades \in Seq(TradeRow) /\ Capital \in Nat /\ candle.close \in Nat
  BY SimulatorAssumption DEF Kept, StateRow, Candle
<1>2. Loose(s.independents) \in Nat
  BY <1>1, StockIs
<1>3. Before(s.trades, candle.slot) = DOMAIN s.trades
  BY DEF Before, Dated
<1>4. PICK a, b, h : /\ a = Spent(s.trades, DOMAIN s.trades) /\ h = Held(s.trades, DOMAIN s.trades)
                     /\ b = s.quote
  OBVIOUS
<1>5. a \in Int /\ h \in Nat /\ b \in Nat /\ b = Capital - a
      /\ s.quantity + Loose(s.independents) = h
  <2>1. a \in Int
    BY <1>1, <1>4, SumsAre
  <2>2. QED
    BY <1>1, <1>2, <1>4, <2>1 DEF Books
<1>6. a <= Capital /\ h >= 0
  BY <1>1, <1>5
<1>7. point.equity = Worth(s.trades, DOMAIN s.trades, candle.close)
  <2>1. point.equity = b + h * candle.close
    BY <1>4, <1>5 DEF Equity
  <2>2. Worth(s.trades, DOMAIN s.trades, candle.close) = Capital - a + h * candle.close
    BY <1>4 DEF Worth
  <2>3. QED
    BY <1>5, <2>1, <2>2
<1>8. QED
  BY <1>3, <1>4, <1>6, <1>7 DEF PointExplained

Ordered(candles) ==
    /\ candles \in Seq(Candle)
    /\ \A i, j \in DOMAIN candles : i < j => candles[i].slot < candles[j].slot

Curve(s, candles, n) ==
    /\ Len(s.equity) = n
    /\ \A j \in 1..n : PointExplained(s.trades, s.equity[j], candles[j])

LEMMA CurveGoesOn ==
    ASSUME NEW p, NEW candles, Ordered(candles), NEW k \in DOMAIN candles,
           NEW s, NEW t, NEW x, Steps(p, candles[k], s, t, x), Curve(s, candles, k - 1)
    PROVE  Curve(t, candles, k - 1)
<1>1. PICK N \in Nat : N = Len(candles) /\ DOMAIN candles = 1..N
  BY DEF Ordered
<1>2. t.equity = s.equity
  BY DEF Steps, Traded
<1>3. ASSUME NEW j \in 1..k - 1 PROVE PointExplained(t.trades, t.equity[j], candles[j])
  <2>1. j \in 1..N /\ j < k /\ k \in 1..N
    BY <1>1
  <2>2. candles[j] \in Candle /\ candles[k] \in Candle /\ candles[j].slot < candles[k].slot
    BY <1>1, <2>1 DEF Ordered
  <2>3. PointExplained(s.trades, s.equity[j], candles[j])
    BY DEF Curve
  <2>4. QED
    BY <1>2, <2>2, <2>3, PointGoesOn
<1>4. QED
  BY <1>2, <1>3 DEF Curve

-----------------------------------------------------------------------------
(* The ladder *)

IE == {"INDEPENDENT_ENTRY"}
IX == {"INDEPENDENT_EXIT"}

\* Every entry is a rung, in order; nothing else is above it; every sale was a win.
Rungs(s) ==
    /\ s.entries = Cardinality(OfType(s.trades, Entries))
    /\ \A i \in OfType(s.trades, Entries) :
         s.trades[i].level = Cardinality(OfType(s.trades, Entries) \cap (1..i))
    /\ \A i \in DOMAIN s.trades : s.trades[i].level <= s.entries
    /\ \A i \in OfType(s.trades, Exits) : s.trades[i].pnl > 0

\* The lots in stock are bought levels that were not sold yet.
Lots(s) ==
    /\ Len(s.independents) + Cardinality(OfType(s.trades, IX)) = Cardinality(OfType(s.trades, IE))
    /\ \A j \in DOMAIN s.independents :
         /\ s.independents[j].level <= s.entries
         /\ \E e \in OfType(s.trades, IE) : /\ s.trades[e].level = s.independents[j].level
                                            /\ s.trades[e].quantity = s.independents[j].quantity
    /\ \A i, j \in DOMAIN s.independents :
         s.independents[i].level = s.independents[j].level => i = j
    /\ \A i \in OfType(s.trades, IX) :
         /\ s.trades[i].level <= s.entries
         /\ \E e \in OfType(s.trades, IE) \cap (1..i) :
              /\ s.trades[e].level = s.trades[i].level
              /\ s.trades[e].quantity = s.trades[i].quantity
         /\ \A j \in OfType(s.trades, IX) : s.trades[i].level = s.trades[j].level => i = j
         /\ \A j \in DOMAIN s.independents : s.trades[i].level # s.independents[j].level

LEMMA RungsGoOn ==
    ASSUME NEW p, NEW candle, NEW s, NEW t, NEW x, Steps(p, candle, s, t, x), Rungs(s), Lots(s)
    PROVE  Rungs(t)
<1>1. PICK n : GoesTo(n, s, t, x)
  BY GoesOnList
<1>2. /\ n \in Nat \ {0} /\ DOMAIN s.trades = 1..n - 1 /\ DOMAIN t.trades = 1..n /\ x \in TradeRow
      /\ t.trades[n] = x /\ \A k \in 1..n - 1 : t.trades[k] = s.trades[k] /\ s.trades[k] \in TradeRow
      /\ s.entries \in Nat /\ n \in 1..n /\ n \notin 1..n - 1
      /\ (\A k \in 1..n : k \in 1..n - 1 \/ k = n) /\ (\A k \in 1..n - 1 : k \in 1..n)
  <2>1. n \in Nat \ {0}
    BY <1>1 DEF GoesTo
  <2>2. /\ n \in 1..n /\ n \notin 1..n - 1
        /\ (\A k \in 1..n : k \in 1..n - 1 \/ k = n) /\ (\A k \in 1..n - 1 : k \in 1..n)
    BY <2>1
  <2>3. QED
    BY <1>1, <2>1, <2>2 DEF GoesTo
<1>3. PICK A, B, C, D : /\ A = OfType(s.trades, Entries) /\ B = OfType(t.trades, Entries)
                        /\ C = OfType(s.trades, Exits) /\ D = OfType(t.trades, Exits)
  OBVIOUS
<1>4. /\ A \in SUBSET (1..n - 1) /\ \A k : k \in B <=> k \in A \/ (k = n /\ x.type \in Entries)
  <2>1. TypesGo(n, s, t, x, Entries)
    BY <1>1, TypesGoOn
  <2>2. QED
    BY <1>3, <2>1 DEF TypesGo
<1>5. /\ C \in SUBSET (1..n - 1) /\ \A k : k \in D <=> k \in C \/ (k = n /\ x.type \in Exits)
  <2>1. TypesGo(n, s, t, x, Exits)
    BY <1>1, TypesGoOn
  <2>2. QED
    BY <1>3, <2>1 DEF TypesGo
<1>6. Cardinality(A) \in Nat /\ Cardinality(B) = Cardinality(A) + (IF x.type \in Entries THEN 1 ELSE 0)
  <2>1. /\ Cardinality(OfType(s.trades, Entries)) \in Nat
        /\ Cardinality(OfType(t.trades, Entries))
             = Cardinality(OfType(s.trades, Entries)) + (IF x.type \in Entries THEN 1 ELSE 0)
    BY <1>1, CountGoesOn
  <2>2. QED
    BY <1>3, <2>1
<1>7. /\ t.entries = s.entries + (IF x.type \in Entries THEN 1 ELSE 0)
      /\ x.level <= t.entries /\ (x.type \in Entries => x.level = t.entries)
      /\ (x.type \in Exits => x.pnl > 0) /\ x.level \in Nat /\ t.entries \in Nat
  <2>1. CASE Bought(p, candle, s, t, x)
    BY <1>2, <2>1 DEF Bought, TradeRow, Entries, Exits
  <2>2. CASE SoldAll(candle, s, t, x)
    BY <1>2, <2>2 DEF SoldAll, TradeRow, Entries, Exits
  <2>3. CASE SoldOne(candle, s, t, x)
    <3>1. /\ x.type = "INDEPENDENT_EXIT" /\ x.pnl > 0 /\ t.entries = s.entries
          /\ \E i \in DOMAIN s.independents : x.level = s.independents[i].level
      BY <2>3 DEF SoldOne
    <3>2. x.level <= s.entries
      BY <3>1 DEF Lots
    <3>3. QED
      BY <1>2, <3>1, <3>2 DEF TradeRow, Entries, Exits
  <2>4. QED
    BY <2>1, <2>2, <2>3 DEF Steps
<1>8. /\ s.entries = Cardinality(A) /\ \A i \in A : s.trades[i].level = Cardinality(A \cap (1..i))
      /\ \A i \in 1..n - 1 : s.trades[i].level <= s.entries
      /\ \A i \in C : s.trades[i].pnl > 0
  BY <1>2, <1>3 DEF Rungs
<1>9. t.entries = Cardinality(B)
  BY <1>6, <1>7, <1>8
<1>10. ASSUME NEW i \in B PROVE t.trades[i].level = Cardinality(B \cap (1..i))
  <2>1. CASE i \in A
    <3>1. i \in 1..n - 1 /\ n \notin 1..i
      BY <1>2, <1>4, <2>1
    <3>2. B \cap (1..i) = A \cap (1..i)
      BY <1>4, <3>1
    <3>3. QED
      BY <1>2, <1>8, <2>1, <3>1, <3>2
  <2>2. CASE i \notin A
    <3>1. i = n /\ x.type \in Entries
      BY <1>4, <2>2
    <3>2. B \cap (1..i) = B
      <4>1. \A k \in B : k \in 1..n
        <5>1. \A k \in A : k \in 1..n - 1
          BY <1>4
        <5>2. \A k \in B : k \in A \/ k = n
          BY <1>4
        <5>3. QED
          BY <1>2, <5>1, <5>2
      <4>2. QED
        BY <3>1, <4>1
    <3>3. QED
      BY <1>2, <1>7, <1>9, <3>1, <3>2
  <2>3. QED
    BY <2>1, <2>2
<1>11. \A i \in 1..n : t.trades[i].level <= t.entries
  <2>1. ASSUME NEW i \in 1..n PROVE t.trades[i].level <= t.entries
    <3>1. CASE i = n
      BY <1>2, <1>7, <3>1
    <3>2. CASE i # n
      <4>1. i \in 1..n - 1 /\ t.trades[i] = s.trades[i] /\ s.trades[i] \in TradeRow
        BY <1>2, <3>2
      <4>2. PICK l \in Nat : l = s.trades[i].level
        BY <4>1 DEF TradeRow
      <4>3. l <= s.entries
        BY <1>8, <4>1, <4>2
      <4>4. l <= t.entries
        BY <1>2, <1>7, <4>3
      <4>5. QED
        BY <4>1, <4>2, <4>4
    <3>3. QED
      BY <3>1, <3>2
  <2>2. QED
    BY <2>1
<1>12. \A i \in D : t.trades[i].pnl > 0
  BY <1>2, <1>5, <1>7, <1>8
<1>13. QED
  BY <1>2, <1>3, <1>9, <1>10, <1>11, <1>12 DEF Rungs

LEMMA LotsGoOn ==
    ASSUME NEW p, NEW candle, NEW s, NEW t, NEW x, Steps(p, candle, s, t, x), Lots(s)
    PROVE  Lots(t)
<1>1. PICK n : GoesTo(n, s, t, x)
  BY GoesOnList
<1>2. /\ n \in Nat \ {0} /\ DOMAIN s.trades = 1..n - 1 /\ DOMAIN t.trades = 1..n /\ x \in TradeRow
      /\ t.trades[n] = x /\ (\A k \in 1..n - 1 : t.trades[k] = s.trades[k] /\ s.trades[k] \in TradeRow)
      /\ s.entries \in Nat /\ n \in 1..n /\ n \notin 1..n - 1
      /\ (\A k \in 1..n : k \in 1..n - 1 \/ k = n) /\ (\A k \in 1..n - 1 : k \in 1..n)
      /\ s.independents \in Seq(LotRow)
  <2>1. n \in Nat \ {0}
    BY <1>1 DEF GoesTo
  <2>2. /\ n \in 1..n /\ n \notin 1..n - 1
        /\ (\A k \in 1..n : k \in 1..n - 1 \/ k = n) /\ (\A k \in 1..n - 1 : k \in 1..n)
    BY <2>1
  <2>3. QED
    BY <1>1, <2>1, <2>2 DEF GoesTo
<1>3. PICK A, B, C, D : /\ A = OfType(s.trades, IE) /\ B = OfType(t.trades, IE)
                        /\ C = OfType(s.trades, IX) /\ D = OfType(t.trades, IX)
  OBVIOUS
<1>4. /\ A \in SUBSET (1..n - 1) /\ \A k : k \in B <=> k \in A \/ (k = n /\ x.type = "INDEPENDENT_ENTRY")
  <2>1. TypesGo(n, s, t, x, IE)
    BY <1>1, TypesGoOn
  <2>2. QED
    BY <1>3, <2>1 DEF TypesGo, IE
<1>5. /\ C \in SUBSET (1..n - 1) /\ \A k : k \in D <=> k \in C \/ (k = n /\ x.type = "INDEPENDENT_EXIT")
  <2>1. TypesGo(n, s, t, x, IX)
    BY <1>1, TypesGoOn
  <2>2. QED
    BY <1>3, <2>1 DEF TypesGo, IX
<1>6. /\ Cardinality(A) \in Nat
      /\ Cardinality(B) = Cardinality(A) + (IF x.type = "INDEPENDENT_ENTRY" THEN 1 ELSE 0)
  <2>1. /\ Cardinality(OfType(s.trades, IE)) \in Nat
        /\ Cardinality(OfType(t.trades, IE))
             = Cardinality(OfType(s.trades, IE)) + (IF x.type \in IE THEN 1 ELSE 0)
    BY <1>1, CountGoesOn
  <2>2. QED
    BY <1>3, <2>1 DEF IE
<1>7. /\ Cardinality(C) \in Nat
      /\ Cardinality(D) = Cardinality(C) + (IF x.type = "INDEPENDENT_EXIT" THEN 1 ELSE 0)
  <2>1. /\ Cardinality(OfType(s.trades, IX)) \in Nat
        /\ Cardinality(OfType(t.trades, IX))
             = Cardinality(OfType(s.trades, IX)) + (IF x.type \in IX THEN 1 ELSE 0)
    BY <1>1, CountGoesOn
  <2>2. QED
    BY <1>3, <2>1 DEF IX
<1>8. PICK m \in Nat : m = Len(s.independents) /\ DOMAIN s.independents = 1..m
                       /\ \A j \in 1..m : s.independents[j] \in LotRow
  BY <1>2
<1>9. PICK u, w : u = s.independents /\ w = t.independents
  OBVIOUS
<1>10. PICK f, g : f = s.trades /\ g = t.trades
  OBVIOUS
<1>11. /\ m + Cardinality(C) = Cardinality(A)
       /\ \A j \in 1..m : /\ u[j].level <= s.entries
                          /\ \E e \in A : f[e].level = u[j].level /\ f[e].quantity = u[j].quantity
       /\ \A i, j \in 1..m : u[i].level = u[j].level => i = j
       /\ \A i \in C :
            /\ f[i].level <= s.entries
            /\ \E e \in A \cap (1..i) : f[e].level = f[i].level /\ f[e].quantity = f[i].quantity
            /\ \A j \in C : f[i].level = f[j].level => i = j
            /\ \A j \in 1..m : f[i].level # u[j].level
  BY <1>3, <1>8, <1>9, <1>10 DEF Lots
<1>12. /\ g[n] = x /\ \A k \in 1..n - 1 : g[k] = f[k] /\ f[k].level \in Nat
       /\ x.level \in Nat /\ \A j \in 1..m : u[j] \in LotRow /\ u[j].level \in Nat
  BY <1>2, <1>8, <1>9, <1>10 DEF TradeRow, LotRow
<1>13. SUFFICES
         /\ Len(w) + Cardinality(D) = Cardinality(B)
         /\ \A j \in DOMAIN w : /\ w[j].level <= t.entries
                                /\ \E e \in B : g[e].level = w[j].level /\ g[e].quantity = w[j].quantity
         /\ \A i, j \in DOMAIN w : w[i].level = w[j].level => i = j
         /\ \A i \in D :
              /\ g[i].level <= t.entries
              /\ \E e \in B \cap (1..i) : g[e].level = g[i].level /\ g[e].quantity = g[i].quantity
              /\ \A j \in D : g[i].level = g[j].level => i = j
              /\ \A j \in DOMAIN w : g[i].level # w[j].level
  BY <1>3, <1>9, <1>10 DEF Lots
<1>14. CASE x.type \in {"PARENT_ENTRY", "PARENT_EXIT"}
  <2>1. w = u /\ t.entries \in Nat /\ s.entries <= t.entries
    <3>1. CASE Bought(p, candle, s, t, x)
      <4>1. x.type = "PARENT_ENTRY" /\ t.entries = x.level /\ x.level = s.entries + 1
        BY <1>14, <3>1 DEF Bought, Entries
      <4>2. t.independents = s.independents
        BY <3>1, <4>1 DEF Bought
      <4>3. QED
        BY <1>2, <1>9, <4>1, <4>2
    <3>2. CASE SoldAll(candle, s, t, x)
      BY <1>2, <1>9, <3>2 DEF SoldAll
    <3>3. CASE SoldOne(candle, s, t, x)
      BY <1>14, <3>3 DEF SoldOne
    <3>4. QED
      BY <3>1, <3>2, <3>3 DEF Steps
  <2>2. B = A /\ D = C /\ Cardinality(B) = Cardinality(A) /\ Cardinality(D) = Cardinality(C)
    BY <1>4, <1>5, <1>6, <1>7, <1>14
  <2>3. \A i \in A \cup C : g[i] = f[i] /\ f[i].level \in Nat
    BY <1>4, <1>5, <1>12
  <2>4. Len(w) = m /\ DOMAIN w = 1..m
    BY <1>8, <1>9, <2>1
  <2>5. \A l \in Nat : l <= s.entries => l <= t.entries
    BY <1>2, <2>1
  <2>6. Len(w) + Cardinality(D) = Cardinality(B)
    BY <1>11, <2>2, <2>4
  <2>7. ASSUME NEW j \in DOMAIN w
        PROVE  /\ w[j].level <= t.entries
               /\ \E e \in B : g[e].level = w[j].level /\ g[e].quantity = w[j].quantity
    <3>1. PICK e \in A : f[e].level = u[j].level /\ f[e].quantity = u[j].quantity
      BY <1>11, <2>4
    <3>2. e \in B /\ g[e].level = w[j].level /\ g[e].quantity = w[j].quantity
      BY <2>1, <2>2, <2>3, <3>1
    <3>3. w[j].level <= t.entries
      BY <1>11, <1>12, <2>1, <2>4, <2>5
    <3>4. QED
      BY <3>2, <3>3
  <2>8. \A i, j \in DOMAIN w : w[i].level = w[j].level => i = j
    BY <1>11, <2>1, <2>4
  <2>9. ASSUME NEW i \in D
        PROVE  /\ g[i].level <= t.entries
               /\ \E e \in B \cap (1..i) : g[e].level = g[i].level /\ g[e].quantity = g[i].quantity
               /\ \A j \in D : g[i].level = g[j].level => i = j
               /\ \A j \in DOMAIN w : g[i].level # w[j].level
    <3>1. i \in C /\ g[i] = f[i] /\ f[i].level \in Nat /\ f[i].level <= s.entries
      BY <1>11, <2>2, <2>3
    <3>2. PICK e \in A \cap (1..i) : f[e].level = f[i].level /\ f[e].quantity = f[i].quantity
      BY <1>11, <3>1
    <3>3. e \in B \cap (1..i) /\ g[e].level = g[i].level /\ g[e].quantity = g[i].quantity
      BY <2>2, <2>3, <3>1, <3>2
    <3>4. \A j \in D : g[i].level = g[j].level => i = j
      BY <1>11, <2>2, <2>3, <3>1
    <3>5. \A j \in DOMAIN w : g[i].level # w[j].level
      BY <1>11, <2>1, <2>4, <3>1
    <3>6. QED
      BY <2>5, <3>1, <3>3, <3>4, <3>5
  <2>10. QED
    BY <2>6, <2>7, <2>8, <2>9
<1>15. CASE x.type = "INDEPENDENT_ENTRY"
  <2>1. /\ w = Append(u, LotOf(x)) /\ t.entries = s.entries + 1 /\ x.level = s.entries + 1
    BY <1>9, <1>15 DEF Steps, Bought, SoldAll, SoldOne
  <2>2. Len(w) = m + 1 /\ DOMAIN w = 1..m + 1 /\ w[m + 1] = LotOf(x) /\ \A j \in 1..m : w[j] = u[j]
    <3>1. PICK l : l = LotOf(x)
      OBVIOUS
    <3>2. w = Append(u, l) /\ u \in Seq(LotRow) /\ m = Len(u)
      BY <1>2, <1>8, <1>9, <2>1, <3>1
    <3>3. QED
      BY <3>1, <3>2
  <2>3. LotOf(x).level = x.level /\ LotOf(x).quantity = x.quantity
    BY DEF LotOf
  <2>4. /\ n \in B /\ D = C /\ (\A i \in C : i \in 1..n - 1)
        /\ Cardinality(B) = Cardinality(A) + 1 /\ Cardinality(D) = Cardinality(C)
        /\ \A i \in A : i \in B /\ g[i] = f[i] /\ f[i].level \in Nat
        /\ \A i \in C : g[i] = f[i] /\ f[i].level \in Nat
    BY <1>4, <1>5, <1>6, <1>7, <1>12, <1>15
  <2>5. \A j \in 1..m + 1 : j \in 1..m \/ j = m + 1
    OBVIOUS
  <2>6. Len(w) + Cardinality(D) = Cardinality(B)
    <3>1. PICK a \in Nat, c \in Nat : a = Cardinality(A) /\ c = Cardinality(C)
      BY <1>6, <1>7
    <3>2. QED
      BY <1>11, <2>2, <2>4, <3>1
  <2>7. \A l \in Nat : l <= s.entries => l <= t.entries /\ l # x.level
    BY <1>2, <2>1
  <2>8. ASSUME NEW j \in DOMAIN w
        PROVE  /\ w[j].level <= t.entries
               /\ \E e \in B : g[e].level = w[j].level /\ g[e].quantity = w[j].quantity
    <3>1. CASE j \in 1..m
      <4>1. PICK e \in A : f[e].level = u[j].level /\ f[e].quantity = u[j].quantity
        BY <1>11, <3>1
      <4>2. e \in B /\ g[e].level = w[j].level /\ g[e].quantity = w[j].quantity
        BY <2>2, <2>4, <3>1, <4>1
      <4>3. w[j].level <= t.entries
        BY <1>11, <1>12, <2>2, <2>7, <3>1
      <4>4. QED
        BY <4>2, <4>3
    <3>2. CASE j = m + 1
      <4>1. w[j].level = x.level /\ w[j].quantity = x.quantity
        BY <2>2, <2>3, <3>2
      <4>2. x.level <= t.entries
        BY <1>2, <2>1
      <4>3. n \in B /\ g[n].level = x.level /\ g[n].quantity = x.quantity
        BY <1>12, <2>4
      <4>4. QED
        BY <4>1, <4>2, <4>3
    <3>3. QED
      BY <2>2, <2>5, <3>1, <3>2
  <2>9. \A i, j \in DOMAIN w : w[i].level = w[j].level => i = j
    <3>1. \A j \in 1..m : w[j].level = u[j].level /\ w[j].level # w[m + 1].level
      BY <1>11, <1>12, <2>2, <2>3, <2>7
    <3>2. QED
      BY <1>11, <2>2, <2>5, <3>1
  <2>10. ASSUME NEW i \in D
         PROVE  /\ g[i].level <= t.entries
                /\ \E e \in B \cap (1..i) : g[e].level = g[i].level /\ g[e].quantity = g[i].quantity
                /\ \A j \in D : g[i].level = g[j].level => i = j
                /\ \A j \in DOMAIN w : g[i].level # w[j].level
    <3>1. i \in C /\ g[i] = f[i] /\ f[i].level \in Nat /\ f[i].level <= s.entries
      BY <1>11, <2>4
    <3>2. \E e \in B \cap (1..i) : g[e].level = g[i].level /\ g[e].quantity = g[i].quantity
      BY <1>11, <2>4, <3>1
    <3>3. \A j \in D : g[i].level = g[j].level => i = j
      BY <1>11, <2>4, <3>1
    <3>4. \A j \in DOMAIN w : g[i].level # w[j].level
      BY <1>11, <2>2, <2>3, <2>5, <2>7, <3>1
    <3>5. QED
      BY <2>7, <3>1, <3>2, <3>3, <3>4
  <2>11. QED
    BY <2>6, <2>8, <2>9, <2>10
<1>16. CASE x.type = "INDEPENDENT_EXIT"
  <2>1. /\ t.entries = s.entries
        /\ \E i \in 1..m : /\ x.level = u[i].level /\ x.quantity = u[i].quantity
                           /\ w = RemoveAt(u, i)
    BY <1>8, <1>9, <1>16 DEF Steps, Bought, SoldAll, SoldOne, Entries
  <2>2. PICK r \in 1..m : x.level = u[r].level /\ x.quantity = u[r].quantity /\ w = RemoveAt(u, r)
    BY <2>1
  <2>3. /\ Len(w) = m - 1 /\ DOMAIN w = 1..m - 1
        /\ \A j \in 1..m - 1 : w[j] = IF j < r THEN u[j] ELSE u[j + 1]
    <3>1. u \in Seq(LotRow) /\ r \in DOMAIN u /\ m = Len(u)
      BY <1>2, <1>8, <1>9
    <3>2. QED
      BY <2>2, <3>1, ListRemoved
  <2>4. PICK h : h = [j \in 1..m - 1 |-> IF j < r THEN j ELSE j + 1]
    OBVIOUS
  <2>5. /\ \A j \in 1..m - 1 : h[j] \in 1..m /\ h[j] # r /\ w[j] = u[h[j]]
        /\ \A i, j \in 1..m - 1 : h[i] = h[j] => i = j
    <3>1. \A j \in 1..m - 1 : h[j] = IF j < r THEN j ELSE j + 1
      BY <2>4
    <3>2. \A j \in 1..m - 1 : h[j] \in 1..m /\ h[j] # r
      BY <3>1
    <3>3. \A j \in 1..m - 1 : w[j] = u[h[j]]
      BY <2>3, <3>1
    <3>4. \A i, j \in 1..m - 1 : h[i] = h[j] => i = j
      BY <3>1
    <3>5. QED
      BY <3>2, <3>3, <3>4
  <2>6. /\ B = A /\ n \in D /\ Cardinality(B) = Cardinality(A) /\ Cardinality(D) = Cardinality(C) + 1
        /\ (\A i \in D : i \in C \/ i = n) /\ (\A i \in C : i \in D /\ i # n)
        /\ \A i \in A : i \in 1..n /\ g[i] = f[i] /\ f[i].level \in Nat
        /\ \A i \in C : g[i] = f[i] /\ f[i].level \in Nat
    BY <1>2, <1>4, <1>5, <1>6, <1>7, <1>12, <1>16
  <2>7. Len(w) + Cardinality(D) = Cardinality(B)
    <3>1. PICK a \in Nat, c \in Nat : a = Cardinality(A) /\ c = Cardinality(C)
      BY <1>6, <1>7
    <3>2. QED
      BY <1>11, <2>3, <2>6, <3>1
  <2>8. ASSUME NEW j \in DOMAIN w
        PROVE  /\ w[j].level <= t.entries
               /\ \E e \in B : g[e].level = w[j].level /\ g[e].quantity = w[j].quantity
    <3>1. h[j] \in 1..m /\ w[j] = u[h[j]]
      BY <2>3, <2>5
    <3>2. PICK e \in A : f[e].level = u[h[j]].level /\ f[e].quantity = u[h[j]].quantity
      BY <1>11, <3>1
    <3>3. e \in B /\ g[e].level = w[j].level /\ g[e].quantity = w[j].quantity
      BY <2>6, <3>1, <3>2
    <3>4. w[j].level <= t.entries
      BY <1>11, <2>1, <3>1
    <3>5. QED
      BY <3>3, <3>4
  <2>9. \A i, j \in DOMAIN w : w[i].level = w[j].level => i = j
    BY <1>11, <2>3, <2>5
  <2>10. \A j \in DOMAIN w : x.level # w[j].level
    BY <1>11, <2>2, <2>3, <2>5
  <2>11. \A j \in C : g[j].level # x.level
    BY <1>11, <2>2, <2>6
  <2>12. ASSUME NEW i \in D
         PROVE  /\ g[i].level <= t.entries
                /\ \E e \in B \cap (1..i) : g[e].level = g[i].level /\ g[e].quantity = g[i].quantity
                /\ \A j \in D : g[i].level = g[j].level => i = j
                /\ \A j \in DOMAIN w : g[i].level # w[j].level
    <3>1. CASE i \in C
      <4>1. g[i] = f[i] /\ f[i].level <= s.entries
        BY <1>11, <2>6, <3>1
      <4>2. \E e \in B \cap (1..i) : g[e].level = g[i].level /\ g[e].quantity = g[i].quantity
        BY <1>11, <2>6, <3>1
      <4>3. \A j \in D : g[i].level = g[j].level => i = j
        BY <1>11, <1>12, <2>6, <2>11, <3>1
      <4>4. \A j \in DOMAIN w : g[i].level # w[j].level
        BY <1>11, <2>3, <2>5, <3>1, <4>1
      <4>5. QED
        BY <2>1, <4>1, <4>2, <4>3, <4>4
    <3>2. CASE i = n
      <4>1. g[i] = x /\ x.level <= s.entries
        BY <1>11, <1>12, <2>2, <3>2
      <4>2. \E e \in B \cap (1..i) : g[e].level = g[i].level /\ g[e].quantity = g[i].quantity
        BY <1>11, <2>2, <2>6, <3>2, <4>1
      <4>3. \A j \in D : g[i].level = g[j].level => i = j
        BY <2>6, <2>11, <3>2, <4>1
      <4>4. QED
        BY <2>1, <2>10, <4>1, <4>2, <4>3
    <3>3. QED
      BY <2>6, <3>1, <3>2
  <2>13. QED
    BY <2>7, <2>8, <2>9, <2>12
<1>17. QED
  BY <1>2, <1>14, <1>15, <1>16 DEF TradeRow, Entries, Exits

-----------------------------------------------------------------------------
(* No candle both buys and sells *)

Free(s, T, now) == \A i \in OfType(s.trades, T) : s.trades[i].slot # now
OneSided(s) ==
    \A i \in OfType(s.trades, Entries), j \in OfType(s.trades, Exits) :
       s.trades[i].slot # s.trades[j].slot

Opposite(S, T) == (S = Entries /\ T = Exits) \/ (S = Exits /\ T = Entries)

LEMMA SidesGoOn ==
    ASSUME NEW p, NEW candle, NEW s, NEW t, NEW x, Steps(p, candle, s, t, x),
           NEW S, NEW T, Opposite(S, T), x.type \in S, Free(s, T, candle.slot), OneSided(s)
    PROVE  Free(t, T, candle.slot) /\ OneSided(t)
<1>1. PICK n : GoesTo(n, s, t, x)
  BY GoesOnList
<1>2. /\ n \in Nat \ {0} /\ t.trades[n] = x /\ \A k \in 1..n - 1 : t.trades[k] = s.trades[k]
  BY <1>1 DEF GoesTo
<1>3. x.slot = candle.slot
  BY DEF Steps, Bought, SoldAll, SoldOne
<1>4. x.type \notin T
  <2>1. Entries \cap Exits = {}
    BY DEF Entries, Exits
  <2>2. QED
    BY <2>1 DEF Opposite
<1>5. PICK A, B, C, D : /\ A = OfType(s.trades, S) /\ B = OfType(t.trades, S)
                        /\ C = OfType(s.trades, T) /\ D = OfType(t.trades, T)
  OBVIOUS
<1>6. (\A i \in A : t.trades[i] = s.trades[i]) /\ \A i \in B : i \in A \/ i = n
  <2>1. TypesGo(n, s, t, x, S)
    BY <1>1, TypesGoOn
  <2>2. QED
    BY <1>2, <1>5, <2>1 DEF TypesGo
<1>7. (\A i \in C : t.trades[i] = s.trades[i]) /\ \A i \in D : i \in C
  <2>1. TypesGo(n, s, t, x, T)
    BY <1>1, TypesGoOn
  <2>2. QED
    BY <1>2, <1>4, <1>5, <2>1 DEF TypesGo
<1>8. /\ \A i \in C : s.trades[i].slot # candle.slot
      /\ \A i \in A, j \in C : s.trades[i].slot # s.trades[j].slot
  <2>1. \A i \in C : s.trades[i].slot # candle.slot
    BY <1>5 DEF Free
  <2>2. \A i \in A, j \in C : s.trades[i].slot # s.trades[j].slot
    <3>1. CASE S = Entries /\ T = Exits
      BY <1>5, <3>1 DEF OneSided
    <3>2. CASE S = Exits /\ T = Entries
      BY <1>5, <3>2 DEF OneSided
    <3>3. QED
      BY <3>1, <3>2 DEF Opposite
  <2>3. QED
    BY <2>1, <2>2
<1>9. /\ \A i \in D : t.trades[i].slot # candle.slot
      /\ \A i \in B, j \in D : t.trades[i].slot # t.trades[j].slot
  BY <1>2, <1>3, <1>6, <1>7, <1>8
<1>10. Free(t, T, candle.slot)
  BY <1>5, <1>9 DEF Free
<1>11. OneSided(t)
  <2>1. CASE S = Entries /\ T = Exits
    BY <1>5, <1>9, <2>1 DEF OneSided
  <2>2. CASE S = Exits /\ T = Entries
    BY <1>5, <1>9, <2>2 DEF OneSided
  <2>3. QED
    BY <2>1, <2>2 DEF Opposite
<1>12. QED
  BY <1>10, <1>11

-----------------------------------------------------------------------------
(* In the middle of a candle *)

Core(p, s) == Kept(p, s) /\ Books(s) /\ Rungs(s) /\ Lots(s)

Along(p, candles, k, s) ==
    /\ Core(p, s) /\ OneSided(s)
    /\ Curve(s, candles, k - 1)
    /\ Dated(s, candles[k].slot)

LEMMA CoreGoesOn ==
    ASSUME NEW p, NEW candle, NEW s, NEW t, NEW x, Steps(p, candle, s, t, x), Core(p, s), Kept(p, t)
    PROVE  Core(p, t)
<1>1. Books(s) /\ Rungs(s) /\ Lots(s)
  BY DEF Core
<1>2. Books(t)
  BY <1>1, BooksGoOn
<1>3. Rungs(t)
  BY <1>1, RungsGoOn
<1>4. Lots(t)
  BY <1>1, LotsGoOn
<1>5. QED
  BY <1>2, <1>3, <1>4 DEF Core

LEMMA AlongGoesOn ==
    ASSUME NEW p, NEW candles, Ordered(candles), NEW k \in DOMAIN candles,
           NEW s, NEW t, NEW x, Steps(p, candles[k], s, t, x), Along(p, candles, k, s), Kept(p, t),
           NEW S, NEW T, Opposite(S, T), x.type \in S, Free(s, T, candles[k].slot)
    PROVE  Along(p, candles, k, t) /\ Free(t, T, candles[k].slot)
<1>1. Core(p, s) /\ OneSided(s) /\ Curve(s, candles, k - 1) /\ Dated(s, candles[k].slot)
  BY DEF Along
<1>2. candles[k] \in Candle
  BY DEF Ordered
<1>3. Core(p, t)
  BY <1>1, CoreGoesOn
<1>4. OneSided(t) /\ Free(t, T, candles[k].slot)
  BY <1>1, SidesGoOn
<1>5. Curve(t, candles, k - 1)
  BY <1>1, CurveGoesOn
<1>6. Dated(t, candles[k].slot)
  BY <1>1, <1>2, DatedGoesOn
<1>7. QED
  BY <1>3, <1>4, <1>5, <1>6 DEF Along

-----------------------------------------------------------------------------
(* What is held when a candle buys cost at least what it is worth then *)

Dear(s, price) ==
    /\ s.quantity * price <= s.cost
    /\ \A j \in DOMAIN s.independents :
         s.independents[j].quantity * price <= s.independents[j].cost

\* The next rung is below everything that is held.
Waits(p, first, s) ==
    s.entries < p.maxEntries =>
      \A price \in Nat : Reached(price, first, s.entries + 1) => Dear(s, price)

LEMMA Product == ASSUME NEW a \in Nat, NEW b \in Nat, NEW c \in Nat, b <= c PROVE a * b <= a * c
OBVIOUS

LEMMA Dearer ==
    ASSUME NEW s \in StateRow, NEW low \in Nat, NEW high \in Nat, low <= high, Dear(s, high)
    PROVE  Dear(s, low)
<1>1. s.quantity \in Nat /\ s.cost \in Nat /\ s.independents \in Seq(LotRow)
  BY DEF StateRow
<1>2. s.quantity * low <= s.cost
  <2>1. s.quantity * low <= s.quantity * high /\ s.quantity * high <= s.cost
    BY <1>1, Product DEF Dear
  <2>2. PICK a \in Nat, b \in Nat : a = s.quantity * low /\ b = s.quantity * high
    BY <1>1
  <2>3. QED
    BY <1>1, <2>1, <2>2
<1>3. ASSUME NEW j \in DOMAIN s.independents
      PROVE  s.independents[j].quantity * low <= s.independents[j].cost
  <2>1. s.independents[j] \in LotRow
    BY <1>1
  <2>2. PICK q \in Nat, c \in Nat : q = s.independents[j].quantity /\ c = s.independents[j].cost
    BY <2>1 DEF LotRow
  <2>3. q * low <= q * high /\ q * high <= c
    BY <2>2, Product DEF Dear
  <2>4. PICK a \in Nat, b \in Nat : a = q * low /\ b = q * high
    OBVIOUS
  <2>5. QED
    BY <2>2, <2>3, <2>4
<1>4. QED
  BY <1>2, <1>3 DEF Dear

\* A buy is worth at most what it cost.
LEMMA DearGoesOn ==
    ASSUME NEW p, NEW candle \in Candle, NEW s, NEW t, NEW x, Steps(p, candle, s, t, x),
           Bought(p, candle, s, t, x), Dear(s, candle.close)
    PROVE  Dear(t, candle.close)
<1>1. PICK c \in Nat : c = candle.close
  BY DEF Candle
<1>2. /\ s.quantity \in Nat /\ s.cost \in Nat /\ s.independents \in Seq(LotRow)
      /\ x.quantity \in Nat /\ x.quote \in Nat
  BY DEF Steps, Traded, StateRow, TradeRow
<1>3. x.quantity * c <= x.quote
  BY <1>1 DEF Bought
<1>4. /\ s.quantity * c <= s.cost
      /\ \A j \in DOMAIN s.independents : s.independents[j].quantity * c <= s.independents[j].cost
  BY <1>1 DEF Dear
<1>5. CASE x.type = "PARENT_ENTRY"
  <2>1. /\ t.quantity = s.quantity + x.quantity /\ t.cost = s.cost + x.quote
        /\ t.independents = s.independents
    BY <1>5 DEF Bought
  <2>2. PICK a \in Nat, b \in Nat : a = s.quantity * c /\ b = x.quantity * c
    BY <1>2
  <2>3. (s.quantity + x.quantity) * c = a + b
    BY <1>2, <2>2
  <2>4. a + b <= s.cost + x.quote
    <3>1. PICK e \in Nat, d \in Nat : e = s.cost /\ d = x.quote
      BY <1>2
    <3>2. a <= e /\ b <= d
      BY <1>3, <1>4, <2>2, <3>1
    <3>3. QED
      BY <3>1, <3>2
  <2>5. t.quantity * c <= t.cost
    BY <2>1, <2>3, <2>4
  <2>6. QED
    BY <1>1, <1>4, <2>1, <2>5 DEF Dear
<1>6. CASE x.type # "PARENT_ENTRY"
  <2>1. /\ t.quantity = s.quantity /\ t.cost = s.cost
        /\ t.independents = Append(s.independents, LotOf(x))
    BY <1>6 DEF Bought
  <2>2. PICK l : l = LotOf(x)
    OBVIOUS
  <2>3. l.quantity = x.quantity /\ l.cost = x.quote
    BY <2>2 DEF LotOf
  <2>4. PICK m \in Nat : m = Len(s.independents)
    BY <1>2
  <2>5. PICK u, w : u = s.independents /\ w = t.independents
    OBVIOUS
  <2>6. /\ DOMAIN u = 1..m /\ DOMAIN w = 1..m + 1 /\ w[m + 1] = l /\ \A j \in 1..m : w[j] = u[j]
    BY <1>2, <2>1, <2>2, <2>5, <2>4
  <2>7. \A j \in 1..m + 1 : j \in 1..m \/ j = m + 1
    BY <2>4
  <2>8. \A j \in 1..m + 1 : w[j].quantity * c <= w[j].cost
    BY <1>3, <1>4, <2>3, <2>5, <2>4, <2>6, <2>7
  <2>9. QED
    BY <1>1, <1>4, <2>1, <2>5, <2>4, <2>6, <2>8 DEF Dear
<1>7. QED
  BY <1>5, <1>6

-----------------------------------------------------------------------------
(* The loops are their passes, one after the other *)

\* The ladder is climbed level by level.
LEMMA Climbs ==
    ASSUME NEW N, NEW p, N = p.maxEntries, N \in Nat, NEW first, NEW candle, NEW s
    PROVE  \E h : /\ EnterAll(p, first, candle, s) = h[N]
                 /\ h[0] = s
                 /\ \A k \in 1..N : h[k] = Enter(p, first, candle, h[k - 1], k)
<1> DEFINE Goes(f, n) == f = [T \in SUBSET (1..n) |->
             IF T = {} THEN s ELSE Enter(p, first, candle, f[T \ {Max(T)}], Max(T))]
           S == {n \in 0..N : \E f : Goes(f, n)}
           loop == CHOOSE f : Goes(f, N)
<1>1. 0 \in S
  <2>1. PICK f : f = [T \in SUBSET (1..0) |-> s]
    OBVIOUS
  <2>2. ASSUME NEW T \in SUBSET (1..0)
        PROVE  f[T] = IF T = {} THEN s ELSE Enter(p, first, candle, f[T \ {Max(T)}], Max(T))
    <3>1. T = {} /\ f[T] = s
      BY <2>1
    <3>2. QED
      BY <3>1
  <2>3. Goes(f, 0)
    BY <2>1, <2>2
  <2>4. 0 \in 0..N
    OBVIOUS
  <2> HIDE DEF Goes
  <2>5. QED
    BY <2>3, <2>4
<1>2. ASSUME NEW n \in S, n + 1 \in 0..N PROVE n + 1 \in S
  <2>1. PICK f : Goes(f, n)
    OBVIOUS
  <2>2. PICK g : g = [T \in SUBSET (1..n + 1) |->
                        IF n + 1 \in T THEN Enter(p, first, candle, f[T \ {n + 1}], n + 1)
                        ELSE f[T]]
    OBVIOUS
  <2>3. ASSUME NEW T \in SUBSET (1..n + 1)
        PROVE  g[T] = IF T = {} THEN s ELSE Enter(p, first, candle, g[T \ {Max(T)}], Max(T))
    <3>1. CASE n + 1 \in T
      <4>1. Max(T) = n + 1
        BY <1>2, <3>1, LastOne
      <4>2. T \ {n + 1} \in SUBSET (1..n + 1) /\ n + 1 \notin T \ {n + 1} /\ T # {}
        BY <3>1
      <4>3. g[T \ {n + 1}] = f[T \ {n + 1}]
        BY <2>2, <4>2
      <4>4. QED
        BY <2>2, <3>1, <4>1, <4>2, <4>3
    <3>2. CASE n + 1 \notin T
      <4>1. T \in SUBSET (1..n)
        BY <1>2, <3>2
      <4>2. PICK x : x = Max(T)
        OBVIOUS
      <4>3. T \ {x} \in SUBSET (1..n + 1) /\ n + 1 \notin T \ {x}
        BY <3>2
      <4>4. g[T] = f[T] /\ g[T \ {x}] = f[T \ {x}]
        BY <2>2, <3>2, <4>3
      <4>5. f[T] = IF T = {} THEN s ELSE Enter(p, first, candle, f[T \ {x}], x)
        BY <2>1, <4>1, <4>2
      <4>6. QED
        BY <4>2, <4>4, <4>5
    <3>3. QED
      BY <3>1, <3>2
  <2>4. Goes(g, n + 1)
    BY <2>2, <2>3
  <2>5. QED
    BY <1>2, <2>4
<1>3. N \in S
  <2> HIDE DEF S
  <2>1. QED
    BY <1>1, <1>2, Upwards
<1>4. PICK f : f = loop /\ Goes(f, N)
  <2>1. \E f : Goes(f, N)
    BY <1>3
  <2>2. QED
    BY <2>1
<1>5. EnterAll(p, first, candle, s) = f[1..N]
  BY <1>4, Zenon DEF EnterAll, Loop, MapThenFoldSet
<1> HIDE DEF loop
<1>6. PICK h : h = [k \in 0..N |-> f[1..k]]
  OBVIOUS
<1>7. h[0] = s
  <2>1. {} \in SUBSET (1..N) /\ 1..0 = {}
    OBVIOUS
  <2>2. QED
    BY <1>4, <1>6, <2>1
<1>8. ASSUME NEW k \in 1..N PROVE h[k] = Enter(p, first, candle, h[k - 1], k)
  <2>1. /\ Max(1..k) = k /\ (1..k) \ {k} = 1..k - 1
        /\ 1..k \in SUBSET (1..N) /\ 1..k # {}
    BY UpTo
  <2>2. f[1..k] = Enter(p, first, candle, f[1..k - 1], k)
    BY <1>4, <2>1
  <2>3. h[k] = f[1..k] /\ h[k - 1] = f[1..k - 1]
    BY <1>6
  <2>4. QED
    BY <2>2, <2>3
<1>9. EnterAll(p, first, candle, s) = h[N]
  BY <1>5, <1>6
<1>10. QED
  BY <1>7, <1>8, <1>9

\* The independent positions are looked at one by one.
Looking(h, N, s, p, candle) ==
    /\ h[0] = s
    /\ \A k \in 1..N : h[k] = SellIndependent(p, candle, h[k - 1], N + 1 - k)

LEMMA Looks ==
    ASSUME NEW N, NEW s, N = Len(s.independents), N \in Nat, NEW p, NEW candle
    PROVE  \E h : ExitIndependents(p, candle, s) = h[N] /\ Looking(h, N, s, p, candle)
<1> DEFINE Goes(f, n) == f = [T \in SUBSET (1..n) |->
             IF T = {} THEN s
             ELSE SellIndependent(p, candle, f[T \ {Max(T)}], Len(s.independents) + 1 - Max(T))]
           S == {n \in 0..N : \E f : Goes(f, n)}
           loop == CHOOSE f : Goes(f, N)
<1>1. 0 \in S
  <2>1. PICK f : f = [T \in SUBSET (1..0) |-> s]
    OBVIOUS
  <2>2. ASSUME NEW T \in SUBSET (1..0)
        PROVE  f[T] = IF T = {} THEN s
             ELSE SellIndependent(p, candle, f[T \ {Max(T)}], Len(s.independents) + 1 - Max(T))
    <3>1. T = {} /\ f[T] = s
      BY <2>1
    <3>2. QED
      BY <3>1
  <2>3. Goes(f, 0)
    BY <2>1, <2>2
  <2>4. 0 \in 0..N
    OBVIOUS
  <2> HIDE DEF Goes
  <2>5. QED
    BY <2>3, <2>4
<1>2. ASSUME NEW n \in S, n + 1 \in 0..N PROVE n + 1 \in S
  <2>1. PICK f : Goes(f, n)
    OBVIOUS
  <2>2. PICK g : g = [T \in SUBSET (1..n + 1) |->
                        IF n + 1 \in T THEN SellIndependent(p, candle, f[T \ {n + 1}],
                                             Len(s.independents) + 1 - (n + 1))
                        ELSE f[T]]
    OBVIOUS
  <2>3. ASSUME NEW T \in SUBSET (1..n + 1)
        PROVE  g[T] = IF T = {} THEN s
             ELSE SellIndependent(p, candle, g[T \ {Max(T)}], Len(s.independents) + 1 - Max(T))
    <3>1. CASE n + 1 \in T
      <4>1. Max(T) = n + 1
        BY <1>2, <3>1, LastOne
      <4>2. T \ {n + 1} \in SUBSET (1..n + 1) /\ n + 1 \notin T \ {n + 1} /\ T # {}
        BY <3>1
      <4>3. g[T \ {n + 1}] = f[T \ {n + 1}]
        BY <2>2, <4>2
      <4>4. QED
        BY <2>2, <3>1, <4>1, <4>2, <4>3
    <3>2. CASE n + 1 \notin T
      <4>1. T \in SUBSET (1..n)
        BY <1>2, <3>2
      <4>2. PICK x : x = Max(T)
        OBVIOUS
      <4>3. T \ {x} \in SUBSET (1..n + 1) /\ n + 1 \notin T \ {x}
        BY <3>2
      <4>4. g[T] = f[T] /\ g[T \ {x}] = f[T \ {x}]
        BY <2>2, <3>2, <4>3
      <4>5. f[T] = IF T = {} THEN s
             ELSE SellIndependent(p, candle, f[T \ {x}], Len(s.independents) + 1 - x)
        BY <2>1, <4>1, <4>2
      <4>6. QED
        BY <4>2, <4>4, <4>5
    <3>3. QED
      BY <3>1, <3>2
  <2>4. Goes(g, n + 1)
    BY <2>2, <2>3
  <2>5. QED
    BY <1>2, <2>4
<1>3. N \in S
  <2> HIDE DEF S
  <2>1. QED
    BY <1>1, <1>2, Upwards
<1>4. PICK f : f = loop /\ Goes(f, N)
  <2>1. \E f : Goes(f, N)
    BY <1>3
  <2>2. QED
    BY <2>1
<1>5. ExitIndependents(p, candle, s) = f[1..N]
  BY <1>4, Zenon DEF ExitIndependents, Loop, MapThenFoldSet
<1> HIDE DEF loop
<1>6. PICK h : h = [k \in 0..N |-> f[1..k]]
  OBVIOUS
<1>7. h[0] = s
  <2>1. {} \in SUBSET (1..N) /\ 1..0 = {}
    OBVIOUS
  <2>2. QED
    BY <1>4, <1>6, <2>1
<1>8. ASSUME NEW k \in 1..N PROVE h[k] = SellIndependent(p, candle, h[k - 1], N + 1 - k)
  <2>1. /\ Max(1..k) = k /\ (1..k) \ {k} = 1..k - 1
        /\ 1..k \in SUBSET (1..N) /\ 1..k # {}
    BY UpTo
  <2>2. f[1..k] = SellIndependent(p, candle, f[1..k - 1], Len(s.independents) + 1 - k)
    BY <1>4, <2>1
  <2>3. h[k] = f[1..k] /\ h[k - 1] = f[1..k - 1]
    BY <1>6
  <2>4. QED
    BY <2>2, <2>3, Zenon
<1>9. ExitIndependents(p, candle, s) = h[N]
  BY <1>5, <1>6
<1>10. QED
  BY <1>7, <1>8, <1>9 DEF Looking

\* The candles are passed one by one.
Passing(h, N, p, candles) ==
    /\ h[0] = Start
    /\ \A k \in 1..N : h[k] = Pass(p, candles[1].close, h[k - 1], candles[k])

LEMMA Passes ==
    ASSUME NEW N, NEW candles, N = Len(candles), N \in Nat, NEW p
    PROVE  \E h : PassAll(p, candles) = h[N] /\ Passing(h, N, p, candles)
<1> DEFINE Goes(f, n) == f = [T \in SUBSET (1..n) |->
             IF T = {} THEN Start ELSE Pass(p, candles[1].close, f[T \ {Max(T)}], candles[Max(T)])]
           S == {n \in 0..N : \E f : Goes(f, n)}
           loop == CHOOSE f : Goes(f, N)
<1>1. 0 \in S
  <2>1. PICK f : f = [T \in SUBSET (1..0) |-> Start]
    OBVIOUS
  <2>2. ASSUME NEW T \in SUBSET (1..0)
        PROVE  f[T] = IF T = {} THEN Start
                      ELSE Pass(p, candles[1].close, f[T \ {Max(T)}], candles[Max(T)])
    <3>1. T = {} /\ f[T] = Start
      BY <2>1
    <3>2. QED
      BY <3>1
  <2>3. Goes(f, 0)
    BY <2>1, <2>2
  <2>4. 0 \in 0..N
    OBVIOUS
  <2> HIDE DEF Goes
  <2>5. QED
    BY <2>3, <2>4
<1>2. ASSUME NEW n \in S, n + 1 \in 0..N PROVE n + 1 \in S
  <2>1. PICK f : Goes(f, n)
    OBVIOUS
  <2>2. PICK g : g = [T \in SUBSET (1..n + 1) |->
                        IF n + 1 \in T THEN Pass(p, candles[1].close, f[T \ {n + 1}],
                                  candles[n + 1])
                        ELSE f[T]]
    OBVIOUS
  <2>3. ASSUME NEW T \in SUBSET (1..n + 1)
        PROVE  g[T] = IF T = {} THEN Start
                      ELSE Pass(p, candles[1].close, g[T \ {Max(T)}], candles[Max(T)])
    <3>1. CASE n + 1 \in T
      <4>1. Max(T) = n + 1
        BY <1>2, <3>1, LastOne
      <4>2. T \ {n + 1} \in SUBSET (1..n + 1) /\ n + 1 \notin T \ {n + 1} /\ T # {}
        BY <3>1
      <4>3. g[T \ {n + 1}] = f[T \ {n + 1}]
        BY <2>2, <4>2
      <4>4. QED
        BY <2>2, <3>1, <4>1, <4>2, <4>3
    <3>2. CASE n + 1 \notin T
      <4>1. T \in SUBSET (1..n)
        BY <1>2, <3>2
      <4>2. PICK x : x = Max(T)
        OBVIOUS
      <4>3. T \ {x} \in SUBSET (1..n + 1) /\ n + 1 \notin T \ {x}
        BY <3>2
      <4>4. g[T] = f[T] /\ g[T \ {x}] = f[T \ {x}]
        BY <2>2, <3>2, <4>3
      <4>5. f[T] = IF T = {} THEN Start ELSE Pass(p, candles[1].close, f[T \ {x}], candles[x])
        BY <2>1, <4>1, <4>2
      <4>6. QED
        BY <4>2, <4>4, <4>5
    <3>3. QED
      BY <3>1, <3>2
  <2>4. Goes(g, n + 1)
    BY <2>2, <2>3
  <2>5. QED
    BY <1>2, <2>4
<1>3. N \in S
  <2> HIDE DEF S
  <2>1. QED
    BY <1>1, <1>2, Upwards
<1>4. PICK f : f = loop /\ Goes(f, N)
  <2>1. \E f : Goes(f, N)
    BY <1>3
  <2>2. QED
    BY <2>1
<1>5. PassAll(p, candles) = f[1..N]
  BY <1>4, Zenon DEF PassAll, Loop, MapThenFoldSet
<1> HIDE DEF loop
<1>6. PICK h : h = [k \in 0..N |-> f[1..k]]
  OBVIOUS
<1>7. h[0] = Start
  <2>1. {} \in SUBSET (1..N) /\ 1..0 = {}
    OBVIOUS
  <2>2. QED
    BY <1>4, <1>6, <2>1
<1>8. ASSUME NEW k \in 1..N PROVE h[k] = Pass(p, candles[1].close, h[k - 1], candles[k])
  <2>1. /\ Max(1..k) = k /\ (1..k) \ {k} = 1..k - 1
        /\ 1..k \in SUBSET (1..N) /\ 1..k # {}
    BY UpTo
  <2>2. f[1..k] = Pass(p, candles[1].close, f[1..k - 1], candles[k])
    BY <1>4, <2>1
  <2>3. h[k] = f[1..k] /\ h[k - 1] = f[1..k - 1]
    BY <1>6
  <2>4. QED
    BY <2>2, <2>3
<1>9. PassAll(p, candles) = h[N]
  BY <1>5, <1>6
<1>10. QED
  BY <1>7, <1>8, <1>9 DEF Passing

LEMMA SaleKeepsWaiting ==
    ASSUME NEW p, NEW candle, NEW s, NEW t, NEW x, Steps(p, candle, s, t, x), x.type \in Exits,
           NEW first, Waits(p, first, s)
    PROVE  Waits(p, first, t)
<1>1. SoldAll(candle, s, t, x) \/ SoldOne(candle, s, t, x)
  <2>1. ~Bought(p, candle, s, t, x)
    BY DEF Bought, Entries, Exits
  <2>2. QED
    BY <2>1 DEF Steps
<1>2. t.entries = s.entries
  BY <1>1 DEF SoldAll, SoldOne
<1>3. ASSUME NEW price \in Nat, Dear(s, price) PROVE Dear(t, price)
  <2>1. /\ s.quantity * price <= s.cost /\ s.independents \in Seq(LotRow)
        /\ \A j \in DOMAIN s.independents : s.independents[j].quantity * price <= s.independents[j].cost
    BY <1>3 DEF Dear, Steps, StateRow
  <2>2. CASE SoldAll(candle, s, t, x)
    <3>1. t.quantity = 0 /\ t.cost = 0 /\ t.independents = s.independents
      BY <2>2 DEF SoldAll
    <3>2. 0 * price <= 0
      OBVIOUS
    <3>3. QED
      BY <2>1, <3>1, <3>2 DEF Dear
  <2>3. CASE SoldOne(candle, s, t, x)
    <3>1. t.quantity = s.quantity /\ t.cost = s.cost
      BY <2>3 DEF SoldOne
    <3>2. PICK i \in DOMAIN s.independents : t.independents = RemoveAt(s.independents, i)
      BY <2>3 DEF SoldOne
    <3>3. PICK m, u, w : m = Len(s.independents) /\ u = s.independents /\ w = t.independents
      OBVIOUS
    <3>4. /\ m \in Nat \ {0} /\ DOMAIN u = 1..m /\ DOMAIN w = 1..m - 1
          /\ \A j \in 1..m - 1 : w[j] = IF j < i THEN u[j] ELSE u[j + 1]
      <4>1. u \in Seq(LotRow) /\ i \in DOMAIN u /\ w = RemoveAt(u, i) /\ m = Len(u)
        BY <2>1, <3>2, <3>3
      <4>2. QED
        BY <4>1, ListRemoved
    <3>5. \A j \in 1..m - 1 : j \in 1..m /\ j + 1 \in 1..m
      BY <3>4
    <3>6. \A j \in DOMAIN w : w[j].quantity * price <= w[j].cost
      BY <2>1, <3>3, <3>4, <3>5
    <3>7. QED
      BY <2>1, <3>1, <3>3, <3>6 DEF Dear
  <2>4. QED
    BY <1>1, <2>2, <2>3
<1>4. QED
  BY <1>2, <1>3 DEF Waits

-----------------------------------------------------------------------------
(* What a candle buys *)

Buying(p, candles, k, first, s, h, m) ==
    /\ Along(p, candles, k, h)
    /\ Free(h, Exits, candles[k].slot)
    /\ h = s \/ Dear(h, candles[k].close)
    /\ h.entries < m => ~Reached(candles[k].close, first, h.entries + 1)

LEMMA EnterEnters ==
    ASSUME NEW p, NEW first, NEW candle, NEW s \in StateRow, NEW level, level = s.entries + 1,
           Reached(candle.close, first, level)
    PROVE  Enter(p, first, candle, s, level).entries = level
<1> DEFINE allocation == Allocation(p, level)
           spend == IF allocation < s.quote THEN allocation ELSE s.quote
           bought == spend \div candle.close
           alone == level >= p.from
           lot == [level |-> level, quantity |-> bought, cost |-> spend]
           trade == [type |-> IF alone THEN "INDEPENDENT_ENTRY" ELSE "PARENT_ENTRY",
                     level |-> level, slot |-> candle.slot, quantity |-> bought,
                     quote |-> spend, pnl |-> 0]
<1>1. Enter(p, first, candle, s, level)
        = [s EXCEPT
             !.quote = @ - spend,
             !.entries = level,
             !.quantity = IF alone THEN @ ELSE @ + bought,
             !.cost = IF alone THEN @ ELSE @ + spend,
             !.independents = IF ~alone THEN @ ELSE Append(@, lot),
             !.trades = Append(@, trade)]
  BY Zenon DEF Enter
<1>2. PICK a, b, c, d, e : /\ a = s.quote - spend
                           /\ b = IF alone THEN s.quantity ELSE s.quantity + bought
                           /\ c = IF alone THEN s.cost ELSE s.cost + spend
                           /\ d = IF ~alone THEN s.independents ELSE Append(s.independents, lot)
                           /\ e = Append(s.trades, trade)
  OBVIOUS
<1>3. PICK t : t = Enter(p, first, candle, s, level)
  OBVIOUS
<1> HIDE DEF spend, bought, alone, lot, trade
<1>4. t = [s EXCEPT !.quote = a, !.entries = level, !.quantity = b, !.cost = c,
                    !.independents = d, !.trades = e]
  BY <1>1, <1>2, <1>3
<1>5. t.entries = level
  BY <1>4 DEF StateRow
<1>6. QED
  BY <1>3, <1>5

LEMMA BuysOne ==
    ASSUME NEW p, Playable(p), NEW candles, Ordered(candles), NEW k \in DOMAIN candles,
           NEW first, NEW s, Waits(p, first, s), NEW m \in 1..p.maxEntries,
           Allocation(p, m) >= candles[k].close,
           NEW h, Buying(p, candles, k, first, s, h, m - 1),
           NEW t, t = Enter(p, first, candles[k], h, m)
    PROVE  Buying(p, candles, k, first, s, t, m)
<1>1. PICK candle \in Candle : candle = candles[k]
  BY DEF Ordered
<1>2. /\ Along(p, candles, k, h) /\ Free(h, Exits, candle.slot)
      /\ h = s \/ Dear(h, candle.close)
      /\ h.entries < m - 1 => ~Reached(candle.close, first, h.entries + 1)
  BY <1>1 DEF Buying
<1>3. Kept(p, h) /\ h \in StateRow /\ h.entries \in Nat
  BY <1>2 DEF Along, Core, Kept, StateRow
<1>4. m \in Nat \ {0} /\ p.maxEntries \in Nat
  BY DEF Playable
<1>5. CASE t = h
  <2>1. SUFFICES ASSUME h.entries < m PROVE ~Reached(candle.close, first, h.entries + 1)
    BY <1>1, <1>2, <1>5 DEF Buying
  <2>2. CASE h.entries < m - 1
    BY <1>2, <2>2
  <2>3. CASE ~(h.entries < m - 1)
    <3>1. m = h.entries + 1
      BY <1>3, <1>4, <2>1, <2>3
    <3>2. SUFFICES ASSUME Reached(candle.close, first, m) PROVE FALSE
      BY <3>1
    <3>3. t.entries = m
      <4>1. Enter(p, first, candle, h, m).entries = m
        BY <1>3, <3>1, <3>2, EnterEnters
      <4>2. QED
        BY <1>1, <4>1
    <3>4. QED
      BY <1>3, <1>5, <3>1, <3>3
  <2>4. QED
    BY <2>2, <2>3
<1>6. CASE t # h
  <2>1. /\ Kept(p, t) /\ m = h.entries + 1 /\ Reached(candle.close, first, m)
        /\ \E x : Traded(h, t, x) /\ Bought(p, candle, h, t, x)
    BY <1>1, <1>3, <1>6, EnterBuys
  <2>2. PICK x : Traded(h, t, x) /\ Bought(p, candle, h, t, x)
    BY <2>1
  <2>3. Steps(p, candle, h, t, x) /\ x.type \in Entries /\ t.entries = m
    BY <1>3, <2>1, <2>2 DEF Steps, Kept, Bought
  <2>4. Along(p, candles, k, t) /\ Free(t, Exits, candle.slot)
    <3>1. Opposite(Entries, Exits) /\ Steps(p, candles[k], h, t, x)
          /\ Free(h, Exits, candles[k].slot)
      BY <1>1, <1>2, <2>3 DEF Opposite
    <3>2. Along(p, candles, k, t) /\ Free(t, Exits, candles[k].slot)
      BY <1>2, <2>1, <2>3, <3>1, AlongGoesOn
    <3>3. QED
      BY <1>1, <3>2
  <2>5. Dear(h, candle.close)
    <3>1. CASE h = s
      <4>1. h.entries < p.maxEntries
        BY <1>3, <1>4, <2>1
      <4>2. candle.close \in Nat
        BY DEF Candle
      <4>3. QED
        BY <2>1, <3>1, <4>1, <4>2 DEF Waits
    <3>2. QED
      BY <1>2, <3>1
  <2>6. Dear(t, candle.close)
    BY <2>2, <2>3, <2>5, DearGoesOn
  <2>7. ~(t.entries < m)
    BY <1>4, <2>3
  <2>8. QED
    BY <1>1, <2>4, <2>6, <2>7 DEF Buying
<1>7. QED
  BY <1>5, <1>6

LEMMA BuysAll ==
    ASSUME NEW p, Playable(p), NEW candles, Ordered(candles), NEW k \in DOMAIN candles,
           NEW first \in Nat, NEW s, Along(p, candles, k, s), Waits(p, first, s),
           Free(s, Exits, candles[k].slot), Affords(p, {candles[k].close}),
           NEW t, t = EnterAll(p, first, candles[k], s)
    PROVE  Along(p, candles, k, t) /\ Waits(p, first, t) /\ (t = s \/ Dear(t, candles[k].close))
<1>1. PICK N \in Nat \ {0} : N = p.maxEntries
  BY DEF Playable
<1>2. PICK f : /\ EnterAll(p, first, candles[k], s) = f[N] /\ f[0] = s
               /\ \A m \in 1..N : f[m] = Enter(p, first, candles[k], f[m - 1], m)
  <2>1. PICK candle : candle = candles[k]
    OBVIOUS
  <2>2. \E f : /\ EnterAll(p, first, candle, s) = f[N] /\ f[0] = s
               /\ \A m \in 1..N : f[m] = Enter(p, first, candle, f[m - 1], m)
    BY <1>1, Climbs
  <2>3. QED
    BY <2>1, <2>2
<1> DEFINE S == {n \in 0..N : Buying(p, candles, k, first, s, f[n], n)}
<1>3. 0 \in S
  <2>1. s.entries \in Nat
    BY DEF Along, Core, Kept, StateRow
  <2>2. Buying(p, candles, k, first, s, s, 0)
    BY <2>1 DEF Buying
  <2>3. QED
    BY <1>2, <2>2
<1>4. ASSUME NEW n \in S, n + 1 \in 0..N PROVE n + 1 \in S
  <2>1. n + 1 \in 1..N /\ (n + 1) - 1 = n
    BY <1>4
  <2>2. PICK m : m = n + 1
    OBVIOUS
  <2>3. m \in 1..p.maxEntries /\ m - 1 = n
    BY <1>1, <2>1, <2>2
  <2>4. f[m] = Enter(p, first, candles[k], f[n], m)
    BY <1>1, <1>2, <2>3
  <2>5. Buying(p, candles, k, first, s, f[n], m - 1)
    BY <2>3
  <2>6. Allocation(p, m) >= candles[k].close
    BY <2>3 DEF Affords
  <2>7. Buying(p, candles, k, first, s, f[m], m)
    BY <2>3, <2>4, <2>5, <2>6, BuysOne
  <2>8. QED
    BY <1>4, <2>2, <2>7
<1>5. Buying(p, candles, k, first, s, t, N)
  <2>1. N \in S
    <3> HIDE DEF S
    <3>1. QED
      BY <1>3, <1>4, Upwards
  <2>2. QED
    BY <1>2, <2>1
<1>6. PICK c \in Nat : c = candles[k].close
  <2>1. candles[k] \in Candle
    BY DEF Ordered
  <2>2. QED
    BY <2>1 DEF Candle
<1>7. /\ Along(p, candles, k, t) /\ (t = s \/ Dear(t, c))
      /\ t.entries < N => ~Reached(c, first, t.entries + 1)
  BY <1>5, <1>6 DEF Buying
<1>8. t \in StateRow /\ t.entries \in Nat
  <2>1. t \in StateRow
    BY <1>7 DEF Along, Core, Kept
  <2>2. QED
    BY <2>1 DEF StateRow
<1>9. CASE t = s
  BY <1>7, <1>9
<1>10. CASE Dear(t, c)
  <2>1. SUFFICES Waits(p, first, t)
    BY <1>6, <1>7, <1>10
  <2>2. SUFFICES ASSUME t.entries < N, NEW price \in Nat, Reached(price, first, t.entries + 1)
                 PROVE  Dear(t, price)
    BY <1>1 DEF Waits
  <2>3. PICK l \in Nat : l = t.entries
    BY <1>8
  <2>4. PICK y \in Int : y = first * (100 - Step * ((t.entries + 1) - 1))
    BY <2>3, SimulatorAssumption
  <2>5. price * 100 <= y /\ ~(c * 100 <= y)
    BY <1>7, <2>2, <2>4 DEF Reached
  <2>6. price <= c
    BY <2>4, <2>5
  <2>7. QED
    BY <1>8, <1>10, <2>6, Dearer
<1>11. QED
  BY <1>6, <1>7, <1>9, <1>10

-----------------------------------------------------------------------------
(* What a candle sells *)

\* Who has just bought sells nothing.
LEMMA NothingToSell ==
    ASSUME NEW p, Playable(p), p.target # 0, NEW candle \in Candle, NEW s, Kept(p, s),
           Dear(s, candle.close)
    PROVE  /\ ExitParent(p, candle, s) = s
           /\ \A index \in DOMAIN s.independents : SellIndependent(p, candle, s, index) = s
<1>1. PICK c \in Nat : c = candle.close
  BY DEF Candle
<1>2. /\ s.quantity \in Nat /\ s.cost \in Nat /\ s.independents \in Seq(LotRow)
      /\ s.quantity = 0 <=> s.cost = 0
  BY DEF Kept, StateRow
<1>3. ExitParent(p, candle, s) = s
  <2>1. SUFFICES ASSUME ExitParent(p, candle, s) # s PROVE FALSE
    OBVIOUS
  <2>2. Profitable(p, c, s.quantity, s.cost) /\ s.quantity # 0
    BY <1>1, <2>1, ExitSells
  <2>3. s.cost \in Nat \ {0}
    BY <1>2, <2>2
  <2>4. s.quantity * c > s.cost
    BY <1>2, <2>2, <2>3, ProfitIsPositive
  <2>5. s.quantity * c <= s.cost
    BY <1>1 DEF Dear
  <2>6. PICK a \in Nat, b \in Nat : a = s.quantity * c /\ b = s.cost
    BY <1>2
  <2>7. QED
    BY <2>4, <2>5, <2>6
<1>4. ASSUME NEW index \in DOMAIN s.independents
      PROVE  SellIndependent(p, candle, s, index) = s
  <2>1. SUFFICES ASSUME SellIndependent(p, candle, s, index) # s PROVE FALSE
    OBVIOUS
  <2>2. PICK l \in LotRow : l = s.independents[index]
    BY <1>2
  <2>3. Profitable(p, c, l.quantity, l.cost)
    BY <1>1, <2>1, <2>2, SellSells
  <2>4. l.quantity \in Nat /\ l.cost \in Nat \ {0}
    BY DEF LotRow
  <2>5. l.quantity * c > l.cost
    BY <2>3, <2>4, ProfitIsPositive
  <2>6. l.quantity * c <= l.cost
    BY <1>1, <2>2 DEF Dear
  <2>7. PICK a \in Nat, b \in Nat : a = l.quantity * c /\ b = l.cost
    BY <2>4
  <2>8. QED
    BY <2>5, <2>6, <2>7
<1>5. QED
  BY <1>3, <1>4

LEMMA SellsNothing ==
    ASSUME NEW p, Playable(p), p.target # 0, NEW candle \in Candle, NEW s, Kept(p, s),
           Dear(s, candle.close)
    PROVE  ExitParent(p, candle, s) = s /\ ExitIndependents(p, candle, s) = s
<1>1. PICK N \in Nat : N = Len(s.independents) /\ DOMAIN s.independents = 1..N
  BY DEF Kept, StateRow
<1>2. PICK f : ExitIndependents(p, candle, s) = f[N] /\ Looking(f, N, s, p, candle)
  BY <1>1, Looks
<1> DEFINE S == {n \in 0..N : f[n] = s}
<1>3. 0 \in S
  BY <1>2 DEF Looking
<1>4. ASSUME NEW n \in S, n + 1 \in 0..N PROVE n + 1 \in S
  <2>1. PICK index : index = N + 1 - (n + 1)
    OBVIOUS
  <2>2. f[n + 1] = SellIndependent(p, candle, s, index)
    <3>1. n + 1 \in 1..N /\ (n + 1) - 1 = n
      BY <1>4
    <3>2. QED
      BY <1>2, <1>4, <2>1, <3>1 DEF Looking
  <2>3. index \in DOMAIN s.independents
    <3>1. n \in 0..N /\ n + 1 \in 0..N
      BY <1>4
    <3>2. index \in 1..N
      BY <2>1, <3>1
    <3>3. QED
      BY <1>1, <3>2
  <2>4. f[n + 1] = s
    BY <2>2, <2>3, NothingToSell
  <2>5. QED
    BY <1>4, <2>4
<1>5. N \in S
  <2> HIDE DEF S
  <2>1. QED
    BY <1>3, <1>4, Upwards
<1>6. QED
  BY <1>2, <1>5, NothingToSell

Selling(p, candles, k, first, s) ==
    /\ Along(p, candles, k, s)
    /\ Free(s, Entries, candles[k].slot)
    /\ Waits(p, first, s)

LEMMA SellsOn ==
    ASSUME NEW p, NEW candles, Ordered(candles), NEW k \in DOMAIN candles, NEW first,
           NEW s, Selling(p, candles, k, first, s), NEW t, Kept(p, t),
           NEW x, Traded(s, t, x), SoldAll(candles[k], s, t, x) \/ SoldOne(candles[k], s, t, x)
    PROVE  Selling(p, candles, k, first, t)
<1>1. /\ Along(p, candles, k, s) /\ Free(s, Entries, candles[k].slot) /\ Waits(p, first, s)
  BY DEF Selling
<1>2. s \in StateRow /\ t \in StateRow
  BY <1>1 DEF Along, Core, Kept
<1>3. Steps(p, candles[k], s, t, x)
  BY <1>2 DEF Steps
<1>4. x.type \in Exits /\ Opposite(Exits, Entries)
  BY DEF SoldAll, SoldOne, Exits, Opposite
<1>5. Along(p, candles, k, t) /\ Free(t, Entries, candles[k].slot)
  BY <1>1, <1>3, <1>4, AlongGoesOn
<1>6. Waits(p, first, t)
  BY <1>1, <1>3, <1>4, SaleKeepsWaiting
<1>7. QED
  BY <1>5, <1>6 DEF Selling

LEMMA SellsParent ==
    ASSUME NEW p, Playable(p), p.target # 0, NEW candles, Ordered(candles), NEW k \in DOMAIN candles,
           NEW first, NEW s, Selling(p, candles, k, first, s),
           NEW t, t = ExitParent(p, candles[k], s)
    PROVE  Selling(p, candles, k, first, t)
<1>1. CASE t = s
  BY <1>1
<1>2. CASE t # s
  <2>1. PICK candle \in Candle : candle = candles[k]
    BY DEF Ordered
  <2>2. Kept(p, s)
    BY DEF Selling, Along, Core
  <2>3. Kept(p, t) /\ \E x : Traded(s, t, x) /\ SoldAll(candle, s, t, x)
    BY <1>2, <2>1, <2>2, ExitSells
  <2>4. PICK x : Traded(s, t, x) /\ SoldAll(candles[k], s, t, x)
    BY <2>1, <2>3
  <2>5. QED
    BY <2>3, <2>4, SellsOn
<1>3. QED
  BY <1>1, <1>2

LEMMA SellsIndependent ==
    ASSUME NEW p, Playable(p), p.target # 0, NEW candles, Ordered(candles), NEW k \in DOMAIN candles,
           NEW first, NEW s, Selling(p, candles, k, first, s), NEW index \in DOMAIN s.independents,
           NEW t, t = SellIndependent(p, candles[k], s, index)
    PROVE  /\ Selling(p, candles, k, first, t)
           /\ t.independents = s.independents \/ t.independents = RemoveAt(s.independents, index)
<1>1. CASE t = s
  BY <1>1
<1>2. CASE t # s
  <2>1. PICK candle \in Candle : candle = candles[k]
    BY DEF Ordered
  <2>2. Kept(p, s)
    BY DEF Selling, Along, Core
  <2>3. /\ Kept(p, t) /\ t.independents = RemoveAt(s.independents, index)
        /\ \E x : Traded(s, t, x) /\ SoldOne(candle, s, t, x)
    BY <1>2, <2>1, <2>2, SellSells
  <2>4. PICK x : Traded(s, t, x) /\ SoldOne(candles[k], s, t, x)
    BY <2>1, <2>3
  <2>5. Selling(p, candles, k, first, t)
    BY <2>3, <2>4, SellsOn
  <2>6. QED
    BY <2>3, <2>5
<1>3. QED
  BY <1>1, <1>2

LEMMA SellsAll ==
    ASSUME NEW p, Playable(p), p.target # 0, NEW candles, Ordered(candles), NEW k \in DOMAIN candles,
           NEW first, NEW s, Selling(p, candles, k, first, s),
           NEW t, t = ExitIndependents(p, candles[k], s)
    PROVE  Selling(p, candles, k, first, t)
<1>1. \A h : Selling(p, candles, k, first, h) => h.independents \in Seq(LotRow)
  BY DEF Selling, Along, Core, Kept, StateRow
<1>2. PICK N \in Nat : N = Len(s.independents)
  BY <1>1
<1>3. PICK f : t = f[N] /\ Looking(f, N, s, p, candles[k])
  <2>1. PICK candle : candle = candles[k]
    OBVIOUS
  <2>2. \E f : ExitIndependents(p, candle, s) = f[N] /\ Looking(f, N, s, p, candle)
    BY <1>2, Looks
  <2>3. QED
    BY <2>1, <2>2
<1> DEFINE S == {n \in 0..N : /\ Selling(p, candles, k, first, f[n])
                              /\ N - n <= Len(f[n].independents)}
<1>4. 0 \in S
  BY <1>2, <1>3 DEF Looking
<1>5. ASSUME NEW n \in S, n + 1 \in 0..N PROVE n + 1 \in S
  <2>1. PICK h, u : h = f[n] /\ u = h.independents
    OBVIOUS
  <2>2. PICK i : i = N + 1 - (n + 1)
    OBVIOUS
  <2>3. PICK m \in Nat : m = Len(u) /\ DOMAIN u = 1..m /\ u \in Seq(LotRow) /\ N - n <= m
    BY <1>1, <2>1
  <2>4. i \in 1..m /\ i = N - n
    BY <1>5, <2>2, <2>3
  <2>5. PICK g, w : g = f[n + 1] /\ w = g.independents
    OBVIOUS
  <2>6. g = SellIndependent(p, candles[k], h, i)
    <3>1. n + 1 \in 1..N /\ (n + 1) - 1 = n
      BY <1>5
    <3>2. QED
      BY <1>3, <2>1, <2>2, <2>5, <3>1 DEF Looking
  <2>7. Selling(p, candles, k, first, g) /\ (w = u \/ w = RemoveAt(u, i))
    <3>1. Selling(p, candles, k, first, h) /\ i \in DOMAIN h.independents
      BY <2>1, <2>3, <2>4
    <3>2. /\ Selling(p, candles, k, first, g)
          /\ g.independents = h.independents \/ g.independents = RemoveAt(h.independents, i)
      BY <2>6, <3>1, SellsIndependent
    <3>3. QED
      BY <2>1, <2>5, <3>2
  <2>8. Len(w) \in Nat /\ m - 1 <= Len(w)
    <3>1. CASE w = u
      BY <2>3, <3>1
    <3>2. CASE w = RemoveAt(u, i)
      <4>1. Len(u) \in Nat \ {0} /\ Len(w) = Len(u) - 1
        BY <2>3, <2>4, <3>2, ListRemoved
      <4>2. QED
        BY <2>3, <4>1
    <3>3. QED
      BY <2>7, <3>1, <3>2
  <2>9. N - (n + 1) <= Len(w)
    BY <1>5, <2>3, <2>8
  <2>10. QED
    BY <1>5, <2>5, <2>7, <2>9
<1>6. N \in S
  <2> HIDE DEF S
  <2>1. QED
    BY <1>4, <1>5, Upwards
<1>7. QED
  BY <1>3, <1>6

-----------------------------------------------------------------------------
(* From candle to candle *)

Passed(p, candles, k, s) ==
    /\ Core(p, s) /\ OneSided(s)
    /\ Curve(s, candles, k)
    /\ Waits(p, candles[1].close, s)
    /\ k = 0 => s.trades = <<>>
    /\ k # 0 => Dated(s, candles[k].slot)

\* The next candle finds no trade of its own.
LEMMA NextCandleIsNew ==
    ASSUME NEW p, NEW candles, Ordered(candles), NEW k \in DOMAIN candles,
           NEW s, Passed(p, candles, k - 1, s)
    PROVE  /\ Along(p, candles, k, s)
           /\ \A T : Free(s, T, candles[k].slot)
<1>1. PICK N \in Nat : N = Len(candles) /\ DOMAIN candles = 1..N
  BY DEF Ordered
<1>2. /\ Core(p, s) /\ OneSided(s) /\ Curve(s, candles, k - 1)
      /\ k - 1 = 0 => s.trades = <<>>
      /\ k - 1 # 0 => Dated(s, candles[k - 1].slot)
  BY DEF Passed
<1>3. s.trades \in Seq(TradeRow)
  BY <1>2 DEF Core, Kept, StateRow
<1>4. ASSUME NEW i \in DOMAIN s.trades PROVE s.trades[i].slot < candles[k].slot /\ s.trades[i].slot \in Nat
  <2>1. k - 1 # 0
    BY <1>2
  <2>2. k - 1 \in DOMAIN candles /\ k - 1 < k
    BY <1>1, <2>1
  <2>3. candles[k - 1] \in Candle /\ candles[k] \in Candle /\ candles[k - 1].slot < candles[k].slot
    BY <2>2 DEF Ordered
  <2>4. s.trades[i].slot <= candles[k - 1].slot
    BY <1>2, <2>1 DEF Dated
  <2>5. s.trades[i] \in TradeRow
    BY <1>3
  <2>6. PICK a \in Nat, b \in Nat, c \in Nat :
          a = s.trades[i].slot /\ b = candles[k - 1].slot /\ c = candles[k].slot
    BY <2>3, <2>5 DEF TradeRow, Candle
  <2>7. QED
    BY <2>3, <2>4, <2>6
<1>5. candles[k].slot \in Nat
  <2>1. candles[k] \in Candle
    BY DEF Ordered
  <2>2. QED
    BY <2>1 DEF Candle
<1>6. Dated(s, candles[k].slot)
  BY <1>4, <1>5 DEF Dated
<1>7. ASSUME NEW T PROVE Free(s, T, candles[k].slot)
  <2>1. ASSUME NEW i \in OfType(s.trades, T) PROVE s.trades[i].slot # candles[k].slot
    <3>1. i \in DOMAIN s.trades
      BY DEF OfType
    <3>2. QED
      BY <1>4, <1>5, <3>1
  <2>2. QED
    BY <2>1 DEF Free
<1>8. QED
  BY <1>2, <1>6, <1>7 DEF Along

\* A candle ends with its point of the curve.
LEMMA Measures ==
    ASSUME NEW p, NEW candles, Ordered(candles), NEW k \in DOMAIN candles,
           NEW s, Along(p, candles, k, s), Waits(p, candles[1].close, s),
           NEW t, t = Measure(candles[k], s)
    PROVE  Passed(p, candles, k, t) /\ Equity(t, candles[k].close) = Equity(s, candles[k].close)
<1> DEFINE equity == Equity(s, candles[k].close)
           peak == IF equity > s.peak THEN equity ELSE s.peak
           point == [slot |-> candles[k].slot, equity |-> equity, drawdown |-> <<peak - equity, peak>>]
<1>1. t = [s EXCEPT !.peak = peak, !.drawdown = Worse(@, <<peak - equity, peak>>),
                    !.equity = Append(@, point)]
  BY Zenon DEF Measure
<1>2. candles[k] \in Candle /\ candles[k].slot \in Nat /\ candles[k].close \in Nat
  <2>1. candles[k] \in Candle
    BY DEF Ordered
  <2>2. QED
    BY <2>1 DEF Candle
<1>3. /\ Core(p, s) /\ OneSided(s) /\ Curve(s, candles, k - 1) /\ Dated(s, candles[k].slot)
      /\ Kept(p, s) /\ Books(s) /\ Rungs(s) /\ Lots(s)
  BY DEF Along, Core
<1>4. s \in StateRow
  BY <1>3 DEF Kept
<1>5. equity \in Int
  <2>1. s.quote \in Nat /\ s.quantity \in Nat /\ s.independents \in Seq(LotRow)
    BY <1>4 DEF StateRow
  <2>2. Loose(s.independents) \in Nat
    BY <2>1, StockIs
  <2>3. PICK a \in Nat, c \in Nat : a = s.quantity + Loose(s.independents) /\ c = candles[k].close
    BY <1>2, <2>1, <2>2
  <2>4. a * c \in Nat
    OBVIOUS
  <2>5. QED
    BY <2>1, <2>3, <2>4 DEF Equity
<1>6. peak \in Int /\ s.drawdown \in Int \X Int /\ s.equity \in Seq(PointRow)
  BY <1>4, <1>5 DEF StateRow
<1>7. PICK e \in Int, h \in Int : e = equity /\ h = peak
  BY <1>5, <1>6
<1>8. PICK d \in Int \X Int : d = <<peak - equity, peak>>
  <2>1. <<h - e, h>> \in Int \X Int
    OBVIOUS
  <2>2. QED
    BY <1>7, <2>1
<1>9. PICK x : x = point
  OBVIOUS
<1>10. x.equity = e /\ x \in PointRow
  BY <1>2, <1>7, <1>9, <1>8 DEF PointRow
<1> HIDE DEF point, peak, equity
<1>11. PICK w \in Int \X Int : w = Worse(s.drawdown, d)
  BY <1>6, Zenon DEF Worse
<1>12. PICK l \in Seq(PointRow) : l = Append(s.equity, x)
  <2>1. Append(s.equity, x) \in Seq(PointRow)
    BY <1>6, <1>10, ListAppended
  <2>2. QED
    BY <2>1
<1>13. t = [s EXCEPT !.peak = h, !.drawdown = w, !.equity = l]
  BY <1>1, <1>7, <1>9, <1>8, <1>11, <1>12
<1>14. /\ t \in StateRow /\ t.trades = s.trades /\ t.independents = s.independents
       /\ t.entries = s.entries /\ t.quote = s.quote /\ t.quantity = s.quantity /\ t.cost = s.cost
       /\ t.equity = l
  BY <1>4, <1>13 DEF StateRow
<1>15. Core(p, t)
  <2>1. Kept(p, t)
    BY <1>3, <1>14 DEF Kept
  <2>2. Books(t)
    BY <1>3, <1>14 DEF Books
  <2>3. Rungs(t)
    BY <1>3, <1>14 DEF Rungs
  <2>4. Lots(t)
    BY <1>3, <1>14 DEF Lots
  <2>5. QED
    BY <2>1, <2>2, <2>3, <2>4 DEF Core
<1>16. OneSided(t) /\ Dated(t, candles[k].slot)
  BY <1>3, <1>14 DEF OneSided, Dated
<1>17. Waits(p, candles[1].close, t)
  BY <1>14 DEF Waits, Dear
<1>18. Curve(t, candles, k)
  <2>1. k \in Nat \ {0}
    BY DEF Ordered
  <2>2. /\ Len(s.equity) = k - 1
        /\ \A j \in 1..k - 1 : PointExplained(s.trades, s.equity[j], candles[j])
    BY <1>3 DEF Curve
  <2>3. Len(l) = k /\ l[k] = x /\ \A j \in 1..k - 1 : l[j] = s.equity[j]
    BY <1>6, <1>10, <1>12, <2>1, <2>2
  <2>4. PointExplained(s.trades, x, candles[k])
    <3>1. x.equity = Equity(s, candles[k].close)
      BY <1>7, <1>10 DEF equity
    <3>2. PICK candle \in Candle : candle = candles[k]
      BY <1>2
    <3>3. QED
      BY <1>3, <3>1, <3>2, MeasureExplains
  <2>5. \A j \in 1..k : j \in 1..k - 1 \/ j = k
    BY <2>1
  <2>6. \A j \in 1..k : PointExplained(t.trades, l[j], candles[j])
    BY <1>14, <2>2, <2>3, <2>4, <2>5
  <2>7. QED
    BY <1>14, <2>3, <2>6 DEF Curve
<1>19. Equity(t, candles[k].close) = Equity(s, candles[k].close)
  BY <1>14 DEF Equity
<1>20. k # 0
  BY DEF Ordered
<1>21. QED
  BY <1>15, <1>16, <1>17, <1>18, <1>19, <1>20 DEF Passed

LEMMA PassGoesOn ==
    ASSUME NEW p, Playable(p), NEW candles, Ordered(candles), NEW k \in DOMAIN candles,
           Affords(p, {candles[k].close}), NEW s, Passed(p, candles, k - 1, s),
           NEW t, t = Pass(p, candles[1].close, s, candles[k])
    PROVE  Passed(p, candles, k, t)
<1>1. PICK first \in Nat : first = candles[1].close
  <2>1. 1 \in DOMAIN candles
    BY DEF Ordered
  <2>2. candles[1] \in Candle
    BY <2>1 DEF Ordered
  <2>3. QED
    BY <2>2 DEF Candle
<1>2. PICK candle \in Candle : candle = candles[k]
  BY DEF Ordered
<1>3. Along(p, candles, k, s) /\ Free(s, Exits, candle.slot) /\ Free(s, Entries, candle.slot)
  BY <1>2, NextCandleIsNew
<1>4. Waits(p, first, s)
  BY <1>1 DEF Passed
<1>5. PICK a : a = EnterAll(p, first, candles[k], s)
  OBVIOUS
<1>6. Along(p, candles, k, a) /\ Waits(p, first, a) /\ (a = s \/ Dear(a, candle.close))
  BY <1>2, <1>3, <1>4, <1>5, BuysAll
<1>7. PICK b : b = ExitParent(p, candles[k], a)
  OBVIOUS
<1>8. PICK c : c = IF p.target = 0 THEN a ELSE ExitIndependents(p, candles[k], b)
  OBVIOUS
<1>9. t = Measure(candles[k], c)
  BY <1>1, <1>5, <1>7, <1>8, Zenon DEF Pass
<1>10. Along(p, candles, k, c) /\ Waits(p, first, c)
  <2>1. CASE p.target = 0
    BY <1>6, <1>8, <2>1
  <2>2. CASE p.target # 0 /\ Dear(a, candle.close)
    <3>1. Kept(p, a)
      BY <1>6 DEF Along, Core
    <3>2. ExitParent(p, candle, a) = a /\ ExitIndependents(p, candle, a) = a
      BY <2>2, <3>1, SellsNothing
    <3>3. c = a
      BY <1>2, <1>7, <1>8, <2>2, <3>2
    <3>4. QED
      BY <1>6, <3>3
  <2>3. CASE p.target # 0 /\ a = s
    <3>1. Selling(p, candles, k, first, a)
      BY <1>2, <1>3, <1>6, <2>3 DEF Selling
    <3>2. Selling(p, candles, k, first, b)
      BY <1>7, <2>3, <3>1, SellsParent
    <3>3. Selling(p, candles, k, first, c)
      BY <1>8, <2>3, <3>2, SellsAll
    <3>4. QED
      BY <3>3 DEF Selling
  <2>4. QED
    BY <1>6, <2>1, <2>2, <2>3
<1>11. QED
  BY <1>1, <1>9, <1>10, Measures

LEMMA StartPasses ==
    ASSUME NEW p, Playable(p), NEW candles
    PROVE  Passed(p, candles, 0, Start)
<1>1. /\ Start.quote = Capital /\ Start.quantity = 0 /\ Start.cost = 0 /\ Start.independents = <<>>
      /\ Start.entries = 0 /\ Start.trades = <<>> /\ Start.equity = <<>>
  BY DEF Start
<1>2. Start \in StateRow
  <2>1. <<0, 1>> \in Int \X Int /\ Capital \in Nat /\ Capital \in Int
    BY SimulatorAssumption
  <2>2. QED
    BY <2>1 DEF Start, StateRow
<1>3. DOMAIN <<>> = {} /\ Len(<<>>) = 0
  OBVIOUS
<1>4. \A T : OfType(Start.trades, T) = {}
  BY <1>1, <1>3 DEF OfType
<1>5. Cardinality({}) = 0
  BY FS_EmptySet
<1>6. Loose(<<>>) = 0 /\ Costs(<<>>) = 0 /\ \A K : /\ Spent(<<>>, K) = 0 /\ Held(<<>>, K) = 0
                                                   /\ Profit(<<>>, K) = 0
  <2>1. \A f : f \in [1..0 -> Int] => Sum(f) = 0
    BY SumNone
  <2>2. 1..0 = {}
    OBVIOUS
  <2>3. [k \in DOMAIN <<>> |-> <<>>[k].quantity] \in [1..0 -> Int]
    BY <1>3, <2>2
  <2>4. [k \in DOMAIN <<>> |-> <<>>[k].cost] \in [1..0 -> Int]
    BY <1>3, <2>2
  <2>5. ASSUME NEW K
        PROVE  /\ Spent(<<>>, K) = 0 /\ Held(<<>>, K) = 0 /\ Profit(<<>>, K) = 0
    <3>1. PICK a, b, c : /\ a = [k \in DOMAIN <<>> |-> IF k \in K THEN Paid(<<>>[k]) ELSE 0]
                         /\ b = [k \in DOMAIN <<>> |-> IF k \in K THEN Got(<<>>[k]) ELSE 0]
                         /\ c = [k \in DOMAIN <<>> |-> IF k \in K THEN <<>>[k].pnl ELSE 0]
      OBVIOUS
    <3>2. a \in [1..0 -> Int] /\ b \in [1..0 -> Int] /\ c \in [1..0 -> Int]
      BY <1>3, <2>2, <3>1
    <3>3. Sum(a) = 0 /\ Sum(b) = 0 /\ Sum(c) = 0
      BY <2>1, <3>2
    <3>4. QED
      BY <3>1, <3>3, Zenon DEF Spent, Held, Profit
  <2>6. QED
    BY <2>1, <2>3, <2>4, <2>5 DEF Loose, Costs
<1>7. Kept(p, Start)
  <2>1. Given(p, 0) = 0
    BY CapitalSuffices DEF Playable
  <2>2. QED
    BY <1>1, <1>2, <2>1, SimulatorAssumption DEF Kept, Playable
<1>8. Books(Start)
  BY <1>1, <1>6, SimulatorAssumption DEF Books
<1>9. Rungs(Start)
  BY <1>1, <1>3, <1>4, <1>5 DEF Rungs
<1>10. Lots(Start)
  <2>1. OfType(Start.trades, IX) = {} /\ OfType(Start.trades, IE) = {}
    BY <1>4
  <2>2. DOMAIN Start.independents = {} /\ Len(Start.independents) = 0
    BY <1>1, <1>3
  <2>3. Len(Start.independents) + Cardinality({}) = Cardinality({})
    BY <1>5, <2>2
  <2>4. QED
    BY <2>1, <2>2, <2>3 DEF Lots
<1>11. OneSided(Start)
  BY <1>4 DEF OneSided
<1>12. Curve(Start, candles, 0)
  BY <1>1, <1>3 DEF Curve
<1>13. Waits(p, candles[1].close, Start)
  <2>1. \A price \in Nat : 0 * price <= 0
    OBVIOUS
  <2>2. QED
    BY <1>1, <1>3, <2>1 DEF Waits, Dear
<1>14. QED
  BY <1>1, <1>7, <1>8, <1>9, <1>10, <1>11, <1>12, <1>13 DEF Passed, Core

-----------------------------------------------------------------------------
(* The columns of a result belong to its events *)

Sequence(s) == \E V : s \in Seq(V)

\* Every entry and every exit is a trade.
Counted(s) ==
    /\ DOMAIN s = DOMAIN Start
    /\ Sequence(s.trades) /\ Sequence(s.independents)
    /\ s.entries \in Nat /\ s.exits \in Nat /\ Len(s.trades) = s.entries + s.exits

\* To trade is to measure nothing.
Trades(s, t) == Counted(t) /\ t.equity = s.equity /\ t.drawdown = s.drawdown

LEMMA Appended ==
    ASSUME NEW s, Sequence(s), NEW x
    PROVE  /\ Sequence(Append(s, x)) /\ Len(s) \in Nat /\ Len(Append(s, x)) = Len(s) + 1
           /\ DOMAIN s = 1..Len(s) /\ DOMAIN Append(s, x) = 1..(Len(s) + 1)
           /\ Append(s, x)[Len(s) + 1] = x
           /\ \A k \in 1..Len(s) : Append(s, x)[k] = s[k]
<1>1. PICK V : s \in Seq(V)
  BY DEF Sequence
<1>2. PICK W : W = V \union {x}
  OBVIOUS
<1>3. Len(s) \in Nat /\ s \in [1..Len(s) -> W]
  BY <1>1, <1>2
<1>4. s \in Seq(W) /\ x \in W
  BY <1>2, <1>3
<1>5. Append(s, x) \in Seq(W)
  BY <1>4
<1>6. QED
  BY <1>3, <1>4, <1>5 DEF Sequence

LEMMA Removed == ASSUME NEW s, Sequence(s), NEW i \in Int PROVE Sequence(RemoveAt(s, i))
<1>1. PICK V : s \in Seq(V)
  BY DEF Sequence
<1>2. PICK n \in Nat : n = Len(s)
  BY <1>1
<1>3. PICK W : W = {s[k] : k \in Int}
  OBVIOUS
<1>4. PICK a, b : a = SubSeq(s, 1, i - 1) /\ b = SubSeq(s, i + 1, n)
  OBVIOUS
<1>5. a \in Seq(W) /\ b \in Seq(W)
  <2>1. /\ 1 \in Int /\ i - 1 \in Int /\ i + 1 \in Int /\ n \in Int
        /\ \A k \in 1..i - 1 : s[k] \in W
        /\ \A k \in i + 1..n : s[k] \in W
    BY <1>2, <1>3
  <2>2. QED
    BY <1>4, <2>1, SubSeqProperties
<1>6. a \o b \in Seq(W)
  BY <1>5
<1>7. QED
  BY <1>2, <1>4, <1>6 DEF Sequence, RemoveAt

\* A state after a trade.
LEMMA OneTrade ==
    ASSUME NEW s, Counted(s), NEW t, NEW x, DOMAIN t = DOMAIN s,
           t.trades = Append(s.trades, x), Sequence(t.independents),
           \/ t.entries = s.entries + 1 /\ t.exits = s.exits
           \/ t.entries = s.entries /\ t.exits = s.exits + 1,
           t.equity = s.equity, t.drawdown = s.drawdown
    PROVE  Trades(s, t)
<1>1. /\ Sequence(s.trades) /\ s.entries \in Nat /\ s.exits \in Nat
      /\ Len(s.trades) = s.entries + s.exits /\ DOMAIN s = DOMAIN Start
  BY DEF Counted
<1>2. Sequence(t.trades) /\ Len(t.trades) = Len(s.trades) + 1
  BY <1>1, Appended
<1>3. QED
  BY <1>1, <1>2 DEF Trades, Counted

LEMMA EnterCounts ==
    ASSUME NEW s, Counted(s), NEW p, NEW first, NEW candle, NEW level
    PROVE  Trades(s, Enter(p, first, candle, s, level))
<1>1. CASE Enter(p, first, candle, s, level) = s
  BY <1>1 DEF Trades
<1>2. CASE Enter(p, first, candle, s, level) # s
  <2> DEFINE allocation == Allocation(p, level)
             spend == IF allocation < s.quote THEN allocation ELSE s.quote
             bought == spend \div candle.close
             alone == level >= p.from
             lot == [level |-> level, quantity |-> bought, cost |-> spend]
             trade == [type |-> IF alone THEN "INDEPENDENT_ENTRY" ELSE "PARENT_ENTRY",
                       level |-> level, slot |-> candle.slot, quantity |-> bought,
                       quote |-> spend, pnl |-> 0]
  <2>1. /\ level = s.entries + 1
        /\ Enter(p, first, candle, s, level) = [s EXCEPT
             !.quote = @ - spend,
             !.entries = level,
             !.quantity = IF alone THEN @ ELSE @ + bought,
             !.cost = IF alone THEN @ ELSE @ + spend,
             !.independents = IF ~alone THEN @ ELSE Append(@, lot),
             !.trades = Append(@, trade)]
    BY <1>2, Zenon DEF Enter
  <2>2. PICK q, u, c, i, x : /\ q = s.quote - spend
                             /\ u = IF alone THEN s.quantity ELSE s.quantity + bought
                             /\ c = IF alone THEN s.cost ELSE s.cost + spend
                             /\ i = IF ~alone THEN s.independents ELSE Append(s.independents, lot)
                             /\ x = trade
    OBVIOUS
  <2>3. Sequence(i)
    <3>1. Sequence(s.independents)
      BY DEF Counted
    <3>2. Sequence(Append(s.independents, lot))
      BY <3>1, Appended
    <3> HIDE DEF lot
    <3>3. QED
      BY <2>2, <3>1, <3>2
  <2>4. PICK t : t = Enter(p, first, candle, s, level)
    OBVIOUS
  <2> HIDE DEF spend, bought, alone, lot, trade
  <2>5. t = [s EXCEPT !.quote = q, !.entries = level, !.quantity = u, !.cost = c,
                      !.independents = i, !.trades = Append(s.trades, x)]
    BY <2>1, <2>2, <2>4
  <2>6. /\ DOMAIN t = DOMAIN s /\ t.trades = Append(s.trades, x) /\ t.independents = i
        /\ t.entries = level /\ t.exits = s.exits /\ t.equity = s.equity
        /\ t.drawdown = s.drawdown
    <3>1. DOMAIN s = DOMAIN Start
      BY DEF Counted
    <3>2. QED
      BY <2>5, <3>1 DEF Start
  <2>7. Trades(s, t)
    BY <2>1, <2>3, <2>6, OneTrade
  <2>8. QED
    BY <2>4, <2>7
<1>3. QED
  BY <1>1, <1>2

LEMMA SellCounts ==
    ASSUME NEW s, Counted(s), NEW p, NEW candle, NEW index \in Int
    PROVE  Trades(s, SellIndependent(p, candle, s, index))
<1>1. CASE SellIndependent(p, candle, s, index) = s
  BY <1>1 DEF Trades
<1>2. CASE SellIndependent(p, candle, s, index) # s
  <2>1. PICK q, i, x :
           /\ SellIndependent(p, candle, s, index)
                = [s EXCEPT !.quote = q, !.exits = s.exits + 1, !.independents = i,
                            !.trades = Append(s.trades, x)]
           /\ i = Spliced(s.independents, index)
    BY <1>2, Zenon DEF SellIndependent
  <2>2. PICK t : t = SellIndependent(p, candle, s, index)
    OBVIOUS
  <2>3. Sequence(i)
    <3>1. Sequence(s.independents)
      BY DEF Counted
    <3>2. QED
      BY <2>1, <3>1, Removed DEF Spliced
  <2>4. /\ DOMAIN t = DOMAIN s /\ t.trades = Append(s.trades, x) /\ t.independents = i
        /\ t.entries = s.entries /\ t.exits = s.exits + 1 /\ t.equity = s.equity
        /\ t.drawdown = s.drawdown
    <3>1. DOMAIN s = DOMAIN Start
      BY DEF Counted
    <3>2. QED
      BY <2>1, <2>2, <3>1 DEF Start
  <2>5. Trades(s, t)
    BY <2>3, <2>4, OneTrade
  <2>6. QED
    BY <2>2, <2>5
<1>3. QED
  BY <1>1, <1>2

LEMMA ExitCounts ==
    ASSUME NEW s, Counted(s), NEW p, NEW candle
    PROVE  Trades(s, ExitParent(p, candle, s))
<1>1. CASE ExitParent(p, candle, s) = s
  BY <1>1 DEF Trades
<1>2. CASE ExitParent(p, candle, s) # s
  <2>1. PICK q, x :
           ExitParent(p, candle, s)
             = [s EXCEPT !.quote = q, !.exits = s.exits + 1, !.quantity = 0, !.cost = 0,
                         !.trades = Append(s.trades, x)]
    BY <1>2, Zenon DEF ExitParent
  <2>2. PICK t : t = [s EXCEPT !.quote = q, !.exits = s.exits + 1, !.quantity = 0, !.cost = 0,
                         !.trades = Append(s.trades, x)]
    OBVIOUS
  <2>3. DOMAIN s = DOMAIN Start /\ Sequence(s.independents)
    BY DEF Counted
  <2>4. /\ DOMAIN t = DOMAIN s /\ t.trades = Append(s.trades, x)
        /\ t.independents = s.independents
        /\ t.entries = s.entries /\ t.exits = s.exits + 1 /\ t.equity = s.equity
        /\ t.drawdown = s.drawdown
    BY <2>2, <2>3 DEF Start
  <2>5. QED
    BY <2>1, <2>2, <2>3, <2>4, OneTrade
<1>3. QED
  BY <1>1, <1>2

LEMMA TradesOn ==
    ASSUME NEW s, NEW t, NEW u, Trades(s, t), Trades(t, u) PROVE Trades(s, u)
BY DEF Trades

LEMMA EnterAllCounts ==
    ASSUME NEW s, Counted(s), NEW p, p.maxEntries \in Nat, NEW first, NEW candle
    PROVE  Trades(s, EnterAll(p, first, candle, s))
<1>1. PICK N \in Nat : N = p.maxEntries
  OBVIOUS
<1>2. PICK f : /\ EnterAll(p, first, candle, s) = f[N]
               /\ f[0] = s
               /\ \A k \in 1..N : f[k] = Enter(p, first, candle, f[k - 1], k)
  BY <1>1, Climbs
<1> DEFINE S == {n \in 0..N : Trades(s, f[n])}
<1>3. 0 \in S
  BY <1>2 DEF Trades
<1>4. ASSUME NEW n \in S, n + 1 \in 0..N PROVE n + 1 \in S
  <2>1. f[n + 1] = Enter(p, first, candle, f[n], n + 1)
    <3>1. n + 1 \in 1..N /\ (n + 1) - 1 = n
      BY <1>4
    <3>2. QED
      BY <1>2, <3>1
  <2>2. Trades(f[n], f[n + 1])
    BY <2>1, EnterCounts DEF Trades
  <2>3. QED
    BY <1>4, <2>2, TradesOn
<1>5. N \in S
  <2> HIDE DEF S
  <2>1. QED
    BY <1>3, <1>4, Upwards
<1>6. QED
  BY <1>2, <1>5

LEMMA SellAllCounts ==
    ASSUME NEW s, Counted(s), NEW p, NEW candle
    PROVE  Trades(s, ExitIndependents(p, candle, s))
<1>1. PICK N \in Nat : N = Len(s.independents)
  BY Appended DEF Counted
<1>2. PICK f : ExitIndependents(p, candle, s) = f[N] /\ Looking(f, N, s, p, candle)
  BY <1>1, Looks
<1> DEFINE S == {n \in 0..N : Trades(s, f[n])}
<1>3. 0 \in S
  BY <1>2 DEF Trades, Looking
<1>4. ASSUME NEW n \in S, n + 1 \in 0..N PROVE n + 1 \in S
  <2>1. PICK index \in Int : index = N + 1 - (n + 1)
    OBVIOUS
  <2>2. f[n + 1] = SellIndependent(p, candle, f[n], index)
    <3>1. n + 1 \in 1..N /\ (n + 1) - 1 = n
      BY <1>4
    <3>2. QED
      BY <1>2, <2>1, <3>1 DEF Looking
  <2>3. Counted(f[n])
    BY DEF Trades
  <2>4. Trades(f[n], f[n + 1])
    BY <2>2, <2>3, SellCounts
  <2>5. QED
    BY <1>4, <2>4, TradesOn
<1>5. N \in S
  <2> HIDE DEF S
  <2>1. QED
    BY <1>3, <1>4, Upwards
<1>6. QED
  BY <1>2, <1>5

\* The drawdown is that of a point of the curve.
Measured(s) ==
    /\ Sequence(s.equity)
    /\ \/ s.drawdown = <<0, 1>>
       \/ \E k \in DOMAIN s.equity : s.drawdown = s.equity[k].drawdown

\* The curve ends in what the state is worth.
Worthy(s, price) == s.equity # <<>> /\ Last(s.equity).equity = Equity(s, price)

LEMMA MeasureKeeps ==
    ASSUME NEW s, Counted(s), Measured(s), NEW candle, NEW t, t = Measure(candle, s)
    PROVE  Counted(t) /\ Measured(t) /\ Worthy(t, candle.close)
<1> DEFINE equity == Equity(s, candle.close)
           peak == IF equity > s.peak THEN equity ELSE s.peak
           point == [slot |-> candle.slot, equity |-> equity, drawdown |-> <<peak - equity, peak>>]
<1>1. t = [s EXCEPT !.peak = peak, !.drawdown = Worse(@, <<peak - equity, peak>>),
                    !.equity = Append(@, point)]
  BY Zenon DEF Measure
<1>2. PICK d, x, e, h : d = <<peak - equity, peak>> /\ x = point /\ e = equity /\ h = peak
  OBVIOUS
<1>3. x.equity = e /\ x.drawdown = d
  BY <1>2
<1> HIDE DEF point, peak, equity
<1>4. t = [s EXCEPT !.peak = h, !.drawdown = Worse(s.drawdown, d), !.equity = Append(s.equity, x)]
  BY <1>1, <1>2
<1>5. DOMAIN s = DOMAIN Start
  BY DEF Counted
<1>6. /\ DOMAIN t = DOMAIN s /\ t.trades = s.trades /\ t.independents = s.independents
      /\ t.entries = s.entries /\ t.exits = s.exits /\ t.quote = s.quote /\ t.quantity = s.quantity
      /\ t.equity = Append(s.equity, x) /\ t.drawdown = Worse(s.drawdown, d)
  BY <1>4, <1>5 DEF Start
<1>7. Counted(t)
  BY <1>6 DEF Counted
<1>8. /\ Sequence(t.equity) /\ Len(s.equity) \in Nat /\ Len(t.equity) = Len(s.equity) + 1
      /\ DOMAIN s.equity = 1..Len(s.equity) /\ DOMAIN t.equity = 1..Len(s.equity) + 1
      /\ t.equity[Len(s.equity) + 1] = x
      /\ \A k \in 1..Len(s.equity) : t.equity[k] = s.equity[k]
  BY <1>6, Appended DEF Measured
<1>9. t.drawdown = s.drawdown \/ t.drawdown = d
  BY <1>6, Zenon DEF Worse
<1>10. Measured(t)
  <2>1. CASE t.drawdown = d
    <3>1. Len(s.equity) + 1 \in DOMAIN t.equity
      BY <1>8
    <3>2. QED
      BY <1>3, <1>8, <2>1, <3>1 DEF Measured
  <2>2. CASE t.drawdown = s.drawdown
    <3>1. ASSUME NEW k \in DOMAIN s.equity PROVE k \in DOMAIN t.equity /\ t.equity[k] = s.equity[k]
      BY <1>8
    <3>2. QED
      BY <1>8, <2>2, <3>1 DEF Measured
  <2>3. QED
    BY <1>9, <2>1, <2>2
<1>11. Equity(t, candle.close) = e
  BY <1>2, <1>6 DEF equity, Equity
<1>12. Worthy(t, candle.close)
  <2>1. t.equity # <<>>
    BY <1>8
  <2>2. Last(t.equity) = x
    BY <1>8 DEF Last
  <2>3. QED
    BY <1>3, <1>11, <2>1, <2>2 DEF Worthy
<1>13. QED
  BY <1>7, <1>10, <1>12

LEMMA PassKeeps ==
    ASSUME NEW s, Counted(s), Measured(s), NEW p, p.maxEntries \in Nat, NEW first, NEW candle,
           NEW t, t = Pass(p, first, s, candle)
    PROVE  Counted(t) /\ Measured(t) /\ Worthy(t, candle.close)
<1>1. PICK a : a = EnterAll(p, first, candle, s)
  OBVIOUS
<1>2. PICK b : b = ExitParent(p, candle, a)
  OBVIOUS
<1>3. PICK c : c = IF p.target = 0 THEN a ELSE ExitIndependents(p, candle, b)
  OBVIOUS
<1>4. t = Measure(candle, c)
  BY <1>1, <1>2, <1>3, Zenon DEF Pass
<1>5. Trades(s, a)
  BY <1>1, EnterAllCounts
<1>6. Trades(a, b)
  BY <1>2, <1>5, ExitCounts DEF Trades
<1>7. Trades(b, ExitIndependents(p, candle, b))
  BY <1>6, SellAllCounts DEF Trades
<1>8. Trades(s, c)
  BY <1>3, <1>5, <1>6, <1>7, TradesOn
<1>9. Counted(c) /\ Measured(c)
  BY <1>8 DEF Trades, Measured
<1>10. QED
  BY <1>4, <1>9, MeasureKeeps

\* The columns of a simulation's result are about its own trades and curve, whatever the
\* candles and the parameters: as many trades as are counted, the curve's last point, and
\* the drawdown of one of its points.
THEOREM SimulationsAgree ==
    ASSUME NEW p, p.maxEntries \in Nat, NEW V, NEW candles \in Seq(V), candles # <<>>
    PROVE  Agrees(Simulate(p, candles), EventsOf(Simulate(p, candles)))
<1>1. PICK N \in Nat \ {0} : N = Len(candles)
  OBVIOUS
<1>2. PICK f : PassAll(p, candles) = f[N] /\ Passing(f, N, p, candles)
  BY <1>1, Passes
<1>3. Last(candles) = candles[N]
  BY <1>1 DEF Last
<1> DEFINE Good(k) == /\ Counted(f[k]) /\ Measured(f[k])
                      /\ k # 0 => Worthy(f[k], candles[k].close)
           S == {n \in 0..N : Good(n)}
<1>4. 0 \in S
  <2>1. \A s : s = <<>> => Sequence(s) /\ Len(s) = 0
    <3>1. <<>> \in Seq({})
      OBVIOUS
    <3>2. QED
      BY <3>1 DEF Sequence
  <2>2. /\ Start.trades = <<>> /\ Start.independents = <<>> /\ Start.equity = <<>>
        /\ Start.entries = 0 /\ Start.exits = 0 /\ Start.drawdown = <<0, 1>>
    BY DEF Start
  <2>3. QED
    <3>1. Counted(Start) /\ Measured(Start)
      BY <2>1, <2>2 DEF Counted, Measured
    <3>2. Good(0)
      BY <1>2, <3>1 DEF Passing
    <3>3. QED
      BY <3>2
<1>5. ASSUME NEW n \in S, n + 1 \in 0..N PROVE n + 1 \in S
  <2>1. f[n + 1] = Pass(p, candles[1].close, f[n], candles[n + 1])
    <3>1. n + 1 \in 1..N /\ (n + 1) - 1 = n
      BY <1>5
    <3>2. QED
      BY <1>2, <3>1 DEF Passing
  <2>2. Counted(f[n]) /\ Measured(f[n])
    OBVIOUS
  <2>3. Counted(f[n + 1]) /\ Measured(f[n + 1]) /\ Worthy(f[n + 1], candles[n + 1].close)
    BY <2>1, <2>2, PassKeeps
  <2>4. QED
    BY <1>5, <2>3
<1>6. Good(N)
  <2> HIDE DEF Good
  <2>1. N \in 0..N /\ 0..N \subseteq S
    <3> HIDE DEF S
    <3>1. QED
      BY <1>4, <1>5, Upwards
  <2>2. QED
    BY <2>1
<1>7. PICK s : s = PassAll(p, candles)
  OBVIOUS
<1>8. Counted(s) /\ Measured(s) /\ Worthy(s, candles[N].close)
  BY <1>2, <1>6, <1>7
<1>9. PICK r : r = Simulate(p, candles)
  OBVIOUS
<1>10. /\ r.ending = Equity(s, candles[N].close) /\ r.drawdown = s.drawdown
       /\ r.tradeCount = s.entries + s.exits /\ r.trades = s.trades /\ r.equity = s.equity
  BY <1>3, <1>7, <1>9 DEF Simulate
<1>11. \E k \in DOMAIN r.equity : r.drawdown \in {<<0, 1>>, r.equity[k].drawdown}
  <2>1. Len(r.equity) \in DOMAIN r.equity
    <3>1. PICK W : r.equity \in Seq(W)
      BY <1>8, <1>10 DEF Measured, Sequence
    <3>2. QED
      BY <1>8, <1>10, <3>1 DEF Worthy
  <2>2. QED
    BY <1>8, <1>10, <2>1 DEF Measured
<1>12. r.ending = Last(r.equity).equity /\ r.tradeCount = Len(r.trades)
  BY <1>8, <1>10 DEF Worthy, Counted
<1>13. QED
  BY <1>9, <1>11, <1>12 DEF Agrees, EventsOf

LEMMA SumZeros ==
    ASSUME NEW N \in Nat, NEW ns \in [1..N -> Int], \A k \in 1..N : ns[k] = 0
    PROVE  Sum(ns) = 0
<1>1. PICK h \in [0..N -> Int] : /\ Sum(ns) = h[N] /\ h[0] = 0
                                 /\ \A k \in 1..N : h[k] = h[k - 1] + ns[k]
  BY SumGrows
<1> DEFINE S == {n \in 0..N : h[n] = 0}
<1>2. 0 \in S
  BY <1>1
<1>3. ASSUME NEW n \in S, n + 1 \in 0..N PROVE n + 1 \in S
  <2>1. n + 1 \in 1..N /\ (n + 1) - 1 = n
    BY <1>3
  <2>2. h[n + 1] = h[n] + ns[n + 1] /\ ns[n + 1] = 0 /\ h[n] = 0
    BY <1>1, <2>1
  <2>3. QED
    BY <1>3, <2>2
<1>4. N \in S
  <2> HIDE DEF S
  <2>1. QED
    BY <1>2, <1>3, Upwards
<1>5. QED
  BY <1>1, <1>4

-----------------------------------------------------------------------------
(* What the events explain of a result *)

LEMMA WorthIs ==
    ASSUME NEW p, NEW s, Kept(p, s), Books(s), NEW price \in Nat
    PROVE  Equity(s, price) = Worth(s.trades, DOMAIN s.trades, price)
<1>1. /\ s.quote \in Nat /\ s.quantity \in Nat /\ s.independents \in Seq(LotRow)
      /\ s.trades \in Seq(TradeRow) /\ Capital \in Nat
  BY SimulatorAssumption DEF Kept, StateRow
<1>2. Loose(s.independents) \in Nat
  BY <1>1, StockIs
<1>3. PICK a, b, h : /\ a = Spent(s.trades, DOMAIN s.trades) /\ h = Held(s.trades, DOMAIN s.trades)
                     /\ b = s.quote
  OBVIOUS
<1>4. a \in Int /\ h \in Nat /\ b \in Nat /\ b = Capital - a
      /\ s.quantity + Loose(s.independents) = h
  <2>1. a \in Int
    BY <1>1, <1>3, SumsAre
  <2>2. QED
    BY <1>1, <1>2, <1>3, <2>1 DEF Books
<1>5. Equity(s, price) = b + h * price
  BY <1>3, <1>4 DEF Equity
<1>6. Worth(s.trades, DOMAIN s.trades, price) = Capital - a + h * price
  BY <1>3 DEF Worth
<1>7. QED
  BY <1>4, <1>5, <1>6

\* Who holds nothing has in cash what was earned by selling.
LEMMA AllSold ==
    ASSUME NEW p, NEW s, Kept(p, s), Books(s), Held(s.trades, DOMAIN s.trades) = 0
    PROVE  Spent(s.trades, DOMAIN s.trades) + Profit(s.trades, OfType(s.trades, Exits)) = 0
<1>1. /\ s.quantity \in Nat /\ s.independents \in Seq(LotRow) /\ s.cost \in Nat
      /\ s.quantity = 0 => s.cost = 0
  BY DEF Kept, StateRow
<1>2. PICK n \in Nat : n = Len(s.independents) /\ DOMAIN s.independents = 1..n
  BY <1>1
<1>3. /\ Loose(s.independents) \in Nat
      /\ \A k \in 1..n : s.independents[k].quantity <= Loose(s.independents)
  BY <1>1, <1>2, StockIs
<1>4. s.quantity + Loose(s.independents) = 0
  BY DEF Books
<1>5. s.quantity = 0 /\ Loose(s.independents) = 0
  BY <1>1, <1>3, <1>4
<1>6. n = 0
  <2>1. SUFFICES ASSUME n # 0 PROVE FALSE
    OBVIOUS
  <2>2. 1 \in 1..n
    BY <2>1
  <2>3. s.independents[1] \in LotRow /\ s.independents[1].quantity <= 0
    BY <1>1, <1>2, <1>3, <1>5, <2>2
  <2>4. PICK q \in Nat \ {0} : q = s.independents[1].quantity
    BY <2>3 DEF LotRow
  <2>5. QED
    BY <2>3, <2>4
<1>7. Costs(s.independents) = 0
  <2>1. PICK c : c = [k \in DOMAIN s.independents |-> s.independents[k].cost]
    OBVIOUS
  <2>2. c \in [1..0 -> Int]
    BY <1>2, <1>6, <2>1
  <2>3. Sum(c) = 0
    BY <2>2, SumNone
  <2>4. QED
    BY <2>1, <2>3 DEF Costs
<1>8. QED
  BY <1>1, <1>5, <1>7 DEF Books

LEMMA CurveIsExplained ==
    ASSUME NEW p, NEW candles, Ordered(candles), NEW N, N = Len(candles), N # 0,
           NEW s, Passed(p, candles, N, s),
           NEW r, r.ending = Equity(s, candles[N].close), r.trades = s.trades, r.equity = s.equity
    PROVE  EquityExplained(r, candles)
<1>1. N \in Nat /\ DOMAIN candles = 1..N /\ N \in 1..N /\ Last(candles) = candles[N]
  BY DEF Ordered, Last
<1>2. /\ Kept(p, s) /\ Books(s) /\ Len(s.equity) = N
      /\ \A j \in 1..N : PointExplained(s.trades, s.equity[j], candles[j])
  BY DEF Passed, Core, Curve
<1>3. PICK c \in Nat : c = candles[N].close
  <2>1. candles[N] \in Candle
    BY <1>1 DEF Ordered
  <2>2. QED
    BY <2>1 DEF Candle
<1>4. r.ending = Worth(r.trades, DOMAIN r.trades, c)
  BY <1>2, <1>3, WorthIs
<1>5. QED
  BY <1>1, <1>2, <1>3, <1>4 DEF EquityExplained

LEMMA LadderIsClimbed ==
    ASSUME NEW p, Playable(p), NEW candles, NEW N, NEW s, Passed(p, candles, N, s),
           NEW r, r.trades = s.trades
    PROVE  LadderClimbedOnce(r, p)
<1>1. Kept(p, s) /\ Rungs(s) /\ Lots(s) /\ OneSided(s)
  BY DEF Passed, Core
<1>2. s.entries \in Nat /\ s.entries <= p.maxEntries /\ p.maxEntries \in Nat /\ s.trades \in Seq(TradeRow)
  BY <1>1 DEF Kept, StateRow, Playable
<1>3. PICK A, B, C, D, f : /\ A = OfType(f, Entries) /\ B = OfType(f, IE) /\ C = OfType(f, IX)
                           /\ D = OfType(f, Exits) /\ f = s.trades
  OBVIOUS
<1>4. ASSUME NEW i \in A
      PROVE  f[i].level = Cardinality(A \cap (1..i)) /\ f[i].level <= p.maxEntries
  <2>1. f[i].level = Cardinality(A \cap (1..i)) /\ i \in DOMAIN f
    BY <1>1, <1>3 DEF Rungs, OfType
  <2>2. f[i].level <= s.entries /\ f[i] \in TradeRow
    <3>1. \A j \in DOMAIN s.trades : s.trades[j].level <= s.entries /\ s.trades[j] \in TradeRow
      BY <1>1, <1>2 DEF Rungs
    <3>2. QED
      BY <1>3, <2>1, <3>1
  <2>3. PICK l \in Nat : l = f[i].level
    BY <2>2 DEF TradeRow
  <2>4. l <= s.entries
    BY <2>2, <2>3
  <2>5. l <= p.maxEntries
    BY <1>2, <2>4
  <2>6. QED
    BY <2>1, <2>3, <2>5
<1>5. ASSUME NEW i \in C
      PROVE  /\ \E e \in B \cap (1..i) : f[e].level = f[i].level /\ f[e].quantity = f[i].quantity
             /\ \A j \in C : f[i].level = f[j].level => i = j
  BY <1>1, <1>3 DEF Lots
<1>6. \A i \in A, j \in D : f[i].slot # f[j].slot
  BY <1>1, <1>3 DEF OneSided
<1>7. QED
  BY <1>3, <1>4, <1>5, <1>6 DEF LadderClimbedOnce, IE, IX

LEMMA ReportIsExplained ==
    ASSUME NEW p, Playable(p), NEW candles, NEW N, NEW s, Passed(p, candles, N, s),
           NEW price \in Nat, NEW r, r.trades = s.trades, r.pnl = Equity(s, price) - Capital,
           Agrees(r, EventsOf(r))
    PROVE  ColumnsExplained(r, p)
<1>1. Kept(p, s) /\ Books(s) /\ Rungs(s) /\ Lots(s)
  BY DEF Passed, Core
<1>2. /\ s.entries \in Nat /\ s.entries <= p.maxEntries /\ p.maxEntries \in Nat
      /\ s.trades \in Seq(TradeRow) /\ s.independents \in Seq(LotRow)
  BY <1>1 DEF Kept, StateRow, Playable
<1>3. PICK f, exits, wins, losses :
        /\ f = s.trades /\ exits = OfType(f, Exits)
        /\ wins = {k \in exits : f[k].pnl > 0} /\ losses = {k \in exits : f[k].pnl < 0}
  OBVIOUS
<1>4. PICK a : a = Analytics(f)
  OBVIOUS
<1>5. /\ a.completedExitCount = Cardinality(exits) /\ a.winningTradeCount = Cardinality(wins)
      /\ a.grossProfit = Profit(f, wins) /\ a.grossLoss = -Profit(f, losses)
      /\ a.maximumDcaLevelUsed = Max({0} \cup {f[k].level : k \in DOMAIN f})
      /\ a.independentEntries = Cardinality(OfType(f, IE))
      /\ a.independentExits = Cardinality(OfType(f, IX))
  BY <1>3, <1>4 DEF Analytics, IE, IX
<1>6. PICK m \in Nat : m = Len(f) /\ DOMAIN f = 1..m /\ \A k \in 1..m : f[k] \in TradeRow
  BY <1>2, <1>3
<1>7. \A k \in exits : f[k].pnl > 0 /\ f[k].pnl \in Int
  <2>1. \A k \in exits : f[k].pnl > 0 /\ k \in 1..m
    BY <1>1, <1>3, <1>6 DEF Rungs, OfType
  <2>2. QED
    BY <1>6, <2>1 DEF TradeRow
<1>8. wins = exits /\ losses = {}
  BY <1>3, <1>7
<1>9. a.maximumDcaLevelUsed <= p.maxEntries
  <2>1. PICK T : T = {0} \cup {f[k].level : k \in DOMAIN f}
    OBVIOUS
  <2>2. ASSUME NEW k \in DOMAIN f PROVE f[k].level \in 0..p.maxEntries
    <3>1. f[k] \in TradeRow /\ f[k].level <= s.entries
      BY <1>1, <1>3, <1>6 DEF Rungs
    <3>2. PICK l \in Nat : l = f[k].level
      BY <3>1 DEF TradeRow
    <3>3. l <= s.entries
      BY <3>1, <3>2
    <3>4. l \in 0..p.maxEntries
      BY <1>2, <3>3
    <3>5. QED
      BY <3>2, <3>4
  <2>3. T \in SUBSET (0..p.maxEntries) /\ T # {}
    BY <1>2, <2>1, <2>2
  <2>4. Max(T) \in T
    BY <1>2, <2>3, MaxIs
  <2>5. Max(T) \in 0..p.maxEntries
    BY <2>3, <2>4
  <2>6. QED
    BY <1>2, <1>5, <2>1, <2>5
<1>10. a.independentExits <= a.independentEntries
  <2>1. PICK n \in Nat : n = Len(s.independents)
    BY <1>2
  <2>2. PICK b, c : /\ b = Cardinality(OfType(f, IE)) /\ c = Cardinality(OfType(f, IX)) /\ n + c = b
    BY <1>1, <1>2, <1>3, <2>1 DEF Lots
  <2>3. c \in Nat
    <3>1. OfType(f, IX) \in SUBSET (1..m)
      BY <1>6 DEF OfType
    <3>2. IsFiniteSet(1..m)
      BY <1>6, FS_Interval
    <3>3. QED
      BY <2>2, <3>1, <3>2, FS_Subset, FS_CardinalityType
  <2>4. c <= b
    BY <2>2, <2>1, <2>3
  <2>5. QED
    BY <1>5, <2>2, <2>4
<1>11. ASSUME Held(f, DOMAIN f) = 0 PROVE r.pnl = a.grossProfit - a.grossLoss
  <2>1. PICK x, y : x = Spent(f, DOMAIN f) /\ y = Profit(f, exits)
    OBVIOUS
  <2>2. x \in Int /\ y \in Int
    BY <1>2, <1>3, <2>1, SumsAre
  <2>3. x + y = 0
    BY <1>1, <1>3, <1>11, <2>1, AllSold
  <2>4. Profit(f, losses) = 0
    <3>1. PICK g : g = [k \in DOMAIN f |-> IF k \in losses THEN f[k].pnl ELSE 0]
      OBVIOUS
    <3>2. g \in [1..m -> Int] /\ \A k \in 1..m : g[k] = 0
      BY <1>6, <1>8, <3>1
    <3>3. Sum(g) = 0
      BY <1>6, <3>2, SumZeros
    <3>4. QED
      BY <3>1, <3>3 DEF Profit
  <2>5. Equity(s, price) = Capital - x + 0 * price
    <3>1. Equity(s, price) = Worth(f, DOMAIN f, price)
      BY <1>1, <1>3, WorthIs
    <3>2. QED
      BY <1>11, <2>1, <3>1 DEF Worth
  <2>6. r.pnl = Capital - x - Capital
    BY <2>2, <2>5, SimulatorAssumption
  <2>7. r.pnl = y
    BY <2>2, <2>3, <2>6, SimulatorAssumption
  <2>8. a.grossProfit = y /\ a.grossLoss = 0
    BY <1>5, <1>8, <2>1, <2>4
  <2>9. QED
    BY <2>2, <2>7, <2>8
<1>12. QED
  BY <1>3, <1>4, <1>5, <1>8, <1>9, <1>10, <1>11 DEF ColumnsExplained

\* The events of a simulation explain its result: whatever the parameters and the prices, if the
\* candles come in order and what is given to a level buys something at each of them, every
\* point of the equity curve and the final capital are what the trades up to it are worth, the
\* ladder is climbed once and every independent entry is sold at most once, and the columns
\* and the report follow from the trades.
THEOREM EventsExplainResults ==
    ASSUME NEW p, Playable(p), NEW candles, Ordered(candles), candles # <<>>,
           \A k \in DOMAIN candles : Affords(p, {candles[k].close})
    PROVE  /\ EquityExplained(Simulate(p, candles), candles)
           /\ LadderClimbedOnce(Simulate(p, candles), p)
           /\ ColumnsExplained(Simulate(p, candles), p)
<1>1. PICK N \in Nat \ {0} : N = Len(candles) /\ DOMAIN candles = 1..N /\ Last(candles) = candles[N]
  <2>1. candles \in Seq(Candle)
    BY DEF Ordered
  <2>2. QED
    BY <2>1 DEF Last
<1>2. PICK f : PassAll(p, candles) = f[N] /\ Passing(f, N, p, candles)
  BY <1>1, Passes
<1> DEFINE S == {n \in 0..N : Passed(p, candles, n, f[n])}
<1>3. 0 \in S
  BY <1>2, StartPasses DEF Passing
<1>4. ASSUME NEW n \in S, n + 1 \in 0..N PROVE n + 1 \in S
  <2>1. PICK k : k = n + 1
    OBVIOUS
  <2>2. k \in 1..N /\ k - 1 = n
    BY <1>4, <2>1
  <2>3. f[k] = Pass(p, candles[1].close, f[n], candles[k])
    BY <1>2, <2>2 DEF Passing
  <2>4. Passed(p, candles, k - 1, f[n])
    BY <2>2
  <2>5. Passed(p, candles, k, f[k])
    BY <1>1, <2>2, <2>3, <2>4, PassGoesOn
  <2>6. QED
    BY <1>4, <2>1, <2>5
<1>5. Passed(p, candles, N, f[N])
  <2>1. N \in S
    <3> HIDE DEF S
    <3>1. QED
      BY <1>3, <1>4, Upwards
  <2>2. QED
    BY <2>1
<1>6. PICK s : s = PassAll(p, candles)
  OBVIOUS
<1>7. Passed(p, candles, N, s)
  BY <1>2, <1>5, <1>6
<1>8. PICK r : r = Simulate(p, candles)
  OBVIOUS
<1>9. /\ r.ending = Equity(s, candles[N].close) /\ r.pnl = Equity(s, candles[N].close) - Capital
      /\ r.trades = s.trades /\ r.equity = s.equity
  BY <1>1, <1>6, <1>8 DEF Simulate
<1>10. Agrees(r, EventsOf(r))
  <2>1. candles \in Seq(Candle) /\ p.maxEntries \in Nat
    BY DEF Ordered, Playable
  <2>2. QED
    BY <1>8, <2>1, SimulationsAgree
<1>11. candles[N].close \in Nat
  <2>1. candles[N] \in Candle
    BY <1>1 DEF Ordered
  <2>2. QED
    BY <2>1 DEF Candle
<1>12. EquityExplained(r, candles)
  BY <1>1, <1>7, <1>9, CurveIsExplained
<1>13. LadderClimbedOnce(r, p)
  BY <1>7, <1>9, LadderIsClimbed
<1>14. ColumnsExplained(r, p)
  BY <1>7, <1>9, <1>10, <1>11, ReportIsExplained
<1>15. QED
  BY <1>8, <1>12, <1>13, <1>14

-----------------------------------------------------------------------------
(* The baseline *)

Unsold == [peak |-> Capital, drawdown |-> <<0, 1>>]

Holding(h, N, quantity, candles) ==
    /\ h[0] = Unsold
    /\ \A k \in 1..N : h[k] = Hold(h[k - 1], quantity * candles[k].close)

LEMMA Holds ==
    ASSUME NEW N, NEW candles, N = Len(candles), N \in Nat, NEW quantity
    PROVE  \E h : HoldAll(quantity, candles) = h[N] /\ Holding(h, N, quantity, candles)
<1> DEFINE Goes(f, n) == f = [T \in SUBSET (1..n) |->
             IF T = {} THEN Unsold ELSE Hold(f[T \ {Max(T)}], quantity * candles[Max(T)].close)]
           S == {n \in 0..N : \E f : Goes(f, n)}
           loop == CHOOSE f : Goes(f, N)
<1>1. 0 \in S
  <2>1. PICK f : f = [T \in SUBSET (1..0) |-> Unsold]
    OBVIOUS
  <2>2. ASSUME NEW T \in SUBSET (1..0)
        PROVE  f[T] = IF T = {} THEN Unsold
                      ELSE Hold(f[T \ {Max(T)}], quantity * candles[Max(T)].close)
    <3>1. T = {} /\ f[T] = Unsold
      BY <2>1
    <3>2. QED
      BY <3>1
  <2>3. Goes(f, 0)
    BY <2>1, <2>2
  <2>4. 0 \in 0..N
    OBVIOUS
  <2> HIDE DEF Goes
  <2>5. QED
    BY <2>3, <2>4
<1>2. ASSUME NEW n \in S, n + 1 \in 0..N PROVE n + 1 \in S
  <2>1. PICK f : Goes(f, n)
    OBVIOUS
  <2>2. PICK g : g = [T \in SUBSET (1..n + 1) |->
                        IF n + 1 \in T THEN Hold(f[T \ {n + 1}], quantity * candles[n + 1].close)
                        ELSE f[T]]
    OBVIOUS
  <2>3. ASSUME NEW T \in SUBSET (1..n + 1)
        PROVE  g[T] = IF T = {} THEN Unsold
                      ELSE Hold(g[T \ {Max(T)}], quantity * candles[Max(T)].close)
    <3>1. CASE n + 1 \in T
      <4>1. Max(T) = n + 1
        BY <1>2, <3>1, LastOne
      <4>2. T \ {n + 1} \in SUBSET (1..n + 1) /\ n + 1 \notin T \ {n + 1} /\ T # {}
        BY <3>1
      <4>3. g[T \ {n + 1}] = f[T \ {n + 1}]
        BY <2>2, <4>2
      <4>4. QED
        BY <2>2, <3>1, <4>1, <4>2, <4>3
    <3>2. CASE n + 1 \notin T
      <4>1. T \in SUBSET (1..n)
        BY <1>2, <3>2
      <4>2. PICK x : x = Max(T)
        OBVIOUS
      <4>3. T \ {x} \in SUBSET (1..n + 1) /\ n + 1 \notin T \ {x}
        BY <3>2
      <4>4. g[T] = f[T] /\ g[T \ {x}] = f[T \ {x}]
        BY <2>2, <3>2, <4>3
      <4>5. f[T] = IF T = {} THEN Unsold ELSE Hold(f[T \ {x}], quantity * candles[x].close)
        BY <2>1, <4>1, <4>2
      <4>6. QED
        BY <4>2, <4>4, <4>5
    <3>3. QED
      BY <3>1, <3>2
  <2>4. Goes(g, n + 1)
    BY <2>2, <2>3
  <2>5. QED
    BY <1>2, <2>4
<1>3. N \in S
  <2> HIDE DEF S
  <2>1. QED
    BY <1>1, <1>2, Upwards
<1>4. PICK f : f = loop /\ Goes(f, N)
  <2>1. \E f : Goes(f, N)
    BY <1>3
  <2>2. QED
    BY <2>1
<1>5. HoldAll(quantity, candles) = f[1..N]
  BY <1>4, Zenon DEF HoldAll, Unsold, Loop, MapThenFoldSet
<1> HIDE DEF loop
<1>6. PICK h : h = [k \in 0..N |-> f[1..k]]
  OBVIOUS
<1>7. h[0] = Unsold
  <2>1. {} \in SUBSET (1..N) /\ 1..0 = {}
    OBVIOUS
  <2>2. QED
    BY <1>4, <1>6, <2>1
<1>8. ASSUME NEW k \in 1..N PROVE h[k] = Hold(h[k - 1], quantity * candles[k].close)
  <2>1. /\ Max(1..k) = k /\ (1..k) \ {k} = 1..k - 1
        /\ 1..k \in SUBSET (1..N) /\ 1..k # {}
    BY UpTo
  <2>2. f[1..k] = Hold(f[1..k - 1], quantity * candles[k].close)
    BY <1>4, <2>1
  <2>3. h[k] = f[1..k] /\ h[k - 1] = f[1..k - 1]
    BY <1>6
  <2>4. QED
    BY <2>2, <2>3
<1>9. HoldAll(quantity, candles) = h[N]
  BY <1>5, <1>6
<1>10. QED
  BY <1>7, <1>8, <1>9 DEF Holding

LEMMA OneWeight == Weights(1)[1] = 1 /\ Sum(Weights(1)) = 1
<1> DEFINE Goes(f) == f = [l \in 1..1 |-> IF l = 1 THEN 1 ELSE Multiplier * f[l - 1]]
           weight == CHOOSE f : Goes(f)
<1>1. Goes([l \in 1..1 |-> 1])
  OBVIOUS
<1>2. PICK f : f = weight /\ Goes(f)
  BY <1>1
<1>3. Weights(1) = f
  BY <1>2, Zenon DEF Weights
<1> HIDE DEF weight
<1>4. f[1] = 1
  BY <1>2
<1>5. PICK g : g = f /\ g \in [1..1 -> Int] /\ g[1] = 1
  <2>1. f \in [1..1 -> Int]
    <3>1. 1 \in Nat
      OBVIOUS
    <3>2. f \in [1..1 -> Nat \ {0}]
      BY <1>3, <3>1, WeightsWeigh
    <3>3. QED
      BY <3>2
  <2>2. QED
    BY <1>4, <2>1
<1>6. Sum(g) = 1
  <2>1. PICK h \in [0..1 -> Int] : /\ Sum(g) = h[1] /\ h[0] = 0
                                  /\ \A k \in 1..1 : h[k] = h[k - 1] + g[k]
    <3>1. 1 \in Nat
      OBVIOUS
    <3>2. QED
      BY <1>5, <3>1, SumGrows
  <2>2. h[1] = h[0] + g[1]
    BY <2>1
  <2>3. QED
    BY <1>5, <2>1, <2>2
<1>7. QED
  BY <1>3, <1>4, <1>5, <1>6

Single == [maxEntries |-> 1, from |-> 2, target |-> 0]

\* What a simulation of a single entry shares with the baseline, once it has entered.
Alike(s, b, quantity) ==
    /\ DOMAIN s = DOMAIN Start
    /\ s.quote = 0 /\ s.quantity = quantity /\ s.independents = <<>>
    /\ s.entries = 1 /\ s.exits = 0 /\ s.peak = b.peak /\ s.drawdown = b.drawdown

LEMMA SingleEnters ==
    ASSUME NEW candle \in Candle, NEW s, NEW first,
           NEW t, t = EnterAll(Single, first, candle, s)
    PROVE  t = Enter(Single, first, candle, s, 1)
<1>1. PICK p : p = Single
  OBVIOUS
<1>2. p.maxEntries = 1 /\ 1 \in Nat
  BY <1>1 DEF Single
<1>3. PICK h : /\ EnterAll(p, first, candle, s) = h[1] /\ h[0] = s
               /\ \A k \in 1..1 : h[k] = Enter(p, first, candle, h[k - 1], k)
  BY <1>2, Climbs
<1>4. h[1] = Enter(p, first, candle, h[0], 1)
  BY <1>3
<1>5. QED
  BY <1>1, <1>3, <1>4

LEMMA Reckons ==
    ASSUME NEW s, DOMAIN s = DOMAIN Start, NEW b, s.quote = 0, NEW quantity \in Nat,
           s.quantity = quantity, s.independents = <<>>, s.entries = 1, s.exits = 0,
           s.peak = b.peak, s.drawdown = b.drawdown, NEW candle \in Candle,
           NEW t, t = Measure(candle, s)
    PROVE  /\ Alike(t, Hold(b, quantity * candle.close), quantity)
           /\ Equity(t, candle.close) = quantity * candle.close
<1> DEFINE equity == Equity(s, candle.close)
           peak == IF equity > s.peak THEN equity ELSE s.peak
           point == [slot |-> candle.slot, equity |-> equity, drawdown |-> <<peak - equity, peak>>]
<1>1. t = [s EXCEPT !.peak = peak, !.drawdown = Worse(@, <<peak - equity, peak>>),
                    !.equity = Append(@, point)]
  BY Zenon DEF Measure
<1>2. Loose(<<>>) = 0
  <2>1. PICK f : f = [k \in DOMAIN <<>> |-> <<>>[k].quantity]
    OBVIOUS
  <2>2. f \in [1..0 -> Int]
    BY <2>1
  <2>3. Sum(f) = 0
    BY <2>2, SumNone
  <2>4. QED
    BY <2>1, <2>3 DEF Loose
<1>3. PICK c \in Nat : c = candle.close
  BY DEF Candle
<1>4. equity = quantity * c
  <2>1. equity = 0 + (quantity + 0) * c
    BY <1>2, <1>3 DEF Equity
  <2>2. quantity * c \in Nat /\ quantity + 0 = quantity
    OBVIOUS
  <2>3. QED
    BY <2>1, <2>2
<1>5. PICK e, h, l : e = equity /\ h = peak /\ l = Append(s.equity, point)
  OBVIOUS
<1>6. h = IF e > b.peak THEN e ELSE b.peak
  BY <1>5
<1>7. t = [s EXCEPT !.peak = h, !.drawdown = Worse(s.drawdown, <<h - e, h>>), !.equity = l]
  BY <1>1, <1>5
<1>8. e = quantity * c
  BY <1>4, <1>5
<1> HIDE DEF equity, peak, point
<1>9. /\ DOMAIN t = DOMAIN Start /\ t.quote = 0 /\ t.quantity = quantity /\ t.independents = <<>>
      /\ t.entries = 1 /\ t.exits = 0 /\ t.peak = h /\ t.drawdown = Worse(b.drawdown, <<h - e, h>>)
  BY <1>7 DEF Start
<1>10. Hold(b, e) = [peak |-> h, drawdown |-> Worse(b.drawdown, <<h - e, h>>)]
  BY <1>6, Zenon DEF Hold
<1>11. Hold(b, e).peak = h /\ Hold(b, e).drawdown = Worse(b.drawdown, <<h - e, h>>)
  BY <1>10
<1>12. Alike(t, Hold(b, e), quantity)
  BY <1>9, <1>11 DEF Alike
<1>13. Equity(t, c) = equity
  BY <1>3, <1>9 DEF Equity, equity
<1>14. QED
  BY <1>3, <1>4, <1>8, <1>12, <1>13

LEMMA SinglePasses ==
    ASSUME NEW s, NEW first, NEW candle
    PROVE  Pass(Single, first, s, candle) = Measure(candle, EnterAll(Single, first, candle, s))
<1>1. Single.target = 0
  BY DEF Single
<1>2. QED
  BY <1>1, Zenon DEF Pass

\* The first candle buys for the whole capital.
LEMMA FirstCandle ==
    ASSUME NEW candle \in Candle, NEW quantity, quantity = Capital \div candle.close,
           NEW t, t = Pass(Single, candle.close, Start, candle)
    PROVE  /\ quantity \in Nat
           /\ Alike(t, Hold(Unsold, quantity * candle.close), quantity)
           /\ Equity(t, candle.close) = quantity * candle.close
<1>1. PICK c \in Nat \ {0} : c = candle.close
  BY DEF Candle
<1>2. quantity \in Nat
  BY <1>1, Quotient, SimulatorAssumption
<1>3. PICK s : s = Enter(Single, candle.close, candle, Start, 1)
  OBVIOUS
<1>4. Reached(candle.close, candle.close, 1)
  <2>1. c * 100 <= c * (100 - Step * (1 - 1))
    <3>1. Step * (1 - 1) = 0
      BY SimulatorAssumption
    <3>2. 100 - Step * (1 - 1) = 100
      BY <3>1
    <3>3. c * 100 <= c * 100
      OBVIOUS
    <3>4. QED
      BY <3>2, <3>3
  <2>2. QED
    BY <1>1, <2>1 DEF Reached
<1>5. Allocation(Single, 1) = Capital
  <2>1. Single.maxEntries = 1
    BY DEF Single
  <2>2. Allocation(Single, 1) = (Capital * 1) \div 1
    BY <2>1, OneWeight DEF Allocation
  <2>3. QED
    BY <2>2, SimulatorAssumption
<1> DEFINE allocation == Allocation(Single, 1)
           spend == IF allocation < Start.quote THEN allocation ELSE Start.quote
           bought == spend \div candle.close
           alone == 1 >= Single.from
           lot == [level |-> 1, quantity |-> bought, cost |-> spend]
           trade == [type |-> IF alone THEN "INDEPENDENT_ENTRY" ELSE "PARENT_ENTRY",
                     level |-> 1, slot |-> candle.slot, quantity |-> bought,
                     quote |-> spend, pnl |-> 0]
<1>6. Start.entries = 0 /\ Start.quote = Capital /\ Start.quantity = 0 /\ Start.independents = <<>>
      /\ Start.exits = 0 /\ Start.peak = Capital /\ Start.drawdown = <<0, 1>>
  BY DEF Start
<1>7. s = [Start EXCEPT
             !.quote = @ - spend,
             !.entries = 1,
             !.quantity = IF alone THEN @ ELSE @ + bought,
             !.cost = IF alone THEN @ ELSE @ + spend,
             !.independents = IF ~alone THEN @ ELSE Append(@, lot),
             !.trades = Append(@, trade)]
  <2>1. ~(1 # Start.entries + 1 \/ ~Reached(candle.close, candle.close, 1))
    BY <1>4, <1>6
  <2>2. QED
    BY <1>3, <2>1, Zenon DEF Enter
<1>8. ~alone /\ spend = Capital /\ bought = quantity
  <2>1. Single.from = 2
    BY DEF Single
  <2>2. spend = Capital
    BY <1>5, <1>6
  <2>3. QED
    BY <2>1, <2>2
<1>9. PICK a, d, e, x : /\ a = Start.quote - spend /\ d = Start.quantity + bought
                        /\ e = Start.cost + spend /\ x = Append(Start.trades, trade)
  OBVIOUS
<1>10. a = 0 /\ d = quantity
  BY <1>2, <1>6, <1>8, <1>9, SimulatorAssumption
<1> HIDE DEF alone, spend, bought, lot, trade
<1>11. s = [Start EXCEPT !.quote = a, !.entries = 1, !.quantity = d, !.cost = e,
                         !.independents = Start.independents, !.trades = x]
  BY <1>7, <1>8, <1>9
<1>12. /\ DOMAIN s = DOMAIN Start /\ s.quote = 0 /\ s.quantity = quantity /\ s.independents = <<>>
       /\ s.entries = 1 /\ s.exits = 0 /\ s.peak = Capital /\ s.drawdown = <<0, 1>>
  BY <1>6, <1>10, <1>11 DEF Start
<1>13. Unsold.peak = Capital /\ Unsold.drawdown = <<0, 1>>
  BY DEF Unsold
<1>14. t = Measure(candle, s)
  <2>1. EnterAll(Single, candle.close, candle, Start) = s
    BY <1>3, SingleEnters
  <2>2. QED
    BY <2>1, SinglePasses
<1>15. QED
  BY <1>2, <1>12, <1>13, <1>14, Reckons

\* The candles after it only measure.
LEMMA LaterCandle ==
    ASSUME NEW candle \in Candle, NEW quantity \in Nat, NEW b, NEW s, Alike(s, b, quantity),
           NEW first, NEW t, t = Pass(Single, first, s, candle)
    PROVE  /\ Alike(t, Hold(b, quantity * candle.close), quantity)
           /\ Equity(t, candle.close) = quantity * candle.close
<1>1. /\ DOMAIN s = DOMAIN Start /\ s.quote = 0 /\ s.quantity = quantity /\ s.independents = <<>>
      /\ s.entries = 1 /\ s.exits = 0 /\ s.peak = b.peak /\ s.drawdown = b.drawdown
  BY DEF Alike
<1>2. Enter(Single, first, candle, s, 1) = s
  <2>1. 1 # s.entries + 1
    BY <1>1
  <2>2. QED
    BY <2>1, Zenon DEF Enter
<1>3. t = Measure(candle, s)
  <2>1. EnterAll(Single, first, candle, s) = s
    BY <1>2, SingleEnters
  <2>2. QED
    BY <2>1, SinglePasses
<1>4. QED
  BY <1>1, <1>3, Reckons

\* A simulation of a single entry without a target reports what the buy-and-hold baseline
\* reports of the same candles, whatever they are.
THEOREM SingleEntryIsBaseline ==
    ASSUME NEW candles \in Seq(Candle), candles # <<>>
    PROVE  SingleEntryHolds(candles)
<1>1. PICK N \in Nat \ {0} : /\ N = Len(candles) /\ DOMAIN candles = 1..N
                             /\ Last(candles) = candles[N] /\ \A k \in 1..N : candles[k] \in Candle
  BY DEF Last
<1>2. PICK quantity : quantity = Capital \div candles[1].close
  OBVIOUS
<1>3. PICK f : PassAll(Single, candles) = f[N] /\ Passing(f, N, Single, candles)
  BY <1>1, Passes
<1>4. PICK g : HoldAll(quantity, candles) = g[N] /\ Holding(g, N, quantity, candles)
  BY <1>1, Holds
<1>5. /\ f[0] = Start /\ \A k \in 1..N : f[k] = Pass(Single, candles[1].close, f[k - 1], candles[k])
      /\ g[0] = Unsold /\ \A k \in 1..N : g[k] = Hold(g[k - 1], quantity * candles[k].close)
  BY <1>3, <1>4 DEF Passing, Holding
<1> DEFINE Same(n) == Alike(f[n], g[n], quantity) /\ Equity(f[n], candles[n].close) = quantity * candles[n].close
           S == {n \in 0..N : n # 0 => Same(n)}
<1>6. quantity \in Nat /\ Same(1)
  <2>1. PICK candle \in Candle : candle = candles[1]
    BY <1>1
  <2>2. PICK t : t = Pass(Single, candle.close, Start, candle)
    OBVIOUS
  <2>3. /\ quantity \in Nat
        /\ Alike(t, Hold(Unsold, quantity * candle.close), quantity)
        /\ Equity(t, candle.close) = quantity * candle.close
    BY <1>2, <2>1, <2>2, FirstCandle
  <2>4. f[1] = t /\ g[1] = Hold(Unsold, quantity * candle.close)
    <3>1. 1 \in 1..N /\ 1 - 1 = 0
      OBVIOUS
    <3>2. QED
      BY <1>5, <2>1, <2>2, <3>1
  <2>5. QED
    BY <2>1, <2>3, <2>4
<1>7. ASSUME NEW n \in S, n + 1 \in 0..N PROVE n + 1 \in S
  <2>1. CASE n = 0
    BY <1>6, <1>7, <2>1
  <2>2. CASE n # 0
    <3>1. PICK k : k = n + 1
      OBVIOUS
    <3>2. k \in 1..N /\ k - 1 = n
      BY <1>7, <3>1
    <3>3. PICK candle \in Candle : candle = candles[k]
      BY <1>1, <3>2
    <3>4. f[k] = Pass(Single, candles[1].close, f[n], candle) /\ g[k] = Hold(g[n], quantity * candle.close)
      BY <1>5, <3>2, <3>3
    <3>5. Alike(f[n], g[n], quantity)
      BY <2>2
    <3>6. /\ Alike(f[k], Hold(g[n], quantity * candle.close), quantity)
          /\ Equity(f[k], candle.close) = quantity * candle.close
      BY <1>6, <3>4, <3>5, LaterCandle
    <3>7. Same(k)
      BY <3>3, <3>4, <3>6
    <3> HIDE DEF Same
    <3>8. QED
      BY <1>7, <3>1, <3>7
  <2>3. QED
    BY <2>1, <2>2
<1>8. Same(N)
  <2>1. 0 \in S
    OBVIOUS
  <2> HIDE DEF Same
  <2>2. N \in S
    <3> HIDE DEF S
    <3>1. QED
      BY <1>7, <2>1, Upwards
  <2>3. QED
    BY <2>2
<1>9. PICK s, b, c : s = PassAll(Single, candles) /\ b = HoldAll(quantity, candles) /\ c = candles[N].close
  OBVIOUS
<1>10. Alike(s, b, quantity) /\ Equity(s, c) = quantity * c
  BY <1>3, <1>4, <1>8, <1>9
<1>11. PICK r, h : r = Simulate(Single, candles) /\ h = BuyHold(candles)
  OBVIOUS
<1>12. /\ r.ending = Equity(s, c) /\ r.pnl = Equity(s, c) - Capital
       /\ r.drawdown = s.drawdown /\ r.tradeCount = s.entries + s.exits
  BY <1>1, <1>9, <1>11 DEF Simulate
<1>13. h = [ending |-> quantity * c, pnl |-> quantity * c - Capital, tradeCount |-> 1,
            drawdown |-> b.drawdown]
  BY <1>1, <1>2, <1>9, <1>11, Zenon DEF BuyHold
<1>14. /\ r.ending = h.ending /\ r.pnl = h.pnl /\ r.tradeCount = h.tradeCount
       /\ r.drawdown = h.drawdown
  BY <1>10, <1>12, <1>13 DEF Alike
<1>15. DOMAIN h = {"ending", "pnl", "tradeCount", "drawdown"}
  BY <1>13
<1>16. \A column \in DOMAIN h : r[column] = h[column]
  BY <1>14, <1>15
<1>17. QED
  BY <1>11, <1>16, Zenon DEF SingleEntryHolds, Single
=============================================================================
