------------------------------ MODULE Arithmetic ------------------------------
(***************************************************************************)
(* Facts the prover does not find by itself.                               *)
(*                                                                         *)
(* About k % C for any C > 0: the ring's indices (SpscRingProofs), the     *)
(* bucket slots and the start-time windows (TickPathProofs), the           *)
(* hundredths of a confidence (AgentsProofs) and the folds of the trainer  *)
(* (PostgresProofs).                                                       *)
(*                                                                         *)
(* About finite sums, SumFunctionOnSet(f, S): what the kernels report      *)
(* (TickPathProofs) and what a nightly evaluation sums up                  *)
(* (PostgresProofs).  The library's theorems on induction and on folds     *)
(* take operators as parameters, which no prover here can instantiate.     *)
(* The lemmas below are about functions, and their inductions are proofs   *)
(* by a least counterexample: a set of naturals, or a family of subsets of *)
(* a finite set, that is not empty has a least element.                    *)
(*                                                                         *)
(* About places in an order: the last run of a prompt version and the      *)
(* percentiles of the latencies of an evaluation (PostgresProofs).         *)
(***************************************************************************)
EXTENDS Integers, Functions, FiniteSetTheorems, TLAPS

\* A positive multiple of C is at least C.
LEMMA MultipleBound ==
  ASSUME NEW C \in Nat \ {0}, NEW d \in Int, d >= 1
  PROVE  C * d >= C
OBVIOUS

\* Multiplication by C distributes over the forms used below.
LEMMA Distributes ==
  ASSUME NEW C \in Nat \ {0}, NEW p \in Int, NEW q \in Int
  PROVE  /\ C * (p - q) = C * p - C * q
         /\ C * (p + q) = C * p + C * q
         /\ C * (p + 1) = C * p + C
         /\ C * p \in Int
OBVIOUS

\* k % C is a remainder.
LEMMA ModRange ==
  ASSUME NEW C \in Nat \ {0}, NEW k \in Int
  PROVE  k % C \in 0 .. C - 1
OBVIOUS

\* Every integer has a quotient, and k % C is its remainder.
LEMMA Division ==
  ASSUME NEW C \in Nat \ {0}, NEW k \in Int
  PROVE  \E q \in Int : k = C * q + (k % C) /\ k % C \in 0 .. C - 1
<1>1. k \div C \in Int /\ k = C * (k \div C) + (k % C) /\ k % C \in 0 .. C - 1
  OBVIOUS
<1> QED BY <1>1

\* Quotient and remainder are unique.
LEMMA DivisionIsUnique ==
  ASSUME NEW C \in Nat \ {0}, NEW p \in Int, NEW q \in Int, NEW r \in Int,
         NEW s \in Int, r - s < C, s - r < C, C * p + r = C * q + s
  PROVE  p = q /\ r = s
<1>1. C * (p - q) = s - r /\ C * (q - p) = r - s OBVIOUS
<1>2. ~(p - q >= 1) BY <1>1, MultipleBound
<1>3. ~(q - p >= 1) BY <1>1, MultipleBound
<1>4. p = q BY <1>2, <1>3
<1> QED BY <1>4

\* A remainder in 0 .. C - 1 is k % C.
LEMMA ModIs ==
  ASSUME NEW C \in Nat \ {0}, NEW k \in Int, NEW q \in Int, NEW r \in 0 .. C - 1,
         k = C * q + r
  PROVE  k % C = r
<1>1. PICK p \in Int : k = C * p + (k % C) /\ k % C \in 0 .. C - 1 BY Division
<1> DEFINE s == k % C
<1>2. s \in Int /\ r \in Int /\ s - r < C /\ r - s < C BY <1>1
<1>3. C * p + s = C * q + r BY <1>1
<1> HIDE DEF s
<1>4. s = r BY <1>2, <1>3, DivisionIsUnique
<1> QED BY <1>4 DEF s

\* A number below C is its own remainder, and C itself leaves none.
LEMMA ModSmall ==
  ASSUME NEW C \in Nat \ {0}
  PROVE  (\A k \in 0 .. C - 1 : k % C = k) /\ C % C = 0
OBVIOUS

\* Numbers less than C apart with the same remainder are equal.
LEMMA ModInjective ==
  ASSUME NEW C \in Nat \ {0}, NEW j \in Int, NEW k \in Int,
         j % C = k % C, j - k < C, k - j < C
  PROVE  j = k
<1>1. PICK p \in Int : j = C * p + (j % C) /\ j % C \in 0 .. C - 1 BY Division
<1>2. PICK q \in Int : k = C * q + (k % C) /\ k % C \in 0 .. C - 1 BY Division
<1> DEFINE d == j - k
<1>3. C * p \in Int /\ C * q \in Int /\ d \in Int BY Distributes
<1>4. C * q + d = C * p + 0 /\ d - 0 < C /\ 0 - d < C BY <1>1, <1>2, <1>3
<1> HIDE DEF d
<1>5. d = 0 BY <1>3, <1>4, DivisionIsUnique
<1> QED BY <1>5 DEF d

\* One lap changes no remainder.
LEMMA ModPeriodic ==
  ASSUME NEW C \in Nat \ {0}, NEW k \in Int
  PROVE  (k + C) % C = k % C
<1>1. PICK p \in Int : k = C * p + (k % C) /\ k % C \in 0 .. C - 1 BY Division
<1> DEFINE r == k % C
<1>2. k + C = C * (p + 1) + r /\ p + 1 \in Int /\ k + C \in Int /\ r \in 0 .. C - 1
  BY <1>1, Distributes
<1> HIDE DEF r
<1>3. (k + C) % C = r BY <1>2, ModIs
<1> QED BY <1>3 DEF r

\* Adding one before or after taking the remainder is the same.
LEMMA ModSuccessor ==
  ASSUME NEW C \in Nat \ {0}, NEW k \in Int
  PROVE  (k + 1) % C = ((k % C) + 1) % C
<1>1. PICK p \in Int : k = C * p + (k % C) /\ k % C \in 0 .. C - 1 BY Division
<1>2. C * p \in Int /\ C * (p + 1) = C * p + C BY Distributes
<1>3. CASE k % C = C - 1
  <2>1. k + 1 = C * (p + 1) + 0 /\ p + 1 \in Int /\ k + 1 \in Int /\ 0 \in 0 .. C - 1
    BY <1>1, <1>2, <1>3
  <2>2. (k + 1) % C = 0 BY <2>1, ModIs
  <2>3. ((k % C) + 1) % C = 0 BY <1>3, ModSmall
  <2> QED BY <2>2, <2>3
<1>4. CASE k % C # C - 1
  <2> DEFINE r == (k % C) + 1
  <2>1. k + 1 = C * p + r /\ r \in 0 .. C - 1 /\ k + 1 \in Int BY <1>1, <1>2, <1>4
  <2>2. r % C = r BY <2>1, ModSmall
  <2> HIDE DEF r
  <2>3. (k + 1) % C = r BY <2>1, ModIs
  <2> QED BY <2>2, <2>3 DEF r
<1> QED BY <1>3, <1>4

\* The remainder of a difference of remainders is the difference itself when
\* the numbers are less than C apart.
LEMMA ModDifference ==
  ASSUME NEW C \in Nat \ {0}, NEW j \in Int, NEW k \in Int, 0 <= j - k, j - k < C
  PROVE  ((j % C) - (k % C)) % C = j - k
<1>1. PICK p \in Int : j = C * p + (j % C) /\ j % C \in 0 .. C - 1 BY Division
<1>2. PICK q \in Int : k = C * q + (k % C) /\ k % C \in 0 .. C - 1 BY Division
<1> DEFINE r == j - k
           x == (j % C) - (k % C)
<1>3. /\ C * (q - p) = C * q - C * p /\ C * q \in Int /\ C * p \in Int
      /\ q - p \in Int /\ r \in 0 .. C - 1 /\ x \in Int
  BY <1>1, <1>2, Distributes
<1>4. x = C * (q - p) + r
  <2> DEFINE a == C * p
             b == C * q
             s == j % C
             t == k % C
  <2>1. j = a + s /\ k = b + t /\ a \in Int /\ b \in Int /\ s \in Int /\ t \in Int
    BY <1>1, <1>2, <1>3
  <2>2. C * (q - p) = b - a BY <1>3
  <2> HIDE DEF a, b, s, t
  <2>3. s - t = (b - a) + (j - k) BY <2>1
  <2> QED BY <2>2, <2>3 DEF s, t
<1> HIDE DEF r, x
<1>5. x % C = r BY <1>3, <1>4, ModIs
<1> QED BY <1>5 DEF r, x

\* Adding to a number or to its remainder gives the same remainder.
LEMMA ModSum ==
  ASSUME NEW C \in Nat \ {0}, NEW k \in Int, NEW d \in Int
  PROVE  (k + d) % C = ((k % C) + d) % C
<1>1. PICK p \in Int : k = C * p + (k % C) /\ k % C \in 0 .. C - 1 BY Division
<1> DEFINE r == k % C
           j == r + d
<1> HIDE DEF r
<1>2. r \in Int /\ j \in Int /\ k + d = C * p + j
  <2>1. k = C * p + r /\ C * p \in Int /\ r \in Int BY <1>1, Distributes DEF r
  <2> QED BY <2>1
<1>3. PICK q \in Int : j = C * q + (j % C) /\ j % C \in 0 .. C - 1 BY <1>2, Division
<1> HIDE DEF j
<1> DEFINE s == j % C
<1>4. /\ C * (p + q) = C * p + C * q /\ C * p \in Int /\ C * q \in Int
      /\ p + q \in Int /\ k + d \in Int /\ s \in 0 .. C - 1
  BY <1>2, <1>3, Distributes
<1>5. k + d = C * (p + q) + s
  <2>1. j = C * q + s BY <1>3
  <2> HIDE DEF s
  <2>2. s \in Int BY <1>4
  <2> QED BY <1>2, <1>4, <2>1, <2>2
<1> HIDE DEF s
<1>6. (k + d) % C = s BY <1>4, <1>5, ModIs
<1> QED BY <1>6 DEF r, j, s

-----------------------------------------------------------------------------
(* Finite sums *)

\* The least of some naturals: a property of all naturals fails, if it fails,
\* at a first one.
LEMMA LeastNatural ==
  ASSUME NEW B, B \subseteq Nat, B # {}
  PROVE  \E m \in B : \A k \in B : m <= k
<1>1. PICK m \in B : \A k \in B : ~(<<k, m>> \in OpToRel(<, Nat))
  BY NatLessThanWellFounded, WFMin, Zenon
<1>2. \A k \in B : ~(k < m) BY <1>1 DEF OpToRel
<1> QED BY <1>2

\* A smallest set of a family of finite sets.
LEMMA SmallestSet ==
  ASSUME NEW S, IsFiniteSet(S), NEW B, B \subseteq SUBSET S, B # {}
  PROVE  \E m \in B : \A x \in m : m \ {x} \notin B
<1>1. IsWellFoundedOn(StrictSubsetOrdering(S), SUBSET S)
  BY FS_StrictSubsetOrderingWellFounded, FS_FiniteSubsetsOfFinite, Zenon
<1>2. PICK m \in B : \A k \in B : ~(<<k, m>> \in StrictSubsetOrdering(S))
  BY <1>1, WFMin, Zenon
<1>3. ASSUME NEW x \in m, m \ {x} \in B PROVE FALSE
  <2>1. m \in SUBSET S /\ m \ {x} \in SUBSET S /\ m \ {x} # m BY <1>3
  <2>2. <<m \ {x}, m>> \in StrictSubsetOrdering(S) BY <2>1 DEF StrictSubsetOrdering
  <2> QED BY <1>2, <1>3, <2>2
<1> QED BY <1>3

Chosen(s) == CHOOSE x \in s : TRUE

\* The equation SumFunctionOnSet chooses a function by, on a part D of the
\* subsets of a set.
AddsUp(h, f, D) ==
  h = [s \in D |-> IF s = {} THEN 0 ELSE f[Chosen(s)] + h[s \ {Chosen(s)}]]

LEMMA SumIsChosen ==
  ASSUME NEW f, NEW S
  PROVE  SumFunctionOnSet(f, S) = (CHOOSE h : AddsUp(h, f, SUBSET S))[S]
BY DEF SumFunctionOnSet, FoldFunctionOnSet, MapThenFoldSet, AddsUp, Chosen

UpTo(S, n) == {T \in SUBSET S : Cardinality(T) <= n}

LEMMA UpToSmaller ==
  ASSUME NEW S, IsFiniteSet(S), NEW n \in Nat, NEW T \in UpTo(S, n), T # {}
  PROVE  n # 0 /\ Chosen(T) \in T /\ T \ {Chosen(T)} \in UpTo(S, n - 1)
<1>1. Chosen(T) \in T BY DEF Chosen
<1>2. T \in SUBSET S /\ Cardinality(T) <= n BY DEF UpTo
<1>3. IsFiniteSet(T) BY <1>2, FS_Subset
<1>4. Cardinality(T) \in Nat /\ Cardinality(T) # 0 BY <1>3, FS_CardinalityType, FS_EmptySet
<1>5. Cardinality(T \ {Chosen(T)}) = Cardinality(T) - 1 BY <1>1, <1>3, FS_RemoveElement
<1> QED BY <1>1, <1>2, <1>4, <1>5 DEF UpTo

LEMMA AddsUpTo ==
  ASSUME NEW f, NEW S, IsFiniteSet(S), NEW n \in Nat
  PROVE  \E h : AddsUp(h, f, UpTo(S, n))
<1> DEFINE B == {k \in Nat : ~ \E h : AddsUp(h, f, UpTo(S, k))}
<1>1. SUFFICES ASSUME n \in B PROVE FALSE OBVIOUS
<1>2. PICK m \in B : \A k \in B : m <= k
  <2>1. B \subseteq Nat /\ B # {} BY <1>1
  <2> HIDE DEF B
  <2> QED BY <2>1, LeastNatural
<1>3. CASE m = 0
  <2> DEFINE h == [s \in UpTo(S, m) |-> 0]
  <2>1. \A s \in UpTo(S, m) : s = {} BY <1>3, UpToSmaller
  <2>2. AddsUp(h, f, UpTo(S, m)) BY <2>1 DEF AddsUp
  <2> QED BY <2>2
<1>4. CASE m # 0
  <2>1. m - 1 \in Nat /\ m - 1 \notin B BY <1>2, <1>4
  <2>2. PICK g : AddsUp(g, f, UpTo(S, m - 1)) BY <2>1
  <2> DEFINE h == [s \in UpTo(S, m) |-> IF s = {} THEN 0 ELSE f[Chosen(s)] + g[s \ {Chosen(s)}]]
  <2>3. ASSUME NEW s \in UpTo(S, m - 1) PROVE s \in UpTo(S, m) /\ h[s] = g[s]
    <3>1. s \in SUBSET S /\ Cardinality(s) <= m - 1 BY DEF UpTo
    <3>2. IsFiniteSet(s) BY <3>1, FS_Subset
    <3>3. Cardinality(s) \in Nat BY <3>2, FS_CardinalityType
    <3>4. s \in UpTo(S, m) BY <3>1, <3>3 DEF UpTo
    <3>5. g = [t \in UpTo(S, m - 1) |-> IF t = {} THEN 0 ELSE f[Chosen(t)] + g[t \ {Chosen(t)}]]
      BY <2>2 DEF AddsUp
    <3>6. g[s] = IF s = {} THEN 0 ELSE f[Chosen(s)] + g[s \ {Chosen(s)}] BY <3>5
    <3> QED BY <3>4, <3>6
  <2>4. ASSUME NEW s \in UpTo(S, m), s # {} PROVE h[s \ {Chosen(s)}] = g[s \ {Chosen(s)}]
    BY <2>3, <2>4, UpToSmaller
  <2>5. h = [s \in UpTo(S, m) |-> IF s = {} THEN 0 ELSE f[Chosen(s)] + h[s \ {Chosen(s)}]]
    BY <2>4
  <2>6. AddsUp(h, f, UpTo(S, m)) BY <2>5 DEF AddsUp
  <2> QED BY <2>6
<1> QED BY <1>3, <1>4

\* h adds up f over every subset of S, in whatever order.
PartialSums(h, f, S) ==
  /\ h \in [SUBSET S -> Int]
  /\ h[{}] = 0
  /\ \A T \in SUBSET S : \A x \in T : h[T] = f[x] + h[T \ {x}]

LEMMA SumExists ==
  ASSUME NEW f, NEW S, IsFiniteSet(S), \A x \in S : f[x] \in Int
  PROVE  \E h : PartialSums(h, f, S) /\ SumFunctionOnSet(f, S) = h[S]
<1> DEFINE h == CHOOSE h : AddsUp(h, f, SUBSET S)
<1>1. UpTo(S, Cardinality(S)) = SUBSET S /\ Cardinality(S) \in Nat
  BY FS_Subset, FS_CardinalityType DEF UpTo
<1>2. AddsUp(h, f, SUBSET S)
  <2>1. \E g : AddsUp(g, f, SUBSET S)
    <3>1. \E g : AddsUp(g, f, UpTo(S, Cardinality(S))) BY <1>1, AddsUpTo
    <3> QED BY <1>1, <3>1
  <2> QED BY <2>1, Zenon
<1>3. SumFunctionOnSet(f, S) = h[S] BY SumIsChosen
<1> HIDE DEF h
<1>4. h = [s \in SUBSET S |-> IF s = {} THEN 0 ELSE f[Chosen(s)] + h[s \ {Chosen(s)}]]
  BY <1>2 DEF AddsUp
<1>5. /\ DOMAIN h = SUBSET S /\ h[{}] = 0
      /\ \A T \in SUBSET S : T # {} => h[T] = f[Chosen(T)] + h[T \ {Chosen(T)}]
  BY <1>4
<1>6. \A T \in SUBSET S : T # {} => Chosen(T) \in T BY DEF Chosen
<1>7. \A T \in SUBSET S : h[T] \in Int
  <2> DEFINE B == {T \in SUBSET S : h[T] \notin Int}
  <2>1. SUFFICES ASSUME B # {} PROVE FALSE OBVIOUS
  <2>2. PICK m \in B : \A x \in m : m \ {x} \notin B
    <3>1. B \subseteq SUBSET S OBVIOUS
    <3> HIDE DEF B
    <3> QED BY <2>1, <3>1, SmallestSet
  <2>3. m # {}
    <3>1. h[m] \notin Int BY <2>2
    <3>2. h[{}] \in Int BY <1>5
    <3> QED BY <3>1, <3>2
  <2>4. Chosen(m) \in m /\ Chosen(m) \in S BY <2>3, <1>6
  <2>5. h[m \ {Chosen(m)}] \in Int BY <2>2, <2>4
  <2> QED BY <1>5, <2>2, <2>3, <2>4, <2>5
<1>8. \A T \in SUBSET S : \A x \in T : h[T] = f[x] + h[T \ {x}]
  <2> DEFINE B == {T \in SUBSET S : ~ \A x \in T : h[T] = f[x] + h[T \ {x}]}
  <2>1. SUFFICES ASSUME B # {} PROVE FALSE OBVIOUS
  <2>2. PICK m \in B : \A x \in m : m \ {x} \notin B
    <3>1. B \subseteq SUBSET S OBVIOUS
    <3> HIDE DEF B
    <3> QED BY <2>1, <3>1, SmallestSet
  <2>3. PICK x \in m : h[m] # f[x] + h[m \ {x}] BY <2>2
  <2> DEFINE c == Chosen(m)
  <2>4. c \in m /\ h[m] = f[c] + h[m \ {c}] /\ m \in SUBSET S BY <2>3, <1>5, <1>6
  <2> HIDE DEF c
  <2>5. x # c BY <2>3, <2>4
  <2>6. h[m \ {c}] = f[x] + h[(m \ {c}) \ {x}] BY <2>2, <2>4, <2>5
  <2>7. h[m \ {x}] = f[c] + h[(m \ {x}) \ {c}] BY <2>2, <2>4, <2>5
  <2>8. (m \ {x}) \ {c} = (m \ {c}) \ {x} OBVIOUS
  <2>9. f[x] \in Int /\ f[c] \in Int /\ h[(m \ {c}) \ {x}] \in Int
    <3>1. (m \ {c}) \ {x} \in SUBSET S BY <2>4
    <3> QED BY <2>4, <1>7, <3>1
  <2> DEFINE k == h[(m \ {c}) \ {x}]
             a == f[x]
             b == f[c]
  <2>10. h[m] = b + (a + k) /\ h[m \ {x}] = b + k BY <2>4, <2>6, <2>7, <2>8
  <2> HIDE DEF k, a, b
  <2>11. b + (a + k) = a + (b + k) BY <2>9 DEF a, b, k
  <2>12. h[m] # a + (b + k) BY <2>3, <2>10 DEF a
  <2> QED BY <2>10, <2>11, <2>12
<1>9. h \in [SUBSET S -> Int]
  <2>1. h = [T \in SUBSET S |-> h[T]] BY <1>4
  <2> QED BY <1>7, <2>1
<1> QED BY <1>3, <1>5, <1>8, <1>9 DEF PartialSums

\* There is only one way to add up.
LEMMA SumsAgree ==
  ASSUME NEW f, NEW S, IsFiniteSet(S), NEW h, PartialSums(h, f, S), NEW g, PartialSums(g, f, S)
  PROVE  \A T \in SUBSET S : h[T] = g[T]
<1> USE DEF PartialSums
<1> DEFINE B == {T \in SUBSET S : h[T] # g[T]}
<1>1. SUFFICES ASSUME B # {} PROVE FALSE OBVIOUS
<1>2. PICK m \in B : \A x \in m : m \ {x} \notin B
  <2>1. B \subseteq SUBSET S OBVIOUS
  <2> HIDE DEF B
  <2> QED BY <1>1, <2>1, SmallestSet
<1>3. PICK x : x \in m BY <1>2
<1>4. m \ {x} \in SUBSET S BY <1>2
<1>5. h[m \ {x}] = g[m \ {x}] BY <1>2, <1>3, <1>4
<1> QED BY <1>2, <1>3, <1>5

\* Whatever adds up f is its sum.
LEMMA SumIs ==
  ASSUME NEW f, NEW S, IsFiniteSet(S), \A x \in S : f[x] \in Int,
         NEW h, PartialSums(h, f, S)
  PROVE  SumFunctionOnSet(f, S) = h[S] /\ SumFunctionOnSet(f, S) \in Int
<1>1. PICK g : PartialSums(g, f, S) /\ SumFunctionOnSet(f, S) = g[S] BY SumExists
<1>2. g[S] = h[S] BY <1>1, SumsAgree
<1> QED BY <1>1, <1>2 DEF PartialSums

\* The sum over the empty set, and with one element taken out.
LEMMA SumStep ==
  ASSUME NEW f, NEW S, IsFiniteSet(S), \A x \in S : f[x] \in Int
  PROVE  /\ SumFunctionOnSet(f, {}) = 0
         /\ SumFunctionOnSet(f, S) \in Int
         /\ \A x \in S : SumFunctionOnSet(f, S) = f[x] + SumFunctionOnSet(f, S \ {x})
<1>1. PICK h : PartialSums(h, f, S) /\ SumFunctionOnSet(f, S) = h[S] BY SumExists
<1>2. ASSUME NEW T \in SUBSET S PROVE SumFunctionOnSet(f, T) = h[T]
  <2> DEFINE g == [U \in SUBSET T |-> h[U]]
  <2>1. IsFiniteSet(T) /\ \A x \in T : f[x] \in Int BY FS_Subset
  <2>2. \A U \in SUBSET T : g[U] = h[U] /\ U \in SUBSET S OBVIOUS
  <2>3. PartialSums(g, f, T)
    <3>1. g \in [SUBSET T -> Int] BY <1>1, <2>2 DEF PartialSums
    <3>2. g[{}] = 0 BY <1>1, <2>2 DEF PartialSums
    <3>3. ASSUME NEW U \in SUBSET T, NEW x \in U PROVE g[U] = f[x] + g[U \ {x}]
      <4>1. U \ {x} \in SUBSET T OBVIOUS
      <4>2. h[U] = f[x] + h[U \ {x}] BY <1>1, <2>2 DEF PartialSums
      <4> QED BY <2>2, <4>1, <4>2
    <3> HIDE DEF g
    <3> QED BY <3>1, <3>2, <3>3 DEF PartialSums
  <2>4. g[T] = h[T] OBVIOUS
  <2> HIDE DEF g
  <2> QED BY <2>1, <2>3, <2>4, SumIs
<1>3. {} \in SUBSET S /\ \A x \in S : S \ {x} \in SUBSET S OBVIOUS
<1> QED BY <1>1, <1>2, <1>3 DEF PartialSums

\* One more term.
LEMMA SumAdd ==
  ASSUME NEW f, NEW S, IsFiniteSet(S), NEW x, x \notin S, \A y \in S \cup {x} : f[y] \in Int
  PROVE  SumFunctionOnSet(f, S \cup {x}) = f[x] + SumFunctionOnSet(f, S)
<1>1. IsFiniteSet(S \cup {x}) /\ (S \cup {x}) \ {x} = S BY FS_AddElement
<1> QED BY <1>1, SumStep

\* Only the values on the set count, and those that are 0 do not.
LEMMA SumDropsZeros ==
  ASSUME NEW f, NEW S, IsFiniteSet(S), \A x \in S : f[x] \in Int,
         NEW g, NEW R, R \subseteq S, \A x \in R : g[x] = f[x],
         \A x \in S \ R : f[x] = 0
  PROVE  SumFunctionOnSet(f, S) = SumFunctionOnSet(g, R)
<1> DEFINE h == [T \in SUBSET S |-> SumFunctionOnSet(g, T \cap R)]
<1>1. ASSUME NEW T \in SUBSET S
      PROVE  /\ IsFiniteSet(T \cap R) /\ h[T] \in Int
             /\ \A x \in T : h[T] = f[x] + h[T \ {x}]
  <2>1. T \cap R \in SUBSET S /\ \A x \in T \cap R : g[x] \in Int OBVIOUS
  <2>2. IsFiniteSet(T \cap R) BY <2>1, FS_Subset
  <2>3. h[T] = SumFunctionOnSet(g, T \cap R) OBVIOUS
  <2>4. h[T] \in Int BY <2>1, <2>2, <2>3, SumStep
  <2>5. ASSUME NEW x \in T PROVE h[T] = f[x] + h[T \ {x}]
    <3>1. h[T \ {x}] = SumFunctionOnSet(g, (T \ {x}) \cap R) OBVIOUS
    <3>2. CASE x \in R
      <4>1. (T \ {x}) \cap R = (T \cap R) \ {x} /\ x \in T \cap R /\ g[x] = f[x] BY <3>2
      <4> HIDE DEF h
      <4> QED BY <2>1, <2>2, <2>3, <3>1, <4>1, SumStep
    <3>3. CASE x \notin R
      <4>1. (T \ {x}) \cap R = T \cap R /\ f[x] = 0 BY <3>3
      <4>2. h[T \ {x}] = h[T] BY <2>3, <3>1, <4>1
      <4> HIDE DEF h
      <4> QED BY <2>4, <4>1, <4>2
    <3> QED BY <3>2, <3>3
  <2> QED BY <2>2, <2>4, <2>5
<1>2. h[{}] = 0
  <2>1. h[{}] = SumFunctionOnSet(g, {}) OBVIOUS
  <2> QED BY <2>1, FS_EmptySet, SumStep
<1>3. h[S] = SumFunctionOnSet(g, R)
  <2>1. S \cap R = R OBVIOUS
  <2> QED BY <2>1
<1>4. h \in [SUBSET S -> Int] BY <1>1
<1> HIDE DEF h
<1>5. PartialSums(h, f, S) BY <1>1, <1>2, <1>4 DEF PartialSums
<1> QED BY <1>3, <1>5, SumIs

\* Renaming the terms one to one.
LEMMA SumReindexed ==
  ASSUME NEW f, NEW S, IsFiniteSet(S), \A x \in S : f[x] \in Int,
         NEW p, \A x, y \in S : p[x] = p[y] => x = y,
         NEW g, \A x \in S : g[p[x]] = f[x]
  PROVE  SumFunctionOnSet(f, S) = SumFunctionOnSet(g, {p[x] : x \in S})
<1> DEFINE Of(T) == {p[x] : x \in T}
           h == [T \in SUBSET S |-> SumFunctionOnSet(g, Of(T))]
<1>1. ASSUME NEW T \in SUBSET S
      PROVE  /\ h[T] \in Int
             /\ \A x \in T : h[T] = f[x] + h[T \ {x}]
  <2>1. IsFiniteSet(T) BY FS_Subset
  <2>2. IsFiniteSet(Of(T))
    <3> DEFINE q == [x \in T |-> p[x]]
    <3>1. q \in Surjection(T, Of(T)) BY DEF Surjection
    <3> HIDE DEF q, Of
    <3> QED BY <2>1, <3>1, FS_Surjection
  <2>3. \A y \in Of(T) : g[y] \in Int OBVIOUS
  <2>4. h[T] = SumFunctionOnSet(g, Of(T)) OBVIOUS
  <2>5. ASSUME NEW x \in T PROVE h[T] = f[x] + h[T \ {x}]
    <3>1. h[T \ {x}] = SumFunctionOnSet(g, Of(T \ {x})) OBVIOUS
    <3>2. Of(T \ {x}) = Of(T) \ {p[x]} OBVIOUS
    <3>3. p[x] \in Of(T) /\ g[p[x]] = f[x] OBVIOUS
    <3> DEFINE R == Of(T)
               y == p[x]
    <3>4. IsFiniteSet(R) /\ (\A z \in R : g[z] \in Int) /\ y \in R BY <2>2, <2>3, <3>3
    <3>5. /\ h[T] = SumFunctionOnSet(g, R) /\ h[T \ {x}] = SumFunctionOnSet(g, R \ {y})
          /\ g[y] = f[x]
      BY <2>4, <3>1, <3>2, <3>3
    <3> HIDE DEF h, R, y
    <3>6. SumFunctionOnSet(g, R) = g[y] + SumFunctionOnSet(g, R \ {y}) BY <3>4, SumStep
    <3> QED BY <3>5, <3>6
  <2>6. SumFunctionOnSet(g, Of(T)) \in Int
    <3> HIDE DEF Of
    <3> QED BY <2>2, <2>3, SumStep
  <2> QED BY <2>4, <2>5, <2>6
<1>2. h[{}] = 0
  <2>1. h[{}] = SumFunctionOnSet(g, Of({})) /\ Of({}) = {} OBVIOUS
  <2> HIDE DEF h, Of
  <2> QED BY <2>1, FS_EmptySet, SumStep
<1>3. h[S] = SumFunctionOnSet(g, Of(S)) OBVIOUS
<1>4. h \in [SUBSET S -> Int] BY <1>1
<1> HIDE DEF h
<1>5. PartialSums(h, f, S) BY <1>1, <1>2, <1>4 DEF PartialSums
<1> QED BY <1>3, <1>5, SumIs

\* A sum of sums, and of multiples.
LEMMA SumLinear ==
  ASSUME NEW S, IsFiniteSet(S), NEW f, NEW g, NEW k, NEW a \in Int, NEW b \in Int,
         \A x \in S : f[x] \in Int /\ g[x] \in Int /\ k[x] = a * f[x] + b * g[x]
  PROVE  SumFunctionOnSet(k, S) = a * SumFunctionOnSet(f, S) + b * SumFunctionOnSet(g, S)
<1>1. PICK F : PartialSums(F, f, S) /\ SumFunctionOnSet(f, S) = F[S] BY SumExists
<1>2. PICK G : PartialSums(G, g, S) /\ SumFunctionOnSet(g, S) = G[S] BY SumExists
<1> DEFINE h == [T \in SUBSET S |-> a * F[T] + b * G[T]]
<1>3. h \in [SUBSET S -> Int] BY <1>1, <1>2 DEF PartialSums
<1>4. h[{}] = 0 BY <1>1, <1>2 DEF PartialSums
<1>5. ASSUME NEW T \in SUBSET S, NEW x \in T PROVE h[T] = k[x] + h[T \ {x}]
  <2> DEFINE U == T \ {x}
             p == F[U]
             q == G[U]
             u == f[x]
             v == g[x]
  <2>1. F[T] = u + p /\ G[T] = v + q /\ p \in Int /\ q \in Int BY <1>1, <1>2 DEF PartialSums
  <2>2. u \in Int /\ v \in Int /\ k[x] = a * u + b * v OBVIOUS
  <2>3. h[T] = a * F[T] + b * G[T] /\ h[U] = a * p + b * q OBVIOUS
  <2> HIDE DEF h, U, p, q, u, v
  <2>4. a * (u + p) + b * (v + q) = (a * u + b * v) + (a * p + b * q) BY <2>1, <2>2
  <2> QED BY <2>1, <2>2, <2>3, <2>4 DEF U
<1>6. h[S] = a * F[S] + b * G[S] OBVIOUS
<1> HIDE DEF h
<1>7. PartialSums(h, k, S) BY <1>3, <1>4, <1>5 DEF PartialSums
<1>8. \A x \in S : k[x] \in Int OBVIOUS
<1> QED BY <1>1, <1>2, <1>6, <1>7, <1>8, SumIs

\* The same number as often as the set has elements.
LEMMA SumOfConstant ==
  ASSUME NEW S, IsFiniteSet(S), NEW c \in Int, NEW f, \A x \in S : f[x] = c
  PROVE  SumFunctionOnSet(f, S) = c * Cardinality(S)
<1> DEFINE h == [T \in SUBSET S |-> c * Cardinality(T)]
<1>1. ASSUME NEW T \in SUBSET S
      PROVE  /\ h[T] \in Int
             /\ \A x \in T : h[T] = f[x] + h[T \ {x}]
  <2>1. IsFiniteSet(T) BY FS_Subset
  <2>2. Cardinality(T) \in Nat BY <2>1, FS_CardinalityType
  <2>3. ASSUME NEW x \in T PROVE h[T] = f[x] + h[T \ {x}]
    <3> DEFINE n == Cardinality(T)
    <3>1. Cardinality(T \ {x}) = n - 1 BY <2>1, FS_RemoveElement
    <3>2. h[T] = c * n /\ h[T \ {x}] = c * (n - 1) /\ f[x] = c /\ n \in Int BY <2>2, <3>1
    <3> HIDE DEF h, n
    <3>3. c * n = c + c * (n - 1) BY <3>2
    <3> QED BY <3>2, <3>3
  <2>4. h[T] \in Int BY <2>2
  <2> HIDE DEF h
  <2> QED BY <2>3, <2>4
<1>2. h[{}] = 0 BY FS_EmptySet
<1>3. h[S] = c * Cardinality(S) OBVIOUS
<1>4. h \in [SUBSET S -> Int] BY <1>1
<1> HIDE DEF h
<1>5. PartialSums(h, f, S) BY <1>1, <1>2, <1>4 DEF PartialSums
<1> QED BY <1>3, <1>5, SumIs

-----------------------------------------------------------------------------
(* Places in an order *)

\* A finite set of integers has a largest one.
LEMMA MaxExists ==
  ASSUME NEW S, IsFiniteSet(S), S \subseteq Int, S # {}
  PROVE  \E m \in S : \A x \in S : m >= x
<1> DEFINE B == {T \in SUBSET S : T # {} /\ ~ \E m \in T : \A x \in T : m >= x}
<1>1. SUFFICES ASSUME B # {} PROVE FALSE OBVIOUS
<1>2. PICK T \in B : \A x \in T : T \ {x} \notin B
  <2>1. B \subseteq SUBSET S OBVIOUS
  <2> HIDE DEF B
  <2> QED BY <1>1, <2>1, SmallestSet
<1>3. PICK x \in T : TRUE OBVIOUS
<1>4. x \in Int /\ T \subseteq Int OBVIOUS
<1>5. CASE T \ {x} = {} BY <1>4, <1>5
<1>6. CASE T \ {x} # {}
  <2>1. PICK m \in T \ {x} : \A y \in T \ {x} : m >= y BY <1>2, <1>3, <1>6
  <2>2. m >= x \/ x >= m BY <1>4
  <2>3. CASE m >= x BY <2>1, <2>3
  <2>4. CASE x >= m
    <3>1. \A y \in T : x >= y BY <1>4, <2>1, <2>4
    <3> QED BY <1>3, <3>1
  <2> QED BY <2>2, <2>3, <2>4
<1> QED BY <1>5, <1>6

\* Of n numbers, one has at most k below it and more than k not above it.
LEMMA OrderStatistic ==
  ASSUME NEW n \in Nat \ {0}, NEW lat, \A i \in 1 .. n : lat[i] \in Nat, NEW k \in 0 .. n - 1
  PROVE  \E v \in {lat[i] : i \in 1 .. n} :
           /\ Cardinality({i \in 1 .. n : lat[i] < v}) <= k
           /\ Cardinality({i \in 1 .. n : lat[i] <= v}) > k
<1> DEFINE I == 1 .. n
           L == {lat[i] : i \in I}
           Below(v) == {i \in I : lat[i] < v}
           AtMost(v) == {i \in I : lat[i] <= v}
           V == {v \in L : Cardinality(AtMost(v)) > k}
<1>1. IsFiniteSet(I) /\ Cardinality(I) = n BY FS_Interval
<1>2. \A v : /\ IsFiniteSet(Below(v)) /\ IsFiniteSet(AtMost(v))
             /\ Cardinality(Below(v)) \in Nat /\ Cardinality(AtMost(v)) \in Nat
  <2> TAKE v
  <2>1. Below(v) \in SUBSET I /\ AtMost(v) \in SUBSET I OBVIOUS
  <2> HIDE DEF Below, AtMost, I
  <2> QED BY <1>1, <2>1, FS_Subset, FS_CardinalityType
<1>3. ASSUME NEW J \in SUBSET I, J # {}
      PROVE  \E m \in {lat[i] : i \in J} : \A i \in J : m >= lat[i]
  <2> DEFINE T == {lat[i] : i \in J}
             f == [i \in J |-> lat[i]]
  <2>1. IsFiniteSet(J)
    <3> HIDE DEF I
    <3> QED BY <1>1, FS_Subset
  <2>2. f \in Surjection(J, T) BY DEF Surjection
  <2>3. T \subseteq Int /\ T # {} BY <1>3
  <2> HIDE DEF T, f
  <2>4. IsFiniteSet(T) BY <2>1, <2>2, FS_Surjection
  <2>5. PICK m \in T : \A x \in T : m >= x BY <2>3, <2>4, MaxExists
  <2>6. \A i \in J : lat[i] \in T BY DEF T
  <2>7. m \in {lat[i] : i \in J} /\ \A i \in J : m >= lat[i] BY <2>5, <2>6 DEF T
  <2> QED BY <2>7
<1>4. V # {}
  <2>1. 1 \in I OBVIOUS
  <2>2. PICK m \in L : \A i \in I : m >= lat[i] BY <1>3, <2>1
  <2>3. AtMost(m) = I BY <2>2
  <2>4. Cardinality(AtMost(m)) = n BY <1>1, <2>3
  <2>5. Cardinality(AtMost(m)) > k /\ m \in L
    <3> HIDE DEF AtMost, L, I
    <3> QED BY <2>2, <2>4
  <2> QED BY <2>5
<1>5. V \subseteq Nat OBVIOUS
<1>6. PICK m \in V : \A v \in V : m <= v
  <2> HIDE DEF V
  <2> QED BY <1>4, <1>5, LeastNatural
<1>7. Cardinality(Below(m)) <= k
  <2>1. CASE Below(m) = {}
    <3> HIDE DEF Below
    <3> QED BY <2>1, FS_EmptySet
  <2>2. CASE Below(m) # {}
    <3>1. SUFFICES ASSUME Cardinality(Below(m)) > k PROVE FALSE
      <4> HIDE DEF Below, AtMost
      <4> QED BY <1>2
    <3>2. Below(m) \in SUBSET I OBVIOUS
    <3>3. PICK v \in {lat[i] : i \in Below(m)} : \A i \in Below(m) : v >= lat[i]
      <4> HIDE DEF Below
      <4> QED BY <1>3, <2>2, <3>2
    <3>4. v \in L /\ v < m /\ v \in Nat OBVIOUS
    <3>5. Below(m) \subseteq AtMost(v) BY <3>3, <3>4
    <3>6. Cardinality(Below(m)) <= Cardinality(AtMost(v))
      <4> HIDE DEF Below, AtMost
      <4> QED BY <1>2, <3>5, FS_Subset
    <3>7. Cardinality(AtMost(v)) > k
      <4> HIDE DEF Below, AtMost
      <4> QED BY <1>2, <3>1, <3>6
    <3>8. v \in V BY <3>4, <3>7
    <3>9. m <= v /\ m \in Nat BY <1>5, <1>6, <3>8
    <3> HIDE DEF V, L, Below, AtMost
    <3> QED BY <3>4, <3>9
  <2> QED BY <2>1, <2>2
<1> QED BY <1>6, <1>7
=============================================================================
