-------------------------- MODULE Arithmetic_proofs --------------------------
(***************************************************************************)
(* Facts about whole numbers that the contracts' bookkeeping rests on:     *)
(* quotients rounded down, remainders, sums over the owners or the         *)
(* payments, and loops over the places of an array.                        *)
(*                                                                         *)
(* A sum is SumFunctionOnSet of the community modules, a recursive         *)
(* function on the subsets of its indices.  What it computes is proved by  *)
(* induction on finite sets, stated with a set of good subsets: every      *)
(* nonempty set of subsets of a finite set has a least one, so there is no *)
(* least subset that is not good.  A loop is such a function too, and the  *)
(* values it takes are shown to be a sequence of states, one per pass.     *)
(***************************************************************************)
EXTENDS Integers, Functions, FiniteSetTheorems, TLAPS

-----------------------------------------------------------------------------
(***************************************************************************)
(* Products and quotients.                                                 *)
(***************************************************************************)
LEMMA ProductNat ==
  ASSUME NEW a \in Nat, NEW b \in Nat
  PROVE  a * b \in Nat
OBVIOUS

LEMMA ProductGrows ==
  ASSUME NEW a \in Int, NEW b \in Int, NEW n \in Nat, a <= b
  PROVE  n * a <= n * b
OBVIOUS

LEMMA ProductCommutes ==
  ASSUME NEW a \in Int, NEW b \in Int
  PROVE  a * b = b * a
OBVIOUS

LEMMA ProductAssociates ==
  ASSUME NEW a \in Int, NEW b \in Int, NEW c \in Int
  PROVE  (a * b) * c = a * (b * c)
OBVIOUS

LEMMA ProductCancels ==
  ASSUME NEW a \in Int, NEW b \in Int, NEW n \in Nat \ {0}, n * a <= n * b
  PROVE  a <= b
OBVIOUS

LEMMA Distributes ==
  ASSUME NEW n \in Int, NEW a \in Int, NEW b \in Int
  PROVE  /\ n * (a + b) = n * a + n * b
         /\ n * (a - b) = n * a - n * b
OBVIOUS

LEMMA Quotient ==
  ASSUME NEW a \in Nat, NEW n \in Nat \ {0}
  PROVE  /\ a \div n \in Nat
         /\ n * (a \div n) <= a
         /\ a < n * ((a \div n) + 1)
<1>1. a \div n \in Nat
  BY Z3
<1>2. a % n \in 0..(n - 1)
  OBVIOUS
<1>3. a = n * (a \div n) + (a % n)
  BY <1>1, SMTT(30)
<1>4. n * ((a \div n) + 1) = n * (a \div n) + n * 1
  BY <1>1, Distributes
<1> QED
  BY <1>1, <1>2, <1>3, <1>4

\* A quotient is the largest number whose product is not larger.
LEMMA QuotientLargest ==
  ASSUME NEW a \in Nat, NEW n \in Nat \ {0}, NEW k \in Int, n * k <= a
  PROVE  k <= a \div n
<1>1. CASE k >= (a \div n) + 1
  <2>1. n * ((a \div n) + 1) <= n * k
    BY <1>1, Quotient, ProductGrows
  <2> QED
    BY <2>1, Quotient
<1> QED
  BY <1>1, Quotient

\* A larger ratio has no smaller quotient.
LEMMA QuotientGrows ==
  ASSUME NEW a \in Nat, NEW n \in Nat \ {0}, NEW b \in Nat, NEW m \in Nat \ {0},
         m * a <= n * b
  PROVE  a \div n <= b \div m
<1> DEFINE q == a \div n
<1>1. q \in Nat /\ n * q <= a
  BY Quotient
<1> HIDE DEF q
<1>2. m * (n * q) <= m * a
  BY <1>1, ProductGrows
<1>3. n * (m * q) = m * (n * q)
  BY <1>1, ProductAssociates, ProductCommutes
<1>4. n * (m * q) <= n * b
  BY <1>1, <1>2, <1>3
<1>5. m * q <= b
  BY <1>1, <1>4, ProductCancels
<1>6. q <= b \div m
  BY <1>1, <1>5, QuotientLargest
<1> QED
  BY <1>6 DEF q

\* A whole number added to a quotient.
LEMMA QuotientPlus ==
  ASSUME NEW a \in Nat, NEW n \in Nat \ {0}, NEW c \in Nat
  PROVE  (a + n * c) \div n = (a \div n) + c
<1> DEFINE q == a \div n
<1>1. q \in Nat /\ n * q <= a /\ a < n * (q + 1)
  BY Quotient
<1>2. n * c \in Nat
  BY ProductNat
<1> DEFINE r == (a + n * c) \div n
<1>3. r \in Nat /\ n * r <= a + n * c /\ a + n * c < n * (r + 1)
  <2>1. a + n * c \in Nat
    BY <1>2
  <2> QED
    BY <2>1, Quotient
<1>4. q + c <= r
  <2>1. n * (q + c) = n * q + n * c
    BY <1>1, Distributes
  <2>2. n * (q + c) <= a + n * c
    BY <1>1, <1>2, <2>1
  <2>3. a + n * c \in Nat
    BY <1>2
  <2> HIDE DEF q
  <2> QED
    BY <1>1, <2>2, <2>3, QuotientLargest
<1>5. r - c <= q
  <2> HIDE DEF r
  <2>1. n * (r - c) = n * r - n * c
    BY <1>3, Distributes
  <2>2. n * (r - c) <= a
    BY <1>2, <1>3, <2>1
  <2> QED
    BY <1>3, <2>2, QuotientLargest
<1> QED
  BY <1>1, <1>3, <1>4, <1>5

-----------------------------------------------------------------------------
(***************************************************************************)
(* Remainders.                                                             *)
(***************************************************************************)
LEMMA QuotientAndRest ==
  ASSUME NEW a \in Nat, NEW n \in Nat \ {0}
  PROVE  /\ a % n \in 0..(n - 1)
         /\ \E k \in Nat : a = n * k + (a % n)
<1>1. a % n \in 0..(n - 1)
  OBVIOUS
<1>2. a \div n \in Nat
  BY Z3
<1>3. a = n * (a \div n) + (a % n)
  BY <1>2, SMTT(30)
<1> QED
  BY <1>1, <1>2, <1>3

LEMMA RemainderIs ==
  ASSUME NEW a \in Nat, NEW n \in Nat \ {0}, NEW k \in Nat, NEW r \in 0..(n - 1),
         a = n * k + r
  PROVE  a % n = r
OBVIOUS

LEMMA MultiplesAdd ==
  ASSUME NEW x \in Int, NEW y \in Int, NEW z \in Int, NEW n \in Int, NEW k \in Int, NEW j \in Int,
         x = n * k + y, y = n * j + z
  PROVE  x = n * (k + j) + z
<1>1. n * k \in Int /\ n * j \in Int
  OBVIOUS
<1>2. x = (n * k + n * j) + z
  BY <1>1
<1> QED
  BY <1>2, Distributes

LEMMA RemainderShift ==
  ASSUME NEW a \in Nat, NEW b \in Nat, NEW n \in Nat \ {0}
  PROVE  ((a % n) + b) % n = (a + b) % n
<1> DEFINE r == a % n
           c == r + b
<1>1. PICK k \in Nat : a = n * k + r
  BY QuotientAndRest
<1>2. r \in Nat
  BY QuotientAndRest
<1> HIDE DEF r
<1>3. c \in Nat
  BY <1>2
<1> DEFINE s == c % n
<1>4. PICK j \in Nat : c = n * j + s
  BY <1>3, QuotientAndRest
<1>5. s \in 0..(n - 1)
  BY <1>3, QuotientAndRest
<1> HIDE DEF s
<1>6. a + b = n * k + c
  BY <1>1, <1>2
<1> HIDE DEF c
<1>7. a + b = n * (k + j) + s
  BY <1>3, <1>4, <1>5, <1>6, MultiplesAdd
<1>8. (a + b) % n = s
  <2>1. a + b \in Nat /\ k + j \in Nat
    OBVIOUS
  <2> QED
    BY <2>1, <1>5, <1>7, RemainderIs, Zenon
<1> QED
  BY <1>8 DEF c, r, s

LEMMA RemainderTurn ==
  ASSUME NEW a \in Nat, NEW n \in Nat \ {0}
  PROVE  (a + n) % n = a % n
<1> DEFINE r == a % n
<1>1. PICK k \in Nat : a = n * k + r
  BY QuotientAndRest
<1>2. r \in 0..(n - 1)
  BY QuotientAndRest
<1> HIDE DEF r
<1>3. a + n = n * 1 + a
  OBVIOUS
<1>4. a + n = n * (1 + k) + r
  BY <1>1, <1>2, <1>3, MultiplesAdd
<1>5. (a + n) % n = r
  <2>1. a + n \in Nat /\ 1 + k \in Nat
    OBVIOUS
  <2> QED
    BY <2>1, <1>2, <1>4, RemainderIs, Zenon
<1> QED
  BY <1>5 DEF r

\* A multiple of n between -n and n is 0.
LEMMA SmallMultiple ==
  ASSUME NEW n \in Nat \ {0}, NEW m \in Int, n * m < n, -n < n * m
  PROVE  m = 0
<1>1. CASE m >= 1
  <2>1. n * m >= n
    BY <1>1
  <2> QED
    BY <2>1
<1>2. CASE m <= -1
  <2>1. n * m <= -n
    BY <1>2
  <2> QED
    BY <2>1
<1> QED
  BY <1>1, <1>2

LEMMA RemainderInjective ==
  ASSUME NEW a \in Nat, NEW n \in Nat \ {0}, NEW p \in 0..(n - 1), NEW q \in 0..(n - 1),
         (a + p) % n = (a + q) % n
  PROVE  p = q
<1> DEFINE r == (a + p) % n
<1>0. a + p \in Nat /\ a + q \in Nat
  OBVIOUS
<1>1. PICK k \in Nat : a + p = n * k + r
  BY <1>0, QuotientAndRest
<1>2. PICK j \in Nat : a + q = n * j + r
  BY <1>0, QuotientAndRest
<1>3. r \in 0..(n - 1)
  BY <1>0, QuotientAndRest
<1> HIDE DEF r
<1>4. r = n * (-j) + (a + q)
  <2>1. n * (-j) = -(n * j) /\ n * j \in Int
    OBVIOUS
  <2> QED
    BY <2>1, <1>2, <1>3
<1>5. a + p = n * (k + (-j)) + (a + q)
  BY <1>1, <1>3, <1>4, MultiplesAdd
<1>6. p - q = n * (k + (-j))
  <2>1. n * (k + (-j)) \in Int
    OBVIOUS
  <2> QED
    BY <2>1, <1>5
<1> DEFINE m == k + (-j)
<1>7. m \in Int /\ p - q = n * m
  BY <1>6
<1> HIDE DEF m
<1>8. n * m < n /\ -n < n * m
  BY <1>7
<1>9. m = 0
  BY <1>7, <1>8, SmallMultiple
<1> QED
  BY <1>7, <1>9

-----------------------------------------------------------------------------
(***************************************************************************)
(* Induction on the subsets of a finite set.                               *)
(***************************************************************************)
\* If a subset is good whenever the smaller ones are, all subsets are good.
LEMMA SubsetInduction ==
    ASSUME NEW E, IsFiniteSet(E), NEW Good,
           \A D \in SUBSET E : (\A T \in SUBSET D : T # D => T \in Good) => D \in Good
    PROVE  \A D \in SUBSET E : D \in Good
<1> DEFINE Bad == (SUBSET E) \ Good
<1> SUFFICES ASSUME Bad # {} PROVE FALSE
  OBVIOUS
<1>1. PICK D \in Bad : \A T \in Bad : <<T, D>> \notin StrictSubsetOrdering(E)
  <2> DEFINE R == StrictSubsetOrdering(E)
             S == FiniteSubsetsOf(E)
  <2>1. IsWellFoundedOn(R, S)
    BY FS_StrictSubsetOrderingWellFounded
  <2>2. Bad \subseteq S
    BY FS_FiniteSubsetsOfFinite
  <2> HIDE DEF R, S, Bad
  <2>3. \E D \in Bad : \A T \in Bad : <<T, D>> \notin R
    BY <2>1, <2>2, WFMin
  <2> QED
    BY <2>3 DEF R
<1>2. \A T \in SUBSET D : T # D => T \in Good
  BY <1>1 DEF StrictSubsetOrdering
<1> QED
  BY <1>1, <1>2

\* If the empty set is good, and a set stays good when an element is added, all
\* subsets are good.
LEMMA FiniteInduction ==
    ASSUME NEW E, IsFiniteSet(E), NEW Good, {} \in Good,
           \A D \in SUBSET E : \A x \in D : D \ {x} \in Good => D \in Good
    PROVE  \A D \in SUBSET E : D \in Good
<1>1. ASSUME NEW D \in SUBSET E, \A T \in SUBSET D : T # D => T \in Good
      PROVE  D \in Good
  <2>1. CASE D = {}
    BY <2>1
  <2>2. CASE D # {}
    <3>1. PICK x : x \in D
      BY <2>2
    <3>2. D \ {x} \in Good
      BY <3>1, <1>1
    <3> QED
      BY <3>1, <3>2
  <2> QED
    BY <2>1, <2>2
<1> QED
  BY <1>1, SubsetInduction

-----------------------------------------------------------------------------
(***************************************************************************)
(* A sum is well defined.                                                  *)
(***************************************************************************)

\* The element that a sum takes next.
Chosen(s) == CHOOSE x \in s : TRUE

LEMMA ChosenIn == \A s : s # {} => Chosen(s) \in s
BY DEF Chosen

\* g gives the sum of f over each subset of D, taking one element after another.
SumsSubsets(g, f, D) ==
    g = [s \in SUBSET D |-> IF s = {} THEN 0 ELSE f[Chosen(s)] + g[s \ {Chosen(s)}]]

LEMMA SumDef ==
    ASSUME NEW f, NEW D
    PROVE  SumFunctionOnSet(f, D) = (CHOOSE g : SumsSubsets(g, f, D))[D]
BY DEF SumFunctionOnSet, FoldFunctionOnSet, MapThenFoldSet, SumsSubsets, Chosen

\* Functions that sum up the subsets of two sets agree on those of both.
LEMMA SumsAgree ==
    ASSUME NEW E, IsFiniteSet(E), NEW f, NEW A \in SUBSET E, NEW B \in SUBSET E,
           NEW g, NEW h, SumsSubsets(g, f, A), SumsSubsets(h, f, B)
    PROVE  \A T \in SUBSET (A \cap B) : g[T] = h[T]
<1> DEFINE Good == {T \in SUBSET E : T \subseteq A /\ T \subseteq B => g[T] = h[T]}
<1>1. ASSUME NEW D \in SUBSET E, \A T \in SUBSET D : T # D => T \in Good
      PROVE  D \in Good
  <2> SUFFICES ASSUME D \subseteq A, D \subseteq B PROVE g[D] = h[D]
    OBVIOUS
  <2>1. CASE D = {}
    BY <2>1 DEF SumsSubsets
  <2>2. CASE D # {}
    <3> DEFINE c == Chosen(D)
               R == D \ {c}
    <3>1. c \in D
      BY <2>2, ChosenIn
    <3>2. R \in SUBSET D /\ R # D
      BY <3>1
    <3>3. g[R] = h[R]
      BY <3>2, <1>1
    <3>4. g[D] = f[c] + g[R]
      BY <2>2 DEF SumsSubsets
    <3>5. h[D] = f[c] + h[R]
      BY <2>2 DEF SumsSubsets
    <3> QED
      BY <3>3, <3>4, <3>5
  <2> QED
    BY <2>1, <2>2
<1> HIDE DEF Good
<1>2. \A T \in SUBSET E : T \in Good
  BY <1>1, SubsetInduction
<1> QED
  BY <1>2 DEF Good

\* The recursion that defines a sum has a solution.
LEMMA SumsExist ==
    ASSUME NEW E, IsFiniteSet(E), NEW f
    PROVE  \A D \in SUBSET E : \E g : SumsSubsets(g, f, D)
<1> DEFINE Good == {D \in SUBSET E : \E g : SumsSubsets(g, f, D)}
<1>1. ASSUME NEW D \in SUBSET E, \A T \in SUBSET D : T # D => T \in Good
      PROVE  D \in Good
  <2> DEFINE F(T) == CHOOSE g : SumsSubsets(g, f, T)
             V(T) == F(T)[T]
             g == [s \in SUBSET D |-> IF s = {} THEN 0 ELSE f[Chosen(s)] + V(s \ {Chosen(s)})]
  <2>1. ASSUME NEW T \in SUBSET D, T # D
        PROVE  SumsSubsets(F(T), f, T)
    BY <1>1, <2>1
  <2>2. ASSUME NEW s \in SUBSET D, s # D
        PROVE  g[s] = V(s)
    <3>1. CASE s = {}
      <4>1. SumsSubsets(F(s), f, s)
        BY <2>1, <2>2
      <4>2. F(s)[s] = 0
        <5> HIDE DEF F
        <5> QED BY <4>1, <3>1 DEF SumsSubsets
      <4> QED
        BY <4>2, <3>1
    <3>2. CASE s # {}
      <4> DEFINE c == Chosen(s)
                 r == s \ {c}
      <4>1. c \in s
        BY <3>2, ChosenIn
      <4>2. r \in SUBSET D /\ r # D /\ r \in SUBSET s /\ s \in SUBSET E /\ r \in SUBSET E
        BY <4>1, <2>2
      <4>3. SumsSubsets(F(s), f, s) /\ SumsSubsets(F(r), f, r)
        BY <2>1, <2>2, <4>2
      <4>4. F(s)[s] = f[c] + F(s)[r]
        <5> HIDE DEF F
        <5> QED BY <4>3, <3>2 DEF SumsSubsets
      <4>5. F(s)[r] = F(r)[r]
        <5> HIDE DEF F
        <5> QED BY <4>3, <4>2, SumsAgree
      <4>6. g[s] = f[c] + V(r)
        <5> HIDE DEF F
        <5> QED BY <3>2
      <4> QED
        BY <4>4, <4>5, <4>6
    <3> QED
      BY <3>1, <3>2
  <2>3. SumsSubsets(g, f, D)
    <3>1. ASSUME NEW s \in SUBSET D, s # {}
          PROVE  g[s \ {Chosen(s)}] = V(s \ {Chosen(s)})
      <4> HIDE DEF g, V
      <4>1. Chosen(s) \in s
        BY <3>1, ChosenIn
      <4> DEFINE r == s \ {Chosen(s)}
      <4>2. r \in SUBSET D /\ r # D
        BY <4>1
      <4> HIDE DEF r
      <4>3. g[r] = V(r)
        BY <2>2, <4>2
      <4> QED
        BY <4>3 DEF r
    <3> HIDE DEF V
    <3>2. g = [s \in SUBSET D |-> IF s = {} THEN 0 ELSE f[Chosen(s)] + g[s \ {Chosen(s)}]]
      BY <3>1
    <3> HIDE DEF g
    <3> QED
      BY <3>2 DEF SumsSubsets
  <2> HIDE DEF g
  <2> QED
    BY <2>3
<1> HIDE DEF Good
<1>2. \A D \in SUBSET E : D \in Good
  BY <1>1, SubsetInduction
<1> QED
  BY <1>2 DEF Good

\* Nothing adds up to nothing.
LEMMA SumEmpty == \A f : SumFunctionOnSet(f, {}) = 0
<1> SUFFICES ASSUME NEW f PROVE SumFunctionOnSet(f, {}) = 0
  OBVIOUS
<1> DEFINE g == CHOOSE g : SumsSubsets(g, f, {})
<1>1. SumsSubsets(g, f, {})
  BY SumsExist, FS_EmptySet
<1> HIDE DEF g
<1>2. g[{}] = 0
  BY <1>1 DEF SumsSubsets
<1> QED
  BY <1>2, SumDef DEF g

\* A sum is the chosen summand and the sum of the others.
LEMMA SumChosen ==
    ASSUME NEW f, NEW D, IsFiniteSet(D), D # {}
    PROVE  SumFunctionOnSet(f, D) = f[Chosen(D)] + SumFunctionOnSet(f, D \ {Chosen(D)})
<1> DEFINE F(T) == CHOOSE g : SumsSubsets(g, f, T)
           R == D \ {Chosen(D)}
<1>1. D \in SUBSET D /\ R \in SUBSET D /\ SumsSubsets(F(D), f, D) /\ SumsSubsets(F(R), f, R)
  BY SumsExist
<1> HIDE DEF F
<1>2. F(D)[D] = f[Chosen(D)] + F(D)[R]
  BY <1>1 DEF SumsSubsets
<1>3. F(D)[R] = F(R)[R]
  BY <1>1, SumsAgree
<1>4. SumFunctionOnSet(f, D) = F(D)[D] /\ SumFunctionOnSet(f, R) = F(R)[R]
  BY SumDef DEF F
<1> QED
  BY <1>2, <1>3, <1>4

-----------------------------------------------------------------------------
(***************************************************************************)
(* What a sum is, whatever the order of the summands.                      *)
(***************************************************************************)

\* A sum of integers is an integer.
LEMMA SumInt ==
    ASSUME NEW E, IsFiniteSet(E), NEW f, \A i \in E : f[i] \in Int
    PROVE  \A D \in SUBSET E : SumFunctionOnSet(f, D) \in Int
<1> DEFINE Good == {D \in SUBSET E : SumFunctionOnSet(f, D) \in Int}
<1>1. ASSUME NEW D \in SUBSET E, \A T \in SUBSET D : T # D => T \in Good
      PROVE  D \in Good
  <2>1. CASE D = {}
    BY <2>1, SumEmpty
  <2>2. CASE D # {}
    <3>1. Chosen(D) \in D /\ IsFiniteSet(D)
      BY <2>2, ChosenIn, FS_Subset
    <3>2. SumFunctionOnSet(f, D) = f[Chosen(D)] + SumFunctionOnSet(f, D \ {Chosen(D)})
      BY <2>2, <3>1, SumChosen
    <3>3. D \ {Chosen(D)} \in Good
      BY <3>1, <1>1
    <3> QED
      BY <3>1, <3>2, <3>3
  <2> QED
    BY <2>1, <2>2
<1> HIDE DEF Good
<1>2. \A D \in SUBSET E : D \in Good
  BY <1>1, SubsetInduction
<1> QED
  BY <1>2 DEF Good

\* Any summand may be taken out.
LEMMA SumRemove ==
    ASSUME NEW E, IsFiniteSet(E), NEW f, \A i \in E : f[i] \in Int
    PROVE  \A D \in SUBSET E : \A x \in D :
               SumFunctionOnSet(f, D) = f[x] + SumFunctionOnSet(f, D \ {x})
<1> DEFINE S(D) == SumFunctionOnSet(f, D)
           Good == {D \in SUBSET E : \A x \in D : S(D) = f[x] + S(D \ {x})}
<1>1. ASSUME NEW D \in SUBSET E, \A T \in SUBSET D : T # D => T \in Good
      PROVE  D \in Good
  <2> SUFFICES ASSUME NEW x \in D PROVE S(D) = f[x] + S(D \ {x})
    OBVIOUS
  <2> DEFINE c == Chosen(D)
  <2>1. c \in D /\ IsFiniteSet(D)
    BY ChosenIn, FS_Subset
  <2>2. S(D) = f[c] + S(D \ {c})
    BY <2>1, SumChosen
  <2>3. CASE c = x
    BY <2>2, <2>3
  <2>4. CASE c # x
    <3> HIDE DEF S, c
    <3>1. D \ {c} \in Good /\ D \ {x} \in Good
      BY <2>1, <1>1
    <3>2. S(D \ {c}) = f[x] + S((D \ {c}) \ {x})
      BY <3>1, <2>4
    <3>3. S(D \ {x}) = f[c] + S((D \ {x}) \ {c})
      BY <3>1, <2>4, <2>1
    <3>4. (D \ {c}) \ {x} = (D \ {x}) \ {c}
      OBVIOUS
    <3>5. S((D \ {c}) \ {x}) \in Int /\ f[x] \in Int /\ f[c] \in Int
      BY <2>1, SumInt DEF S
    <3> DEFINE rest == S((D \ {c}) \ {x})
    <3>6. S(D) = f[c] + (f[x] + rest) /\ S(D \ {x}) = f[c] + rest
      BY <2>2, <3>2, <3>3, <3>4
    <3> HIDE DEF rest
    <3> QED
      BY <3>5, <3>6 DEF rest
  <2> QED
    BY <2>3, <2>4
<1> HIDE DEF Good
<1>2. \A D \in SUBSET E : D \in Good
  BY <1>1, SubsetInduction
<1> QED
  BY <1>2 DEF Good

\* Equal summands have equal sums.
LEMMA SumEqual ==
    ASSUME NEW E, IsFiniteSet(E), NEW f, NEW g,
           \A i \in E : f[i] \in Int, \A i \in E : f[i] = g[i]
    PROVE  \A D \in SUBSET E : SumFunctionOnSet(f, D) = SumFunctionOnSet(g, D)
<1> DEFINE Good == {D \in SUBSET E : SumFunctionOnSet(f, D) = SumFunctionOnSet(g, D)}
<1>1. {} \in Good
  BY SumEmpty
<1>2. ASSUME NEW D \in SUBSET E, NEW x \in D, D \ {x} \in Good
      PROVE  D \in Good
  <2>1. \A i \in E : g[i] \in Int
    OBVIOUS
  <2>2. SumFunctionOnSet(f, D) = f[x] + SumFunctionOnSet(f, D \ {x})
    BY SumRemove
  <2>3. SumFunctionOnSet(g, D) = g[x] + SumFunctionOnSet(g, D \ {x})
    BY <2>1, SumRemove
  <2> QED
    BY <1>2, <2>2, <2>3
<1> HIDE DEF Good
<1>3. \A D \in SUBSET E : D \in Good
  BY <1>1, <1>2, FiniteInduction
<1> QED
  BY <1>3 DEF Good

\* Sums compare as their summands do: shares that are each rounded down do not
\* exceed the whole.
LEMMA SumScaled ==
    ASSUME NEW E, IsFiniteSet(E), NEW f, NEW g, NEW a \in Int, NEW t \in Int,
           \A i \in E : f[i] \in Int, \A i \in E : g[i] \in Int,
           \A i \in E : g[i] * t <= f[i] * a
    PROVE  \A D \in SUBSET E : SumFunctionOnSet(g, D) * t <= SumFunctionOnSet(f, D) * a
<1> DEFINE Good == {D \in SUBSET E : SumFunctionOnSet(g, D) * t <= SumFunctionOnSet(f, D) * a}
<1>1. {} \in Good
  BY SumEmpty
<1>2. ASSUME NEW D \in SUBSET E, NEW x \in D, D \ {x} \in Good
      PROVE  D \in Good
  <2> DEFINE F == SumFunctionOnSet(f, D \ {x})
             G == SumFunctionOnSet(g, D \ {x})
  <2>1. SumFunctionOnSet(f, D) = f[x] + F /\ SumFunctionOnSet(g, D) = g[x] + G
    BY SumRemove
  <2>2. F \in Int /\ G \in Int
    BY SumInt
  <2>3. G * t <= F * a
    BY <1>2
  <2>4. x \in E /\ f[x] \in Int /\ g[x] \in Int /\ g[x] * t <= f[x] * a
    OBVIOUS
  <2> HIDE DEF F, G
  <2>5. (g[x] + G) * t = g[x] * t + G * t /\ (f[x] + F) * a = f[x] * a + F * a
    BY <2>2, <2>4
  <2>6. (g[x] + G) * t <= (f[x] + F) * a
    BY <2>2, <2>3, <2>4, <2>5
  <2> QED
    BY <2>1, <2>6
<1> HIDE DEF Good
<1>3. \A D \in SUBSET E : D \in Good
  BY <1>1, <1>2, FiniteInduction
<1> QED
  BY <1>3 DEF Good

\* A sum of which one summand changes.
LEMMA SumChangeOne ==
    ASSUME NEW E, IsFiniteSet(E), NEW f, NEW g, NEW x \in E,
           \A i \in E : f[i] \in Int, g[x] \in Int,
           \A i \in E \ {x} : g[i] = f[i]
    PROVE  SumFunctionOnSet(g, E) = SumFunctionOnSet(f, E) - f[x] + g[x]
<1>1. SumFunctionOnSet(f, E) = f[x] + SumFunctionOnSet(f, E \ {x})
  BY SumRemove
<1>2. SumFunctionOnSet(g, E) = g[x] + SumFunctionOnSet(g, E \ {x})
  BY SumRemove
<1>3. SumFunctionOnSet(g, E \ {x}) = SumFunctionOnSet(f, E \ {x})
  <2>1. IsFiniteSet(E \ {x})
    BY FS_Subset
  <2> QED
    BY <2>1, SumEqual
<1>4. SumFunctionOnSet(f, E \ {x}) \in Int /\ f[x] \in Int
  BY SumInt
<1> QED
  BY <1>1, <1>2, <1>3, <1>4

\* Smaller summands have a smaller sum.
LEMMA SumAtMost ==
    ASSUME NEW E, IsFiniteSet(E), NEW f, NEW g,
           \A i \in E : f[i] \in Int, \A i \in E : g[i] \in Int,
           \A i \in E : g[i] <= f[i]
    PROVE  SumFunctionOnSet(g, E) <= SumFunctionOnSet(f, E)
<1>1. SumFunctionOnSet(g, E) * 1 <= SumFunctionOnSet(f, E) * 1
  BY SumScaled
<1>2. SumFunctionOnSet(g, E) \in Int /\ SumFunctionOnSet(f, E) \in Int
  BY SumInt
<1> QED
  BY <1>1, <1>2

\* Zeros add up to zero.
LEMMA SumZero ==
    ASSUME NEW E, IsFiniteSet(E), NEW f, \A i \in E : f[i] = 0
    PROVE  SumFunctionOnSet(f, E) = 0
<1> DEFINE Good == {D \in SUBSET E : SumFunctionOnSet(f, D) = 0}
<1>1. {} \in Good
  BY SumEmpty
<1>2. ASSUME NEW D \in SUBSET E, NEW x \in D, D \ {x} \in Good
      PROVE  D \in Good
  BY <1>2, SumRemove
<1> HIDE DEF Good
<1>3. \A D \in SUBSET E : D \in Good
  BY <1>1, <1>2, FiniteInduction
<1> QED
  BY <1>3 DEF Good

\* Naturals add up to a natural.
LEMMA SumNat ==
    ASSUME NEW E, IsFiniteSet(E), NEW f, \A i \in E : f[i] \in Nat
    PROVE  SumFunctionOnSet(f, E) \in Nat
<1> DEFINE zeros == [i \in E |-> 0]
<1>1. SumFunctionOnSet(zeros, E) = 0
  BY SumZero
<1>2. SumFunctionOnSet(zeros, E) <= SumFunctionOnSet(f, E)
  BY SumAtMost
<1>3. SumFunctionOnSet(f, E) \in Int
  BY SumInt
<1> QED
  BY <1>1, <1>2, <1>3

\* Fewer naturals have a smaller sum.
LEMMA SumPart ==
    ASSUME NEW E, IsFiniteSet(E), NEW f, \A i \in E : f[i] \in Nat, NEW D \in SUBSET E
    PROVE  SumFunctionOnSet(f, D) <= SumFunctionOnSet(f, E)
<1> DEFINE Good == {T \in SUBSET E : SumFunctionOnSet(f, E \ T) <= SumFunctionOnSet(f, E)}
<1>1. \A T \in SUBSET E : SumFunctionOnSet(f, T) \in Int
  BY SumInt
<1>2. {} \in Good
  <2>1. E \ {} = E
    OBVIOUS
  <2> QED
    BY <1>1, <2>1
<1>3. ASSUME NEW T \in SUBSET E, NEW x \in T, T \ {x} \in Good
      PROVE  T \in Good
  <2> DEFINE R == E \ (T \ {x})
  <2>1. x \in R /\ R \ {x} = E \ T /\ R \in SUBSET E
    OBVIOUS
  <2>2. SumFunctionOnSet(f, R) = f[x] + SumFunctionOnSet(f, R \ {x})
    BY <2>1, SumRemove
  <2>3. SumFunctionOnSet(f, R) <= SumFunctionOnSet(f, E)
    BY <1>3
  <2> HIDE DEF R
  <2>4. SumFunctionOnSet(f, R) = f[x] + SumFunctionOnSet(f, E \ T)
    BY <2>1, <2>2
  <2> QED
    BY <1>1, <2>1, <2>3, <2>4
<1> HIDE DEF Good
<1>4. \A T \in SUBSET E : T \in Good
  BY <1>2, <1>3, FiniteInduction
<1>5. SumFunctionOnSet(f, E \ (E \ D)) <= SumFunctionOnSet(f, E)
  BY <1>4 DEF Good
<1>6. E \ (E \ D) = D
  OBVIOUS
<1> QED
  BY <1>5, <1>6

\* No summand, and no two of them, exceed the sum.
LEMMA SummandsWithin ==
    ASSUME NEW E, IsFiniteSet(E), NEW f, \A i \in E : f[i] \in Nat, NEW x \in E
    PROVE  /\ f[x] <= SumFunctionOnSet(f, E)
           /\ \A y \in E \ {x} : f[x] + f[y] <= SumFunctionOnSet(f, E)
<1>1. IsFiniteSet(E \ {x})
  BY FS_Subset
<1>2. SumFunctionOnSet(f, E) = f[x] + SumFunctionOnSet(f, E \ {x})
  BY SumRemove
<1>3. SumFunctionOnSet(f, E \ {x}) \in Nat
  BY <1>1, SumNat
<1>4. ASSUME NEW y \in E \ {x}
      PROVE  f[y] <= SumFunctionOnSet(f, E \ {x})
  <2>1. SumFunctionOnSet(f, E \ {x}) = f[y] + SumFunctionOnSet(f, (E \ {x}) \ {y})
    BY SumRemove
  <2>2. IsFiniteSet((E \ {x}) \ {y})
    BY FS_Subset
  <2>3. SumFunctionOnSet(f, (E \ {x}) \ {y}) \in Nat
    BY <2>2, SumNat
  <2> QED
    BY <2>1, <2>3
<1> QED
  BY <1>2, <1>3, <1>4

\* Shares by points, each rounded down or capped below that, do not exceed what
\* is shared.
LEMMA SharesWithin ==
    ASSUME NEW E, IsFiniteSet(E), NEW D \in SUBSET E, NEW f, NEW g,
           NEW t \in Nat \ {0}, NEW fees \in Nat,
           \A o \in E : f[o] \in Nat, SumFunctionOnSet(f, E) <= t,
           \A o \in E : g[o] \in Nat /\ g[o] <= (f[o] * fees) \div t
    PROVE  SumFunctionOnSet(g, D) \in Nat /\ SumFunctionOnSet(g, D) <= fees
<1>1. ASSUME NEW o \in E PROVE g[o] * t <= f[o] * fees
  <2> DEFINE a == f[o] * fees
             q == a \div t
  <2>1. a \in Nat
    BY ProductNat
  <2> HIDE DEF a
  <2>2. q \in Nat /\ t * q <= a
    BY <2>1, Quotient
  <2>3. g[o] \in Nat /\ g[o] <= q
    BY DEF a
  <2> HIDE DEF q
  <2>4. t * g[o] <= t * q
    BY <2>2, <2>3, ProductGrows
  <2>5. t * g[o] = g[o] * t /\ t * g[o] \in Nat /\ t * q \in Nat
    BY <2>2, <2>3, ProductCommutes, ProductNat
  <2>6. t * g[o] <= a
    BY <2>1, <2>2, <2>4, <2>5
  <2> QED
    BY <2>5, <2>6 DEF a
<1>2. SumFunctionOnSet(g, D) * t <= SumFunctionOnSet(f, D) * fees
  <2>1. t \in Int /\ fees \in Int
    OBVIOUS
  <2>2. (\A o \in E : f[o] \in Int) /\ \A o \in E : g[o] \in Int
    OBVIOUS
  <2>3. \A o \in E : g[o] * t <= f[o] * fees
    BY <1>1
  <2>4. \A S \in SUBSET E : SumFunctionOnSet(g, S) * t <= SumFunctionOnSet(f, S) * fees
    BY <2>1, <2>2, <2>3, SumScaled
  <2> QED
    BY <2>4
<1> DEFINE sum == SumFunctionOnSet(f, D)
           all == SumFunctionOnSet(f, E)
           pays == SumFunctionOnSet(g, D)
<1>3. IsFiniteSet(D) /\ sum \in Nat /\ pays \in Nat
  <2>1. IsFiniteSet(D)
    BY FS_Subset
  <2>2. (\A o \in D : f[o] \in Nat) /\ \A o \in D : g[o] \in Nat
    OBVIOUS
  <2> QED
    BY <2>1, <2>2, SumNat
<1>4. sum <= all
  BY SumPart
<1>5. all \in Nat
  BY SumNat
<1>6. all <= t /\ pays * t <= sum * fees
  BY <1>2
<1> HIDE DEF sum, all, pays
<1>7. sum <= t
  BY <1>3, <1>4, <1>5, <1>6
<1>8. fees * sum <= fees * t
  BY <1>3, <1>7, ProductGrows
<1>9. fees * sum = sum * fees /\ fees * t = t * fees /\ pays * t = t * pays
  BY <1>3, ProductCommutes
<1>10. t * pays \in Int /\ t * fees \in Int /\ fees * sum \in Int /\ t * pays <= fees * sum
  BY <1>3, <1>6, <1>9
<1>11. t * pays <= t * fees
  BY <1>8, <1>9, <1>10
<1>12. pays <= fees
  BY <1>3, <1>11, ProductCancels
<1> QED
  BY <1>3, <1>12 DEF pays

-----------------------------------------------------------------------------
(***************************************************************************)
(* Loops.  A loop over the places 1..n of an array starts with base and    *)
(* takes the value v to G[<<v, i>>] at place i.  The folds of the          *)
(* community modules define it on every set of places, the last place of   *)
(* a set being taken last.                                                 *)
(***************************************************************************)
\* If 0 is good, and a number is whenever the one before is, all up to n are.
LEMMA CountingInduction ==
    ASSUME NEW n \in Nat, NEW Good, 0 \in Good, \A i \in 1..n : i - 1 \in Good => i \in Good
    PROVE  \A i \in 0..n : i \in Good
<1> DEFINE Fine == {D \in SUBSET (1..n) : \A i \in 0..n : 1..i \subseteq D => i \in Good}
<1>1. IsFiniteSet(1..n)
  BY FS_Interval
<1>2. ASSUME NEW D \in SUBSET (1..n), \A T \in SUBSET D : T # D => T \in Fine
      PROVE  D \in Fine
  <2> SUFFICES ASSUME NEW i \in 0..n, 1..i \subseteq D, i # 0 PROVE i \in Good
    OBVIOUS
  <2> DEFINE T == 1..(i - 1)
  <2>1. i \in 1..n /\ i \in D /\ i \notin T /\ T \subseteq 1..i /\ i - 1 \in 0..n
    OBVIOUS
  <2>2. T \in Fine
    BY <1>2, <2>1
  <2>3. i - 1 \in Good
    BY <2>1, <2>2
  <2> QED
    BY <2>1, <2>3
<1> HIDE DEF Fine
<1>3. 1..n \in Fine
  <2>1. \A D \in SUBSET (1..n) : D \in Fine
    BY <1>1, <1>2, SubsetInduction
  <2> QED
    BY <2>1
<1>4. \A i \in 0..n : 1..i \subseteq 1..n
  OBVIOUS
<1> QED
  BY <1>3, <1>4 DEF Fine

\* The place of a set that is taken last.
Greatest(s) == CHOOSE x \in s : \A y \in s : x >= y

LEMMA GreatestIs ==
    ASSUME NEW m \in Nat, NEW s \in SUBSET (1..m), m \in s
    PROVE  Greatest(s) = m
<1>1. \A y \in s : y \in Int /\ m >= y
  OBVIOUS
<1>2. \A x \in s : (\A y \in s : x >= y) => x = m
  <2> SUFFICES ASSUME NEW x \in s, \A y \in s : x >= y PROVE x = m
    OBVIOUS
  <2>1. x >= m /\ m >= x /\ x \in Int
    BY <1>1
  <2> QED
    BY <2>1
<1> QED
  BY <1>1, <1>2 DEF Greatest

LEMMA GreatestInPlaces ==
    ASSUME NEW n \in Nat
    PROVE  \A s \in SUBSET (1..n) : s # {} => Greatest(s) \in s
<1> DEFINE Good == {m \in 0..n : \A s \in SUBSET (1..m) :
                                   s # {} => \E x \in s : \A y \in s : x >= y}
<1>1. 0 \in Good
  <2>1. 0 \in 0..n /\ \A s \in SUBSET (1..0) : s = {}
    OBVIOUS
  <2> QED
    BY <2>1, Zenon
<1>2. ASSUME NEW m \in 1..n, m - 1 \in Good PROVE m \in Good
  <2>1. ASSUME NEW s \in SUBSET (1..m), s # {} PROVE \E x \in s : \A y \in s : x >= y
    <3>1. CASE m \in s
      <4>1. \A y \in s : m >= y
        OBVIOUS
      <4> QED
        BY <3>1, <4>1
    <3>2. CASE m \notin s
      <4>1. s \in SUBSET (1..(m - 1))
        BY <3>2
      <4> QED
        BY <1>2, <2>1, <4>1
    <3> QED
      BY <3>1, <3>2
  <2>2. m \in 0..n
    OBVIOUS
  <2> QED
    BY <2>1, <2>2
<1> HIDE DEF Good
<1>3. \A i \in 0..n : i \in Good
  BY <1>1, <1>2, CountingInduction
<1>4. n \in Good
  BY <1>3
<1> QED
  BY <1>4 DEF Good, Greatest

\* g is the state of the loop after the places of each subset of D.
LoopsOver(g, G, base, D) ==
    g = [s \in SUBSET D |->
           IF s = {} THEN base ELSE G[<<g[s \ {Greatest(s)}], Greatest(s)>>]]

\* The recursion that defines a loop has a solution.
LEMMA LoopExists ==
    ASSUME NEW n \in Nat, NEW Val, NEW base \in Val, NEW G \in [Val \X (1..n) -> Val]
    PROVE  \E g \in [SUBSET (1..n) -> Val] : LoopsOver(g, G, base, 1..n)
<1> DEFINE Good == {m \in 0..n : \E g \in [SUBSET (1..m) -> Val] : LoopsOver(g, G, base, 1..m)}
<1>1. 0 \in Good
  <2> DEFINE g == [s \in SUBSET (1..0) |-> base]
  <2>1. 1..0 = {}
    OBVIOUS
  <2>2. g \in [SUBSET (1..0) -> Val]
    OBVIOUS
  <2>3. g = [s \in SUBSET (1..0) |->
               IF s = {} THEN base ELSE G[<<g[s \ {Greatest(s)}], Greatest(s)>>]]
    BY <2>1
  <2> HIDE DEF g
  <2>4. LoopsOver(g, G, base, 1..0)
    BY <2>3 DEF LoopsOver
  <2>5. \E f \in [SUBSET (1..0) -> Val] : LoopsOver(f, G, base, 1..0)
    BY <2>2, <2>4
  <2>6. 0 \in 0..n
    OBVIOUS
  <2> QED
    BY <2>5, <2>6, Zenon
<1>2. ASSUME NEW m \in 1..n, m - 1 \in Good PROVE m \in Good
  <2>1. PICK h \in [SUBSET (1..(m - 1)) -> Val] : LoopsOver(h, G, base, 1..(m - 1))
    BY <1>2
  <2> DEFINE g == [s \in SUBSET (1..m) |-> IF m \in s THEN G[<<h[s \ {m}], m>>] ELSE h[s]]
  <2>2. \A s \in SUBSET (1..m) : /\ s \ {m} \in SUBSET (1..(m - 1))
                                 /\ m \notin s => s \in SUBSET (1..(m - 1))
    OBVIOUS
  <2>3. g \in [SUBSET (1..m) -> Val]
    <3> SUFFICES ASSUME NEW s \in SUBSET (1..m) PROVE g[s] \in Val
      OBVIOUS
    <3>1. h[s \ {m}] \in Val
      BY <2>2
    <3>2. <<h[s \ {m}], m>> \in Val \X (1..n)
      BY <3>1
    <3> QED
      BY <2>2, <3>2
  <2>4. ASSUME NEW s \in SUBSET (1..m)
        PROVE  g[s] = IF s = {} THEN base ELSE G[<<g[s \ {Greatest(s)}], Greatest(s)>>]
    <3>1. CASE m \in s
      <4>1. Greatest(s) = m
        BY <3>1, GreatestIs
      <4>2. g[s \ {m}] = h[s \ {m}]
        OBVIOUS
      <4> QED
        BY <3>1, <4>1, <4>2
    <3>2. CASE m \notin s /\ s = {}
      <4>1. h[s] = base
        BY <2>1, <3>2 DEF LoopsOver
      <4> QED
        BY <3>2, <4>1
    <3>3. CASE m \notin s /\ s # {}
      <4> DEFINE r == s \ {Greatest(s)}
      <4>1. s \in SUBSET (1..(m - 1)) /\ r \in SUBSET (1..m) /\ m \notin r
        BY <2>2, <3>3
      <4>2. g[s] = h[s] /\ g[r] = h[r]
        BY <3>3, <4>1
      <4>3. h[s] = G[<<h[r], Greatest(s)>>]
        BY <2>1, <3>3, <4>1 DEF LoopsOver
      <4> QED
        BY <3>3, <4>2, <4>3
    <3> QED
      BY <3>1, <3>2, <3>3
  <2> HIDE DEF g
  <2>5. g = [s \in SUBSET (1..m) |->
               IF s = {} THEN base ELSE G[<<g[s \ {Greatest(s)}], Greatest(s)>>]]
    <3> DEFINE k == [s \in SUBSET (1..m) |->
                       IF s = {} THEN base ELSE G[<<g[s \ {Greatest(s)}], Greatest(s)>>]]
    <3>1. DOMAIN g = SUBSET (1..m) /\ g = [s \in SUBSET (1..m) |-> g[s]]
      BY <2>3
    <3>2. \A s \in SUBSET (1..m) : g[s] = k[s]
      BY <2>4
    <3> QED
      BY <3>1, <3>2
  <2>6. LoopsOver(g, G, base, 1..m)
    BY <2>5 DEF LoopsOver
  <2> QED
    BY <2>3, <2>6
<1> HIDE DEF Good
<1>3. n \in Good
  <2>1. \A i \in 0..n : i \in Good
    BY <1>1, <1>2, CountingInduction
  <2> QED
    BY <2>1
<1> QED
  BY <1>3 DEF Good

\* The recursive function of a fold starts with base and steps as G wherever G
\* is defined.
StepsAs(h, G, Val, base, n) ==
    /\ h[{}] = base
    /\ \A s \in SUBSET (1..n) : s # {} /\ h[s \ {Greatest(s)}] \in Val =>
           h[s] = G[<<h[s \ {Greatest(s)}], Greatest(s)>>]

\* The states that the loop of such a function goes through.
LoopStates(t, h, G, base, n) ==
    /\ t[0] = base
    /\ \A i \in 1..n : t[i] = G[<<t[i - 1], i>>]
    /\ h[1..n] = t[n]

LEMMA LoopTrace ==
    ASSUME NEW n \in Nat, NEW Val, NEW base \in Val, NEW G \in [Val \X (1..n) -> Val],
           NEW h, StepsAs(h, G, Val, base, n)
    PROVE  \E t \in [0..n -> Val] : LoopStates(t, h, G, base, n)
<1> DEFINE Good == {i \in 0..n : h[1..i] \in Val}
<1>0. 1..0 = {}
  OBVIOUS
<1>1. ASSUME NEW i \in 1..n, h[1..(i - 1)] \in Val
      PROVE  h[1..i] = G[<<h[1..(i - 1)], i>>] /\ h[1..i] \in Val
  <2>1. Greatest(1..i) = i
    BY GreatestIs
  <2>2. (1..i) \ {i} = 1..(i - 1) /\ 1..i # {} /\ 1..i \in SUBSET (1..n)
    OBVIOUS
  <2>3. h[1..i] = G[<<h[1..(i - 1)], i>>]
    BY <1>1, <2>1, <2>2 DEF StepsAs
  <2>4. <<h[1..(i - 1)], i>> \in Val \X (1..n)
    BY <1>1
  <2> QED
    BY <2>3, <2>4
<1>2. 0 \in Good
  BY <1>0 DEF StepsAs
<1>3. ASSUME NEW i \in 1..n, i - 1 \in Good PROVE i \in Good
  <2>1. h[1..(i - 1)] \in Val
    BY <1>3
  <2>2. h[1..i] \in Val
    BY <1>1, <2>1
  <2> QED
    BY <2>2
<1> DEFINE t == [i \in 0..n |-> h[1..i]]
<1>4. \A i \in 0..n : i \in Good
  <2> HIDE DEF Good
  <2> QED BY <1>2, <1>3, CountingInduction
<1>5. t \in [0..n -> Val] /\ t[0] = base /\ h[1..n] = t[n]
  BY <1>0, <1>4 DEF StepsAs
<1>6. \A i \in 1..n : t[i] = G[<<t[i - 1], i>>]
  BY <1>1, <1>4
<1>7. LoopStates(t, h, G, base, n)
  BY <1>5, <1>6 DEF LoopStates
<1> HIDE DEF t
<1> QED
  BY <1>5, <1>7

\* A function defined by recursion on the numbers up to n exists.
Counts(t, G, base, n) == t[0] = base /\ \A i \in 1..n : t[i] = G[<<t[i - 1], i>>]

LEMMA RecursionExists ==
    ASSUME NEW n \in Nat, NEW Val, NEW base \in Val, NEW G \in [Val \X (1..n) -> Val]
    PROVE  \E t \in [0..n -> Val] : Counts(t, G, base, n)
<1>1. PICK g \in [SUBSET (1..n) -> Val] : LoopsOver(g, G, base, 1..n)
  BY LoopExists
<1>2. \A s \in SUBSET (1..n) : s # {} => g[s] = G[<<g[s \ {Greatest(s)}], Greatest(s)>>]
  BY <1>1 DEF LoopsOver
<1>3. g[{}] = base
  BY <1>1 DEF LoopsOver
<1>4. StepsAs(g, G, Val, base, n)
  BY <1>2, <1>3 DEF StepsAs
<1>5. PICK t \in [0..n -> Val] : LoopStates(t, g, G, base, n)
  BY <1>4, LoopTrace
<1>6. Counts(t, G, base, n)
  BY <1>5 DEF LoopStates, Counts
<1> QED
  BY <1>6
=============================================================================
