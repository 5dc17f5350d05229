------------------------------ MODULE Aggregates ------------------------------
(***************************************************************************)
(* What the models compute of a set of numbers: the smallest and the       *)
(* largest where the code calls min and max, and the sum where it adds up; *)
(* how quotients and remainders are, and what sequences put one behind the *)
(* other hold.  The proofs about the models cite these lemmas.  The        *)
(* induction rules are about a set of good cases, since the library's are  *)
(* about an operator.                                                      *)
(***************************************************************************)
EXTENDS SequencesExt, FiniteSetsExt, FiniteSetTheorems, SequenceTheorems, WellFoundedInduction, TLAPS

\* A set of numbers that is not empty has a smallest one,
LEMMA MinExists ==
    ASSUME NEW S \in SUBSET Nat, S # {}
    PROVE  Min(S) \in S /\ \A y \in S : Min(S) <= y
<1>1. PICK x \in S : \A y \in S : ~(<<y, x>> \in OpToRel(<, Nat))
  BY WFMin, NatLessThanWellFounded
<1>2. \A y \in S : ~(y < x)
  BY <1>1, Zenon DEF OpToRel
<1>3. \A y \in S : x =< y
  BY <1>2
<1> QED
  BY <1>3 DEF Min

\* and a finite set of integers a largest one: the one with the fewest above it.
LEMMA MaxOfIntegers ==
    ASSUME NEW S \in SUBSET Int, S # {}, IsFiniteSet(S)
    PROVE  Max(S) \in S /\ \A y \in S : y <= Max(S)
<1> DEFINE Above(x) == {y \in S : y > x}
           Counts == {Cardinality(Above(x)) : x \in S}
<1>1. \A x \in S : IsFiniteSet(Above(x)) /\ Cardinality(Above(x)) \in Nat
  BY FS_Subset, FS_CardinalityType
<1>2. Counts \subseteq Nat /\ Counts # {}
  BY <1>1
<1>3. PICK x \in S : \A y \in S : Cardinality(Above(x)) <= Cardinality(Above(y))
  <2>1. Min(Counts) \in Counts /\ \A n \in Counts : Min(Counts) <= n
    BY <1>2, MinExists
  <2> QED
    BY <2>1
<1>4. ASSUME NEW y \in S, y > x PROVE FALSE
  <2>1. x \in Int /\ y \in Int /\ \A z \in S : z \in Int
    OBVIOUS
  <2>2. ~(y > y) /\ \A z \in S : z > y => z > x
    BY <1>4, <2>1
  <2>3. Above(y) \subseteq Above(x) /\ y \in Above(x) /\ y \notin Above(y)
    BY <1>4, <2>1, <2>2
  <2>4. Cardinality(Above(y)) = Cardinality(Above(x))
    BY <1>1, <1>3, <2>3, FS_Subset, SMTT(30)
  <2>5. Above(y) = Above(x)
    BY <1>1, <2>3, <2>4, FS_Subset
  <2> QED
    BY <2>3, <2>5
<1>5. \A y \in S : x >= y
  BY <1>4
<1> QED
  BY <1>5 DEF Max

LEMMA MaxExists ==
    ASSUME NEW S \in SUBSET Nat, S # {}, IsFiniteSet(S)
    PROVE  Max(S) \in S /\ \A y \in S : y <= Max(S)
<1>1. S \in SUBSET Int
  OBVIOUS
<1> QED
  BY <1>1, MaxOfIntegers

\* A function with a finite domain has finitely many values.
LEMMA FiniteRange ==
    ASSUME NEW S, IsFiniteSet(S), NEW T, NEW f \in [S -> T]
    PROVE  IsFiniteSet(Range(f)) /\ (S # {} => Range(f) # {})
<1>1. DOMAIN f = S /\ Range(f) = {f[x] : x \in S}
  BY DEF Range
<1>2. f \in Surjection(S, Range(f))
  BY <1>1 DEF Surjection
<1> QED
  BY <1>1, <1>2, FS_Surjection

\* The larger and the smaller of two numbers.
LEMMA MaxOfTwo ==
    ASSUME NEW x \in Nat, NEW y \in Nat
    PROVE  Max({x, y}) \in {x, y} /\ Max({x, y}) >= x /\ Max({x, y}) >= y
<1>1. \E m \in {x, y} : \A k \in {x, y} : m >= k
  <2>1. CASE x >= y
    BY <2>1
  <2>2. CASE y >= x
    BY <2>2
  <2> QED BY <2>1, <2>2
<1>2. Max({x, y}) \in {x, y} /\ \A k \in {x, y} : Max({x, y}) >= k
  BY <1>1 DEF Max
<1> QED
  BY <1>2

LEMMA MinOfTwo ==
    ASSUME NEW x \in Nat, NEW y \in Nat
    PROVE  Min({x, y}) \in {x, y} /\ Min({x, y}) <= x /\ Min({x, y}) <= y
<1>1. \E m \in {x, y} : \A k \in {x, y} : m =< k
  <2>1. CASE x =< y
    BY <2>1
  <2>2. CASE y =< x
    BY <2>2
  <2> QED BY <2>1, <2>2
<1>2. Min({x, y}) \in {x, y} /\ \A k \in {x, y} : Min({x, y}) =< k
  BY <1>1 DEF Min
<1> QED
  BY <1>2

-----------------------------------------------------------------------------
(* Induction *)

\* A set of naturals that has 0 and with every number the next has them all.
LEMMA Counting ==
    ASSUME NEW G \in SUBSET Nat, 0 \in G, \A n \in G : n + 1 \in G
    PROVE  G = Nat
<1>1. SUFFICES ASSUME Nat \ G # {} PROVE FALSE
  OBVIOUS
<1> DEFINE m == Min(Nat \ G)
<1>2. m \in Nat \ G /\ \A y \in Nat \ G : m <= y
  BY <1>1, MinExists
<1> HIDE DEF m
<1>3. m # 0 /\ m - 1 \in Nat
  BY <1>2
<1>4. m - 1 \in G
  BY <1>2, <1>3
<1> QED
  BY <1>2, <1>3, <1>4

\* A set of subsets of a finite set that has every subset which is one element
\* larger than sets it has, and the empty one, has them all.
LEMMA SubsetInduction ==
    ASSUME NEW T, IsFiniteSet(T), NEW G \in SUBSET SUBSET T, {} \in G,
           \A U \in SUBSET T : U # {} /\ (\A x \in U : U \ {x} \in G) => U \in G
    PROVE  G = SUBSET T
<1> DEFINE Good == {n \in Nat : \A U \in SUBSET T : Cardinality(U) = n => U \in G}
<1>1. \A U \in SUBSET T : IsFiniteSet(U) /\ Cardinality(U) \in Nat
  BY FS_Subset, FS_CardinalityType
<1>2. 0 \in Good
  BY <1>1, FS_EmptySet
<1>3. ASSUME NEW n \in Good PROVE n + 1 \in Good
  <2>1. SUFFICES ASSUME NEW U \in SUBSET T, Cardinality(U) = n + 1 PROVE U \in G
    OBVIOUS
  <2>2. U # {}
    BY <2>1, FS_EmptySet
  <2>3. ASSUME NEW x \in U PROVE U \ {x} \in G
    <3>1. Cardinality(U \ {x}) = n
      BY <1>1, <2>1, FS_RemoveElement
    <3> QED
      BY <3>1
  <2> QED
    BY <2>2, <2>3
<1> HIDE DEF Good
<1>4. Good = Nat
  BY <1>2, <1>3, Counting DEF Good
<1> QED
  BY <1>1, <1>4 DEF Good

-----------------------------------------------------------------------------
(* Division *)

\* Integer division, for every divisor.
LEMMA DivisionUnique ==
    ASSUME NEW q \in Nat, NEW d \in Nat \ {0}, NEW r \in 0 .. d - 1
    PROVE  (q * d + r) \div d = q /\ (q * d + r) % d = r
OBVIOUS

LEMMA Division ==
    ASSUME NEW n \in Nat, NEW d \in Nat \ {0}
    PROVE  n \div d \in Nat /\ n % d \in 0 .. d - 1 /\ n = ((n \div d) * d) + (n % d)
OBVIOUS

\* Products grow with their factors.
LEMMA Scaled ==
    ASSUME NEW x \in Nat, NEW y \in Nat, NEW q \in Nat, x <= y
    PROVE  x * q <= y * q /\ x * q \in Nat
OBVIOUS

\* The digits of a number, without the highest, are those of its remainder.
LEMMA RemainderOfMore ==
    ASSUME NEW n \in Nat, NEW q \in Nat \ {0}, NEW b \in Nat \ {0}
    PROVE  n % (b * q) = ((n \div q) % b) * q + (n % q)
<1> DEFINE a == n \div q
           r == n % q
           c == a \div b
           d == a % b
<1>1. a \in Nat /\ r \in 0 .. q - 1 /\ n = a * q + r
  BY Division
<1>0. a = n \div q /\ r = n % q
  OBVIOUS
<1> HIDE DEF a, r
<1>2. c \in Nat /\ d \in 0 .. b - 1 /\ a = c * b + d
  BY <1>1, Division
<1> HIDE DEF c, d
<1>3. n = c * (b * q) + (d * q + r)
  BY <1>1, <1>2
<1>4. d * q + r \in 0 .. b * q - 1 /\ b * q \in Nat \ {0}
  <2>1. d * q <= (b - 1) * q
    BY <1>2
  <2>2. (b - 1) * q = b * q - q /\ d * q \in Nat /\ b * q \in Nat
    BY <1>2
  <2> QED
    BY <1>1, <2>1, <2>2
<1>5. n % (b * q) = d * q + r
  <2> DEFINE m == b * q
             s == d * q + r
  <2>1. m \in Nat \ {0} /\ s \in 0 .. m - 1 /\ n = c * m + s
    BY <1>3, <1>4
  <2> HIDE DEF m, s
  <2>2. n % m = s
    BY <1>2, <2>1, DivisionUnique
  <2> QED
    BY <2>2 DEF m, s
<1>6. n % (b * q) = (a % b) * q + r
  BY <1>5 DEF d
<1> QED
  BY <1>0, <1>6

-----------------------------------------------------------------------------
(* Recursive functions *)

\* A function is defined by its first value and what each makes of the one before:
\* up to every number,
Follows(f, m, base, step) ==
    f[0] = base /\ \A k \in 0 .. m - 1 : f[k + 1] = step[k][f[k]]

LEMMA RecursionTo ==
    ASSUME NEW X, NEW base \in X, NEW step \in [Nat -> [X -> X]], NEW m \in Nat
    PROVE  \E f \in [0 .. m -> X] : Follows(f, m, base, step)
<1> DEFINE Good == {n \in Nat : \E f \in [0 .. n -> X] : Follows(f, n, base, step)}
<1>1. 0 \in Good
  <2> DEFINE f == [k \in 0 .. 0 |-> base]
  <2>1. f \in [0 .. 0 -> X] /\ f[0] = base
    OBVIOUS
  <2>2. \A k \in 0 .. 0 - 1 : FALSE
    OBVIOUS
  <2>3. Follows(f, 0, base, step)
    BY <2>1, <2>2 DEF Follows
  <2> HIDE DEF f
  <2> QED
    BY <2>1, <2>3
<1>2. ASSUME NEW n \in Good PROVE n + 1 \in Good
  <2>1. PICK f \in [0 .. n -> X] : Follows(f, n, base, step)
    OBVIOUS
  <2> DEFINE g == [k \in 0 .. n + 1 |-> IF k = n + 1 THEN step[n][f[n]] ELSE f[k]]
  <2>2. n \in Nat /\ f[n] \in X /\ step[n][f[n]] \in X
    OBVIOUS
  <2>3. g \in [0 .. n + 1 -> X]
    BY <2>2
  <2>4. g[n + 1] = step[n][f[n]] /\ \A k \in 0 .. n : g[k] = f[k]
    BY <2>2
  <2> HIDE DEF g
  <2>5. g[0] = base
    BY <2>1, <2>2, <2>4 DEF Follows
  <2>6. ASSUME NEW k \in 0 .. (n + 1) - 1 PROVE g[k + 1] = step[k][g[k]]
    <3>1. CASE k = n
      BY <2>2, <2>4, <3>1
    <3>2. CASE k # n
      <4>1. k \in 0 .. n - 1 /\ k \in 0 .. n /\ k + 1 \in 0 .. n
        BY <2>2, <3>2
      <4> QED
        BY <2>1, <2>4, <4>1 DEF Follows
    <3> QED BY <3>1, <3>2
  <2>7. Follows(g, n + 1, base, step)
    BY <2>5, <2>6 DEF Follows
  <2> QED
    BY <2>2, <2>3, <2>7
<1> HIDE DEF Good
<1>3. Good = Nat
  <2>1. Good \in SUBSET Nat
    BY DEF Good
  <2> QED
    BY <1>1, <1>2, <2>1, Counting
<1> QED
  BY <1>3 DEF Good

\* where it has only one value,
LEMMA RecursionAgrees ==
    ASSUME NEW base, NEW step, NEW m \in Nat, NEW n \in Nat, NEW f, NEW g,
           Follows(f, m, base, step), Follows(g, n, base, step),
           NEW k \in Nat, k <= m, k <= n
    PROVE  f[k] = g[k]
<1> DEFINE Good == {i \in Nat : i <= m /\ i <= n => f[i] = g[i]}
<1>1. 0 \in Good
  BY DEF Follows
<1>2. ASSUME NEW i \in Good PROVE i + 1 \in Good
  <2>1. SUFFICES ASSUME i + 1 <= m, i + 1 <= n PROVE f[i + 1] = g[i + 1]
    OBVIOUS
  <2>2. i \in Nat /\ i \in 0 .. m - 1 /\ i \in 0 .. n - 1 /\ f[i] = g[i]
    BY <2>1
  <2> QED
    BY <2>2 DEF Follows
<1> HIDE DEF Good
<1>3. Good = Nat
  <2>1. Good \in SUBSET Nat
    BY DEF Good
  <2> QED
    BY <1>1, <1>2, <2>1, Counting
<1> QED
  BY <1>3 DEF Good

\* and so for all numbers.
Recurs(f, base, step) == f[0] = base /\ \A k \in Nat : f[k + 1] = step[k][f[k]]

LEMMA RecursionExists ==
    ASSUME NEW X, NEW base \in X, NEW step \in [Nat -> [X -> X]]
    PROVE  \E f \in [Nat -> X] : Recurs(f, base, step)
<1> DEFINE part(n) == CHOOSE f : f \in [0 .. n -> X] /\ Follows(f, n, base, step)
           f == [n \in Nat |-> part(n)[n]]
<1>1. \A n \in Nat : part(n) \in [0 .. n -> X] /\ Follows(part(n), n, base, step)
  BY RecursionTo
<1> HIDE DEF part
<1>2. f \in [Nat -> X]
  BY <1>1
<1>3. f[0] = base
  BY <1>1 DEF Follows
<1>4. ASSUME NEW k \in Nat PROVE f[k + 1] = step[k][f[k]]
  <2>1. k + 1 \in Nat /\ k \in 0 .. (k + 1) - 1 /\ k <= k /\ k <= k + 1
    OBVIOUS
  <2>2. part(k + 1)[k + 1] = step[k][part(k + 1)[k]]
    BY <1>1, <2>1 DEF Follows
  <2>3. part(k + 1)[k] = part(k)[k]
    BY <1>1, <2>1, RecursionAgrees
  <2> QED
    BY <2>1, <2>2, <2>3
<1>5. Recurs(f, base, step)
  BY <1>3, <1>4 DEF Recurs
<1> HIDE DEF f
<1> QED
  BY <1>2, <1>5

-----------------------------------------------------------------------------
(* Sums *)

\* The recursive function behind SumFunctionOnSet(f, T), and its equation.
Picked(S) == CHOOSE x \in S : TRUE

Sums(f, T, g) ==
    g = [S \in SUBSET T |-> IF S = {} THEN 0 ELSE f[Picked(S)] + g[S \ {Picked(S)}]]

SumsOf(f, T) == CHOOSE g : Sums(f, T, g)

LEMMA SumUnfolds ==
    ASSUME NEW f, NEW T
    PROVE  SumFunctionOnSet(f, T) = SumsOf(f, T)[T]
BY DEF SumFunctionOnSet, FoldFunctionOnSet, MapThenFoldSet, SumsOf, Sums, Picked

\* It exists: on the subsets of at most n elements, for every n.
LEMMA SumsExist ==
    ASSUME NEW f, NEW T, IsFiniteSet(T)
    PROVE  Sums(f, T, SumsOf(f, T))
<1> DEFINE Small(n) == {S \in SUBSET T : Cardinality(S) <= n}
           Step(g, S) == IF S = {} THEN 0 ELSE f[Picked(S)] + g[S \ {Picked(S)}]
           Good == {n \in Nat : \E g : g = [S \in Small(n) |-> Step(g, S)]}
<1>1. \A S \in SUBSET T : IsFiniteSet(S) /\ Cardinality(S) \in Nat
  BY FS_Subset, FS_CardinalityType
<1>2. \A S \in SUBSET T : Cardinality(S) = 0 <=> S = {}
  BY <1>1, FS_EmptySet
<1>3. 0 \in Good
  <2> DEFINE g == [S \in Small(0) |-> 0]
  <2>1. \A S \in Small(0) : S = {}
    BY <1>1, <1>2
  <2>2. g = [S \in Small(0) |-> Step(g, S)]
    BY <2>1
  <2> QED
    BY <2>2
<1>4. ASSUME NEW n \in Good PROVE n + 1 \in Good
  <2>1. PICK g : g = [S \in Small(n) |-> Step(g, S)]
    OBVIOUS
  <2> DEFINE h == [S \in Small(n + 1) |-> Step(g, S)]
  <2>2. ASSUME NEW S \in Small(n + 1), S # {}
        PROVE  S \ {Picked(S)} \in Small(n) /\ S \ {Picked(S)} \in Small(n + 1)
    <3>1. Picked(S) \in S
      BY <2>2 DEF Picked
    <3>2. Cardinality(S \ {Picked(S)}) = Cardinality(S) - 1
      BY <1>1, <3>1, FS_RemoveElement
    <3> QED
      BY <1>1, <3>2
  <2>3. \A S \in Small(n) : S \in Small(n + 1)
    BY <1>1
  <2>4. \A S \in Small(n) : g[S] = Step(g, S)
    <3> HIDE DEF Small, Step
    <3> QED BY <2>1
  <2>5. \A S \in Small(n) : h[S] = g[S]
    BY <2>3, <2>4
  <2>6. \A S \in Small(n + 1) : Step(h, S) = Step(g, S)
    BY <2>2, <2>5
  <2>7. h = [S \in Small(n + 1) |-> Step(h, S)]
    BY <2>6
  <2>8. n + 1 \in Nat
    OBVIOUS
  <2> HIDE DEF h, Small, Step
  <2> QED
    BY <2>7, <2>8
<1> HIDE DEF Good
<1>5. Good = Nat
  BY <1>3, <1>4, Counting DEF Good
<1>6. PICK g : g = [S \in Small(Cardinality(T)) |-> Step(g, S)]
  BY <1>1, <1>5 DEF Good
<1>7. Small(Cardinality(T)) = SUBSET T
  BY FS_Subset, FS_CardinalityType
<1>8. Sums(f, T, g)
  BY <1>6, <1>7 DEF Sums
<1> QED
  BY <1>8 DEF SumsOf

\* Its value at a subset is the sum over that subset.
LEMMA SumOfSubset ==
    ASSUME NEW f, NEW T, IsFiniteSet(T), NEW U \in SUBSET T
    PROVE  SumsOf(f, T)[U] = SumFunctionOnSet(f, U)
<1> DEFINE g == SumsOf(f, T)
           h == SumsOf(f, U)
           Good == {S \in SUBSET U : g[S] = h[S]}
<1>1. IsFiniteSet(U) /\ SUBSET U \subseteq SUBSET T
  BY FS_Subset
<1>2. Sums(f, T, g) /\ Sums(f, U, h)
  BY <1>1, SumsExist
<1> HIDE DEF g, h
<1>3. \A S \in SUBSET U :
        /\ g[S] = IF S = {} THEN 0 ELSE f[Picked(S)] + g[S \ {Picked(S)}]
        /\ h[S] = IF S = {} THEN 0 ELSE f[Picked(S)] + h[S \ {Picked(S)}]
  BY <1>1, <1>2 DEF Sums
<1>4. {} \in Good
  BY <1>3
<1>5. ASSUME NEW S \in SUBSET U, S # {}, \A x \in S : S \ {x} \in Good PROVE S \in Good
  <2>1. Picked(S) \in S
    BY <1>5 DEF Picked
  <2>2. g[S \ {Picked(S)}] = h[S \ {Picked(S)}]
    BY <1>5, <2>1
  <2> QED
    BY <1>3, <1>5, <2>2
<1> HIDE DEF Good
<1>6. Good = SUBSET U
  <2>1. Good \in SUBSET SUBSET U
    BY DEF Good
  <2> QED
    BY <1>1, <1>4, <1>5, <2>1, SubsetInduction
<1>7. U \in Good
  BY <1>6
<1> QED
  BY <1>7, SumUnfolds DEF Good, g, h

LEMMA SumEmpty ==
    ASSUME NEW f
    PROVE  SumFunctionOnSet(f, {}) = 0
<1>1. IsFiniteSet({})
  BY FS_EmptySet
<1>2. Sums(f, {}, SumsOf(f, {}))
  BY <1>1, SumsExist
<1> QED
  BY <1>2, SumUnfolds DEF Sums

LEMMA SumPicked ==
    ASSUME NEW f, NEW T, IsFiniteSet(T), T # {}
    PROVE  /\ Picked(T) \in T
           /\ SumFunctionOnSet(f, T) = f[Picked(T)] + SumFunctionOnSet(f, T \ {Picked(T)})
<1>1. Picked(T) \in T
  BY DEF Picked
<1>2. Sums(f, T, SumsOf(f, T))
  BY SumsExist
<1>3. SumsOf(f, T)[T] = f[Picked(T)] + SumsOf(f, T)[T \ {Picked(T)}]
  BY <1>2 DEF Sums
<1>4. SumsOf(f, T)[T \ {Picked(T)}] = SumFunctionOnSet(f, T \ {Picked(T)})
  BY <1>1, SumOfSubset
<1> QED
  BY <1>1, <1>3, <1>4, SumUnfolds

\* A sum of integers is one.
LEMMA SumIsInt ==
    ASSUME NEW f, NEW T, IsFiniteSet(T), \A x \in T : f[x] \in Int
    PROVE  SumFunctionOnSet(f, T) \in Int
<1> DEFINE Good == {U \in SUBSET T : SumFunctionOnSet(f, U) \in Int}
<1>1. {} \in Good
  BY SumEmpty
<1>2. ASSUME NEW U \in SUBSET T, U # {}, \A x \in U : U \ {x} \in Good PROVE U \in Good
  <2> DEFINE p == Picked(U)
  <2>1. IsFiniteSet(U)
    BY FS_Subset
  <2>2. p \in U /\ SumFunctionOnSet(f, U) = f[p] + SumFunctionOnSet(f, U \ {p})
    BY <1>2, <2>1, SumPicked
  <2>3. U \ {p} \in Good
    BY <1>2, <2>2
  <2> HIDE DEF p
  <2> QED
    BY <2>2, <2>3
<1> HIDE DEF Good
<1>3. Good = SUBSET T
  <2>1. Good \in SUBSET SUBSET T
    BY DEF Good
  <2> QED
    BY <1>1, <1>2, <2>1, SubsetInduction
<1> QED
  BY <1>3 DEF Good

\* Any element may be added last.
LEMMA SumTakeOut ==
    ASSUME NEW f, NEW T, IsFiniteSet(T), \A x \in T : f[x] \in Int, NEW z \in T
    PROVE  SumFunctionOnSet(f, T) = f[z] + SumFunctionOnSet(f, T \ {z})
<1> DEFINE Sum(U) == SumFunctionOnSet(f, U)
           Good == {U \in SUBSET T : \A x \in U : Sum(U) = f[x] + Sum(U \ {x})}
<1>1. \A U \in SUBSET T : IsFiniteSet(U) /\ Sum(U) \in Int
  BY FS_Subset, SumIsInt
<1>2. \A U \in SUBSET T : U # {} => Picked(U) \in U /\ Sum(U) = f[Picked(U)] + Sum(U \ {Picked(U)})
  BY <1>1, SumPicked
<1> HIDE DEF Sum
<1>3. {} \in Good
  OBVIOUS
<1>4. ASSUME NEW U \in SUBSET T, U # {}, \A x \in U : U \ {x} \in Good PROVE U \in Good
  <2>1. SUFFICES ASSUME NEW x \in U, x # Picked(U) PROVE Sum(U) = f[x] + Sum(U \ {x})
    BY <1>2, <1>4
  <2> DEFINE p == Picked(U)
             rest == (U \ {p}) \ {x}
  <2>2. p \in U /\ Sum(U) = f[p] + Sum(U \ {p})
    BY <1>2, <1>4
  <2> HIDE DEF p
  <2>3. p # x
    BY <2>1 DEF p
  <2>4. Sum(U \ {p}) = f[x] + Sum(rest)
    BY <1>4, <2>2, <2>3
  <2>5. Sum(U \ {x}) = f[p] + Sum((U \ {x}) \ {p})
    BY <1>4, <2>2, <2>3
  <2>6. (U \ {x}) \ {p} = rest
    OBVIOUS
  <2>7. Sum(rest) \in Int /\ f[x] \in Int /\ f[p] \in Int
    BY <1>1, <2>2
  <2> HIDE DEF rest
  <2>8. Sum(U \ {x}) = f[p] + Sum(rest)
    BY <2>5, <2>6
  <2>9. Sum(U) = f[p] + (f[x] + Sum(rest))
    BY <2>2, <2>4
  <2>10. f[p] + (f[x] + Sum(rest)) = f[x] + (f[p] + Sum(rest))
    BY <2>7
  <2> QED
    BY <2>8, <2>9, <2>10
<1> HIDE DEF Good
<1>5. Good = SUBSET T
  <2>1. Good \in SUBSET SUBSET T
    BY DEF Good
  <2> QED
    BY <1>3, <1>4, <2>1, SubsetInduction
<1> QED
  BY <1>5 DEF Good, Sum

\* A sum of naturals is one, and zero only if they all are.
LEMMA SumIsNat ==
    ASSUME NEW f, NEW T, IsFiniteSet(T), \A x \in T : f[x] \in Nat
    PROVE  /\ SumFunctionOnSet(f, T) \in Nat
           /\ \A x \in T : f[x] <= SumFunctionOnSet(f, T)
<1> DEFINE Good == {U \in SUBSET T : SumFunctionOnSet(f, U) \in Nat}
<1>1. {} \in Good
  BY SumEmpty
<1>2. ASSUME NEW U \in SUBSET T, U # {}, \A x \in U : U \ {x} \in Good PROVE U \in Good
  <2> DEFINE p == Picked(U)
  <2>1. IsFiniteSet(U)
    BY FS_Subset
  <2>2. p \in U /\ SumFunctionOnSet(f, U) = f[p] + SumFunctionOnSet(f, U \ {p})
    BY <1>2, <2>1, SumPicked
  <2>3. U \ {p} \in Good
    BY <1>2, <2>2
  <2> HIDE DEF p
  <2> QED
    BY <2>2, <2>3
<1> HIDE DEF Good
<1>3. Good = SUBSET T
  <2>1. Good \in SUBSET SUBSET T
    BY DEF Good
  <2> QED
    BY <1>1, <1>2, <2>1, SubsetInduction
<1>4. \A U \in SUBSET T : SumFunctionOnSet(f, U) \in Nat
  BY <1>3 DEF Good
<1>5. ASSUME NEW x \in T PROVE f[x] <= SumFunctionOnSet(f, T)
  <2>1. SumFunctionOnSet(f, T) = f[x] + SumFunctionOnSet(f, T \ {x})
    BY SumTakeOut
  <2>2. SumFunctionOnSet(f, T \ {x}) \in Nat /\ f[x] \in Nat
    BY <1>4
  <2> QED
    BY <2>1, <2>2
<1> QED
  BY <1>4, <1>5

\* Functions that agree on a set have the same sum over it.
LEMMA SumSame ==
    ASSUME NEW f, NEW g, NEW T, IsFiniteSet(T), \A x \in T : f[x] = g[x]
    PROVE  SumFunctionOnSet(f, T) = SumFunctionOnSet(g, T)
<1> DEFINE Good == {U \in SUBSET T : SumFunctionOnSet(f, U) = SumFunctionOnSet(g, U)}
<1>1. {} \in Good
  BY SumEmpty
<1>2. ASSUME NEW U \in SUBSET T, U # {}, \A x \in U : U \ {x} \in Good PROVE U \in Good
  <2> DEFINE p == Picked(U)
  <2>1. IsFiniteSet(U)
    BY FS_Subset
  <2>2. p \in U /\ SumFunctionOnSet(f, U) = f[p] + SumFunctionOnSet(f, U \ {p})
    BY <1>2, <2>1, SumPicked
  <2>4. SumFunctionOnSet(g, U) = g[p] + SumFunctionOnSet(g, U \ {p})
    BY <1>2, <2>1, SumPicked
  <2>3. U \ {p} \in Good
    BY <1>2, <2>2
  <2> HIDE DEF p
  <2> QED
    BY <2>2, <2>3, <2>4
<1> HIDE DEF Good
<1>3. Good = SUBSET T
  <2>1. Good \in SUBSET SUBSET T
    BY DEF Good
  <2> QED
    BY <1>1, <1>2, <2>1, SubsetInduction
<1> QED
  BY <1>3 DEF Good

\* If one term is changed the sum changes by as much.
LEMMA SumOfChanged ==
    ASSUME NEW f, NEW g, NEW T, IsFiniteSet(T), NEW z \in T, f[z] \in Int, g[z] \in Int,
           \A x \in T : f[x] \in Int, \A x \in T \ {z} : g[x] = f[x]
    PROVE  SumFunctionOnSet(g, T) = SumFunctionOnSet(f, T) + g[z] - f[z]
<1> DEFINE rest == T \ {z}
<1>1. IsFiniteSet(rest) /\ \A x \in T : g[x] \in Int
  BY FS_Subset
<1>2. SumFunctionOnSet(f, T) = f[z] + SumFunctionOnSet(f, rest)
  BY SumTakeOut
<1>3. SumFunctionOnSet(g, T) = g[z] + SumFunctionOnSet(g, rest)
  BY <1>1, SumTakeOut
<1>4. SumFunctionOnSet(g, rest) = SumFunctionOnSet(f, rest)
  BY <1>1, SumSame
<1>5. SumFunctionOnSet(f, rest) \in Int
  BY <1>1, SumIsInt
<1> QED
  BY <1>2, <1>3, <1>4, <1>5

\* An element more adds its term.
LEMMA SumWithOneMore ==
    ASSUME NEW f, NEW T, IsFiniteSet(T), \A x \in T : f[x] \in Int, NEW z, z \notin T, f[z] \in Int
    PROVE  SumFunctionOnSet(f, T \cup {z}) = f[z] + SumFunctionOnSet(f, T)
<1>1. IsFiniteSet(T \cup {z})
  BY FS_AddElement
<1>2. (T \cup {z}) \ {z} = T
  OBVIOUS
<1> QED
  BY <1>1, <1>2, SumTakeOut

\* A part of a sum of naturals is not larger,
LEMMA SumOfPart ==
    ASSUME NEW f, NEW T, IsFiniteSet(T), \A x \in T : f[x] \in Nat, NEW U \in SUBSET T
    PROVE  SumFunctionOnSet(f, U) <= SumFunctionOnSet(f, T)
<1> DEFINE Sum(V) == SumFunctionOnSet(f, V)
           Good == {V \in SUBSET T : \A W \in SUBSET V : Sum(W) <= Sum(V)}
<1>1. \A V \in SUBSET T : IsFiniteSet(V) /\ Sum(V) \in Nat
  BY FS_Subset, SumIsNat
<1>2. \A V \in SUBSET T : \A x \in V : Sum(V) = f[x] + Sum(V \ {x})
  <2> TAKE V \in SUBSET T
  <2> TAKE x \in V
  <2> QED
    BY <1>1, SumTakeOut
<1> HIDE DEF Sum
<1>3. {} \in Good
  BY <1>1
<1>4. ASSUME NEW V \in SUBSET T, V # {}, \A x \in V : V \ {x} \in Good PROVE V \in Good
  <2>1. SUFFICES ASSUME NEW W \in SUBSET V, W # V PROVE Sum(W) <= Sum(V)
    BY <1>1
  <2>2. PICK x \in V : W \in SUBSET (V \ {x})
    BY <2>1
  <2>3. Sum(W) <= Sum(V \ {x})
    BY <1>4, <2>2
  <2>4. Sum(V) = f[x] + Sum(V \ {x})
    BY <1>2
  <2>5. Sum(W) \in Nat /\ Sum(V \ {x}) \in Nat /\ f[x] \in Nat
    BY <1>1, <2>2
  <2> QED
    BY <2>3, <2>4, <2>5
<1> HIDE DEF Good
<1>5. Good = SUBSET T
  <2>1. Good \in SUBSET SUBSET T
    BY DEF Good
  <2> QED
    BY <1>3, <1>4, <2>1, SubsetInduction
<1> QED
  BY <1>5 DEF Good, Sum

\* and a sum of zeros is zero.
LEMMA SumOfZeros ==
    ASSUME NEW f, NEW T, IsFiniteSet(T), \A x \in T : f[x] = 0
    PROVE  SumFunctionOnSet(f, T) = 0
<1> DEFINE Good == {U \in SUBSET T : SumFunctionOnSet(f, U) = 0}
<1>1. {} \in Good
  BY SumEmpty
<1>2. ASSUME NEW U \in SUBSET T, U # {}, \A x \in U : U \ {x} \in Good PROVE U \in Good
  <2> DEFINE p == Picked(U)
  <2>1. IsFiniteSet(U)
    BY FS_Subset
  <2>2. p \in U /\ SumFunctionOnSet(f, U) = f[p] + SumFunctionOnSet(f, U \ {p})
    BY <1>2, <2>1, SumPicked
  <2>3. U \ {p} \in Good
    BY <1>2, <2>2
  <2> HIDE DEF p
  <2> QED
    BY <2>2, <2>3
<1> HIDE DEF Good
<1>3. Good = SUBSET T
  <2>1. Good \in SUBSET SUBSET T
    BY DEF Good
  <2> QED
    BY <1>1, <1>2, <2>1, SubsetInduction
<1> QED
  BY <1>3 DEF Good

-----------------------------------------------------------------------------
(* Sums over sequences *)

\* The sum of a sequence of numbers is a number,
LEMMA SeqSumIsNat ==
    ASSUME NEW s \in Seq(Nat)
    PROVE  SumFunction(s) \in Nat
<1>1. DOMAIN s = 1 .. Len(s) /\ Len(s) \in Nat /\ \A i \in 1 .. Len(s) : s[i] \in Nat
  BY LenProperties
<1>2. IsFiniteSet(1 .. Len(s))
  BY <1>1, FS_Interval
<1>3. SumFunction(s) = SumFunctionOnSet(s, 1 .. Len(s))
  BY <1>1 DEF SumFunction
<1> QED
  BY <1>1, <1>2, <1>3, SumIsNat

\* zero if it is empty,
LEMMA SeqSumEmpty ==
    ASSUME NEW s, DOMAIN s = {}
    PROVE  SumFunction(s) = 0
BY SumEmpty DEF SumFunction

\* and grows by what is appended.
LEMMA SeqSumAppend ==
    ASSUME NEW s \in Seq(Nat), NEW e \in Nat
    PROVE  SumFunction(Append(s, e)) = SumFunction(s) + e
<1> DEFINE n == Len(s)
           t == Append(s, e)
<1>1. DOMAIN s = 1 .. n /\ n \in Nat /\ \A i \in 1 .. n : s[i] \in Nat
  BY LenProperties
<1>2. DOMAIN t = (1 .. n) \cup {n + 1} /\ t[n + 1] = e /\ \A i \in 1 .. n : t[i] = s[i]
  BY <1>1
<1>3. IsFiniteSet(1 .. n) /\ n + 1 \notin 1 .. n
  BY <1>1, FS_Interval
<1> HIDE DEF n, t
<1>9. t[n + 1] \in Int /\ \A i \in 1 .. n : t[i] \in Int
  BY <1>1, <1>2
<1>4. SumFunctionOnSet(t, (1 .. n) \cup {n + 1}) = t[n + 1] + SumFunctionOnSet(t, 1 .. n)
  BY <1>3, <1>9, SumWithOneMore
<1>5. SumFunctionOnSet(t, 1 .. n) = SumFunctionOnSet(s, 1 .. n)
  BY <1>2, <1>3, SumSame
<1>6. SumFunction(s) = SumFunctionOnSet(s, 1 .. n) /\ SumFunction(s) \in Nat
  BY <1>1, SeqSumIsNat DEF SumFunction
<1>7. SumFunction(t) = e + SumFunction(s)
  BY <1>2, <1>4, <1>5, <1>6 DEF SumFunction
<1> QED
  BY <1>6, <1>7 DEF t

\* Its first element may be taken out.
LEMMA SeqSumTail ==
    ASSUME NEW s \in Seq(Nat), s # <<>>
    PROVE  SumFunction(s) = s[1] + SumFunction(Tail(s))
<1> DEFINE Good == {n \in Nat : \A t \in Seq(Nat) :
                        Len(t) = n + 1 => SumFunction(t) = t[1] + SumFunction(Tail(t))}
<1>1. 0 \in Good
  <2> SUFFICES ASSUME NEW t \in Seq(Nat), Len(t) = 1
               PROVE  SumFunction(t) = t[1] + SumFunction(Tail(t))
    OBVIOUS
  <2>2. <<>> \in Seq(Nat) /\ DOMAIN <<>> = {} /\ t[1] \in Nat
    <3>1. <<>> \in Seq(Nat) /\ DOMAIN <<>> = {} /\ 1 \in 1 .. Len(t)
      OBVIOUS
    <3>2. t[1] \in Nat
      BY <3>1, ElementOfSeq
    <3> QED
      BY <3>1, <3>2
  <2>5. t = Append(<<>>, t[1])
    <3> DEFINE u == Append(<<>>, t[1])
    <3>1. u \in Seq(Nat) /\ Len(u) = 1 /\ u[1] = t[1]
      BY <2>2
    <3> HIDE DEF u
    <3>2. \A i \in 1 .. Len(t) : t[i] = u[i]
      BY <3>1
    <3>3. t = u
      BY <3>1, <3>2, SeqEqual
    <3> QED
      BY <3>3 DEF u
  <2>6. Tail(t) = <<>>
    <3>3. Len(<<>>) = 0 /\ 1 # 0
      OBVIOUS
    <3>2. t # <<>>
      BY <3>3, Zenon
    <3>1. Tail(t) \in Seq(Nat) /\ Len(Tail(t)) = 0
      BY <3>2, HeadTailProperties
    <3> QED
      BY <3>1, EmptySeq
  <2>1. t = Append(<<>>, t[1]) /\ t[1] \in Nat /\ Tail(t) = <<>>
    BY <2>2, <2>5, <2>6
  <2>3. SumFunction(Append(<<>>, t[1])) = SumFunction(<<>>) + t[1]
    BY <2>1, <2>2, SeqSumAppend
  <2>4. SumFunction(<<>>) = 0
    BY <2>2, SeqSumEmpty
  <2>7. SumFunction(Tail(t)) = 0
    BY <2>4, <2>6
  <2>8. SumFunction(t) = SumFunction(<<>>) + t[1]
    BY <2>3, <2>5
  <2> QED
    BY <2>2, <2>4, <2>7, <2>8
<1>2. ASSUME NEW n \in Good PROVE n + 1 \in Good
  <2> SUFFICES ASSUME NEW t \in Seq(Nat), Len(t) = n + 2
               PROVE  SumFunction(t) = t[1] + SumFunction(Tail(t))
    OBVIOUS
  <2> DEFINE front == SubSeq(t, 1, n + 1)
             last == t[n + 2]
  <2>1. n \in Nat /\ front \in Seq(Nat) /\ Len(front) = n + 1 /\ last \in Nat
    OBVIOUS
  <2>8. \A i \in 1 .. n + 1 : front[i] = t[i]
    BY <2>1
  <2>9. front[1] = t[1] /\ t[1] \in Nat /\ front # <<>> /\ t # <<>>
    BY <2>1, <2>8
  <2>2. t = Append(front, last)
    <3> DEFINE u == Append(front, last)
    <3> HIDE DEF front, last
    <3>1. u \in Seq(Nat) /\ Len(u) = n + 2
      BY <2>1
    <3>2. ASSUME NEW i \in 1 .. n + 2 PROVE t[i] = u[i]
      BY <2>1, <2>8, <3>2 DEF last
    <3> HIDE DEF u
    <3>3. t = u
      BY <3>1, <3>2, SeqEqual
    <3> QED
      BY <3>3 DEF u
  <2>3. Tail(front) \in Seq(Nat) /\ Tail(t) = Append(Tail(front), last)
    <3> DEFINE u == Append(Tail(front), last)
               v == Tail(t)
    <3>1. v \in Seq(Nat) /\ Len(v) = n + 1 /\ \A i \in 1 .. n + 1 : v[i] = t[i + 1]
      BY <2>1, <2>9
    <3> HIDE DEF front
    <3>4. /\ Tail(front) \in Seq(Nat) /\ Len(Tail(front)) = n
          /\ \A i \in 1 .. n : Tail(front)[i] = front[i + 1]
      BY <2>1, <2>9
    <3>2. u \in Seq(Nat) /\ Len(u) = n + 1
      BY <2>1, <3>4
    <3>5. ASSUME NEW i \in 1 .. n + 1 PROVE v[i] = u[i]
      <4>1. CASE i = n + 1
        <5>1. u[i] = last /\ v[i] = t[n + 2]
          BY <2>1, <3>1, <3>4, <4>1
        <5> QED BY <5>1
      <4>2. CASE i # n + 1
        <5>1. i \in 1 .. n /\ i + 1 \in 1 .. n + 1
          BY <2>1, <4>2
        <5>2. u[i] = Tail(front)[i]
          BY <2>1, <3>4, <5>1
        <5> QED BY <2>8, <3>1, <3>4, <5>1, <5>2
      <4> QED BY <4>1, <4>2
    <3> HIDE DEF u, v
    <3>3. v = u
      BY <3>1, <3>2, <3>5, SeqEqual
    <3> QED
      BY <3>3, <3>4 DEF u, v
  <2> HIDE DEF front, last
  <2>4. SumFunction(t) = SumFunction(front) + last
    BY <2>1, <2>2, SeqSumAppend
  <2>5. SumFunction(Tail(t)) = SumFunction(Tail(front)) + last
    BY <2>1, <2>3, SeqSumAppend
  <2>6. SumFunction(front) = front[1] + SumFunction(Tail(front))
    BY <2>1
  <2>7. SumFunction(Tail(front)) \in Nat
    BY <2>3, SeqSumIsNat
  <2> QED
    BY <2>1, <2>4, <2>5, <2>6, <2>7, <2>9
<1> HIDE DEF Good
<1>3. Good = Nat
  <2>1. Good \in SUBSET Nat
    BY DEF Good
  <2> QED
    BY <1>1, <1>2, <2>1, Counting
<1>4. Len(s) - 1 \in Nat /\ Len(s) = (Len(s) - 1) + 1
  BY EmptySeq
<1>5. Len(s) - 1 \in Good
  BY <1>3, <1>4
<1> QED
  BY <1>4, <1>5 DEF Good

\* A sequence of any kind is summed up by a table of what its elements count for.
Over(s, table) == [i \in DOMAIN s |-> table[s[i]]]

LEMMA OverTyped ==
    ASSUME NEW X, NEW s \in Seq(X), NEW table \in [X -> Nat]
    PROVE  /\ Over(s, table) \in Seq(Nat) /\ Len(Over(s, table)) = Len(s)
           /\ \A i \in 1 .. Len(s) : Over(s, table)[i] = table[s[i]]
           /\ SumFunction(Over(s, table)) \in Nat
<1>1. DOMAIN s = 1 .. Len(s) /\ Len(s) \in Nat
  BY LenProperties
<1>2. \A i \in 1 .. Len(s) : s[i] \in X
  BY ElementOfSeq
<1>3. /\ Over(s, table) \in Seq(Nat) /\ Len(Over(s, table)) = Len(s)
      /\ \A i \in 1 .. Len(s) : Over(s, table)[i] = table[s[i]]
  BY <1>1, <1>2 DEF Over
<1> QED
  BY <1>3, SeqSumIsNat

LEMMA OverEmpty ==
    ASSUME NEW table
    PROVE  SumFunction(Over(<<>>, table)) = 0
<1>1. DOMAIN Over(<<>>, table) = {}
  BY DEF Over
<1> QED
  BY <1>1, SeqSumEmpty

LEMMA OverAppend ==
    ASSUME NEW X, NEW s \in Seq(X), NEW e \in X, NEW table \in [X -> Nat]
    PROVE  SumFunction(Over(Append(s, e), table)) = SumFunction(Over(s, table)) + table[e]
<1> DEFINE u == Over(Append(s, e), table)
           v == Append(Over(s, table), table[e])
<1>1. Append(s, e) \in Seq(X) /\ Len(Append(s, e)) = Len(s) + 1 /\ Len(s) \in Nat
  BY AppendProperties, LenProperties
<1>2. /\ u \in Seq(Nat) /\ Len(u) = Len(s) + 1
      /\ \A i \in 1 .. Len(s) + 1 : u[i] = table[Append(s, e)[i]]
  <2> DEFINE longer == Append(s, e)
  <2> HIDE DEF longer
  <2>1. longer \in Seq(X) /\ Len(longer) = Len(s) + 1
    BY <1>1 DEF longer
  <2>2. /\ Over(longer, table) \in Seq(Nat) /\ Len(Over(longer, table)) = Len(longer)
        /\ \A i \in 1 .. Len(longer) : Over(longer, table)[i] = table[longer[i]]
    BY <2>1, OverTyped
  <2> QED
    BY <2>1, <2>2 DEF longer
<1>3. /\ Over(s, table) \in Seq(Nat) /\ Len(Over(s, table)) = Len(s)
      /\ \A i \in 1 .. Len(s) : Over(s, table)[i] = table[s[i]]
  BY OverTyped
<1>4. v \in Seq(Nat) /\ Len(v) = Len(s) + 1
  <2>1. table[e] \in Nat
    OBVIOUS
  <2> QED
    BY <1>3, <2>1, AppendProperties
<1>5. ASSUME NEW i \in 1 .. Len(s) + 1 PROVE u[i] = v[i]
  <2>1. CASE i = Len(s) + 1
    <3>1. Append(s, e)[i] = e
      BY <1>1, <2>1
    <3>2. v[i] = table[e]
      BY <1>3, <2>1, AppendProperties
    <3> QED
      BY <1>2, <3>1, <3>2
  <2>2. CASE i # Len(s) + 1
    <3>1. i \in 1 .. Len(s)
      BY <1>1, <2>2
    <3>2. Append(s, e)[i] = s[i]
      BY <3>1
    <3>3. v[i] = Over(s, table)[i]
      BY <1>3, <3>1, AppendProperties
    <3> QED
      BY <1>2, <1>3, <3>1, <3>2, <3>3
  <2> QED BY <2>1, <2>2
<1> HIDE DEF u, v
<1>6. u = v
  BY <1>2, <1>4, <1>5, SeqEqual
<1>7. SumFunction(v) = SumFunction(Over(s, table)) + table[e]
  BY <1>3, SeqSumAppend DEF v
<1> QED
  BY <1>6, <1>7 DEF u

LEMMA OverTail ==
    ASSUME NEW X, NEW s \in Seq(X), s # <<>>, NEW table \in [X -> Nat]
    PROVE  SumFunction(Over(s, table)) = table[s[1]] + SumFunction(Over(Tail(s), table))
<1> DEFINE u == Over(s, table)
           v == Over(Tail(s), table)
<1>1. /\ Tail(s) \in Seq(X) /\ Len(Tail(s)) = Len(s) - 1 /\ Len(s) \in Nat \ {0}
      /\ \A i \in 1 .. Len(s) - 1 : Tail(s)[i] = s[i + 1]
  OBVIOUS
<1>2. u \in Seq(Nat) /\ Len(u) = Len(s) /\ \A i \in 1 .. Len(s) : u[i] = table[s[i]]
  BY OverTyped
<1>3. v \in Seq(Nat) /\ Len(v) = Len(s) - 1 /\ \A i \in 1 .. Len(s) - 1 : v[i] = table[Tail(s)[i]]
  <2> DEFINE shorter == Tail(s)
  <2> HIDE DEF shorter
  <2>1. shorter \in Seq(X) /\ Len(shorter) = Len(s) - 1
    BY <1>1 DEF shorter
  <2>2. /\ Over(shorter, table) \in Seq(Nat) /\ Len(Over(shorter, table)) = Len(shorter)
        /\ \A i \in 1 .. Len(shorter) : Over(shorter, table)[i] = table[shorter[i]]
    BY <2>1, OverTyped
  <2> QED
    BY <2>1, <2>2 DEF shorter
<1> HIDE DEF u, v
<1>4. u # <<>>
  BY <1>1, <1>2, EmptySeq
<1>5. /\ Tail(u) \in Seq(Nat) /\ Len(Tail(u)) = Len(s) - 1
      /\ \A i \in 1 .. Len(s) - 1 : Tail(u)[i] = u[i + 1]
  BY <1>2, <1>4
<1>6. ASSUME NEW i \in 1 .. Len(s) - 1 PROVE Tail(u)[i] = v[i]
  <2>1. i + 1 \in 1 .. Len(s)
    BY <1>1
  <2> QED
    BY <1>1, <1>2, <1>3, <1>5, <2>1
<1>7. Tail(u) = v
  BY <1>3, <1>5, <1>6, SeqEqual
<1>8. u[1] = table[s[1]]
  BY <1>1, <1>2
<1>9. SumFunction(u) = u[1] + SumFunction(Tail(u))
  BY <1>2, <1>4, SeqSumTail
<1> QED
  BY <1>7, <1>8, <1>9 DEF u, v

\* The sums over one, two and three elements.
LEMMA OverOne ==
    ASSUME NEW X, NEW a \in X, NEW table \in [X -> Nat]
    PROVE  SumFunction(Over(<<a>>, table)) = table[a]
<1>1. <<>> \in Seq(X) /\ Append(<<>>, a) = <<a>> /\ table[a] \in Nat
  OBVIOUS
<1>2. SumFunction(Over(Append(<<>>, a), table)) = SumFunction(Over(<<>>, table)) + table[a]
  BY <1>1, OverAppend
<1> QED
  BY <1>1, <1>2, OverEmpty

LEMMA OverTwo ==
    ASSUME NEW X, NEW a \in X, NEW b \in X, NEW table \in [X -> Nat]
    PROVE  SumFunction(Over(<<a, b>>, table)) = table[a] + table[b]
<1>1. <<a, b>> = Append(<<a>>, b) /\ <<a>> \in Seq(X)
  OBVIOUS
<1>2. SumFunction(Over(Append(<<a>>, b), table)) = SumFunction(Over(<<a>>, table)) + table[b]
  BY <1>1, OverAppend
<1> QED
  BY <1>1, <1>2, OverOne

LEMMA OverThree ==
    ASSUME NEW X, NEW a \in X, NEW b \in X, NEW c \in X, NEW table \in [X -> Nat]
    PROVE  SumFunction(Over(<<a, b, c>>, table)) = table[a] + table[b] + table[c]
<1>1. <<a, b, c>> = Append(<<a, b>>, c) /\ <<a, b>> \in Seq(X)
  OBVIOUS
<1>2. SumFunction(Over(Append(<<a, b>>, c), table)) = SumFunction(Over(<<a, b>>, table)) + table[c]
  BY <1>1, OverAppend
<1> QED
  BY <1>1, <1>2, OverTwo

-----------------------------------------------------------------------------
(* Sequences put one behind the other *)

\* Sequences are put one behind the other step by step, by the recursive definition of
\* FlattenSeq: f[i] is what the first i of them make.
Joins(f, s) ==
    /\ f[1] = s[1]
    /\ \A i \in 1 .. Len(s) - 1 : f[i + 1] = f[i] \o s[i + 1]
    /\ FlattenSeq(s) = f[Len(s)]

LEMMA Joined ==
    ASSUME NEW X, NEW s \in Seq(Seq(X)), s # <<>>
    PROVE  \E f \in [1 .. Len(s) -> Seq(X)] : Joins(f, s)
<1> DEFINE n == Len(s)
           Defines(f) == f = [i \in 1 .. n |-> IF i = 1 THEN s[i] ELSE f[i - 1] \o s[i]]
           flatten == CHOOSE f : Defines(f)
           part(k) == IF k + 2 \in 1 .. n THEN s[k + 2] ELSE <<>>
           step == [k \in Nat |-> [x \in Seq(X) |-> x \o part(k)]]
<1>1. n \in Nat /\ n # 0 /\ \A i \in 1 .. n : s[i] \in Seq(X)
  BY ElementOfSeq, LenProperties, EmptySeq
<1>2. FlattenSeq(s) = flatten[n]
  BY <1>1 DEF FlattenSeq
<1>3. n - 1 \in Nat /\ 1 \in 1 .. n
  BY <1>1
<1>4. step \in [Nat -> [Seq(X) -> Seq(X)]]
  <2>1. \A k \in Nat : part(k) \in Seq(X)
    BY <1>1
  <2> HIDE DEF part
  <2>2. \A k \in Nat : \A x \in Seq(X) : x \o part(k) \in Seq(X)
    BY <2>1, ConcatProperties
  <2> QED
    BY <2>2
<1>5. s[1] \in Seq(X)
  BY <1>1, <1>3
<1> HIDE DEF step
<1>6. PICK g \in [0 .. n - 1 -> Seq(X)] : Follows(g, n - 1, s[1], step)
  BY <1>3, <1>4, <1>5, RecursionTo
<1> DEFINE f == [i \in 1 .. n |-> g[i - 1]]
<1>7. f \in [1 .. n -> Seq(X)]
  <2>1. \A i \in 1 .. n : i - 1 \in 0 .. n - 1
    BY <1>1
  <2> QED
    BY <2>1
<1>8. f[1] = s[1]
  BY <1>3, <1>6 DEF Follows
<1>9. ASSUME NEW i \in 1 .. n - 1 PROVE f[i + 1] = f[i] \o s[i + 1]
  <2>1. /\ i - 1 \in Nat /\ i - 1 \in 0 .. (n - 1) - 1 /\ i - 1 \in 0 .. n - 1
        /\ i \in 1 .. n /\ i + 1 \in 1 .. n /\ (i - 1) + 1 = i /\ (i - 1) + 2 = i + 1 /\ (i + 1) - 1 = i
    BY <1>1
  <2>2. g[i] = step[i - 1][g[i - 1]]
    BY <1>6, <2>1 DEF Follows
  <2>3. g[i - 1] \in Seq(X)
    BY <2>1
  <2>4. part(i - 1) = s[i + 1]
    BY <2>1
  <2>5. step[i - 1][g[i - 1]] = g[i - 1] \o s[i + 1]
    BY <2>1, <2>3, <2>4 DEF step
  <2>6. f[i + 1] = g[i] /\ f[i] = g[i - 1]
    BY <2>1
  <2> QED
    BY <2>2, <2>5, <2>6
<1>10. Defines(f)
  <2>1. ASSUME NEW i \in 1 .. n PROVE f[i] = IF i = 1 THEN s[i] ELSE f[i - 1] \o s[i]
    <3>1. CASE i = 1
      BY <1>8, <3>1
    <3>2. CASE i # 1
      <4>1. i - 1 \in 1 .. n - 1 /\ (i - 1) + 1 = i
        BY <1>1, <3>2
      <4> HIDE DEF f
      <4>2. f[i] = f[i - 1] \o s[i]
        BY <1>9, <4>1
      <4> QED
        BY <3>2, <4>2
    <3> QED BY <3>1, <3>2
  <2>2. DOMAIN f = 1 .. n /\ f = [i \in 1 .. n |-> f[i]]
    OBVIOUS
  <2> HIDE DEF f
  <2> QED
    BY <2>1, <2>2
<1> HIDE DEF f
<1>11. Defines(flatten)
  <2> HIDE DEF Defines
  <2> QED BY <1>10
<1>12. \A i \in 1 .. n : flatten[i] = IF i = 1 THEN s[i] ELSE flatten[i - 1] \o s[i]
  <2> HIDE DEF flatten
  <2> QED BY <1>11
<1> HIDE DEF flatten, Defines
<1> DEFINE Good == {k \in Nat : k + 1 \in 1 .. n => flatten[k + 1] = f[k + 1]}
<1>13. 0 \in Good
  <2>1. flatten[1] = s[1]
    BY <1>3, <1>12
  <2> QED
    BY <1>8, <2>1
<1>14. ASSUME NEW k \in Good PROVE k + 1 \in Good
  <2>1. SUFFICES ASSUME (k + 1) + 1 \in 1 .. n PROVE flatten[(k + 1) + 1] = f[(k + 1) + 1]
    OBVIOUS
  <2>2. /\ k \in Nat /\ k + 1 \in 1 .. n /\ k + 1 \in 1 .. n - 1
        /\ ((k + 1) + 1) - 1 = k + 1 /\ (k + 1) + 1 # 1
    BY <1>1, <2>1
  <2>3. flatten[k + 1] = f[k + 1]
    BY <2>2
  <2>4. flatten[(k + 1) + 1] = flatten[k + 1] \o s[(k + 1) + 1]
    BY <1>12, <2>1, <2>2
  <2>5. f[(k + 1) + 1] = f[k + 1] \o s[(k + 1) + 1]
    BY <1>9, <2>2
  <2> QED
    BY <2>3, <2>4, <2>5
<1>15. Good = Nat
  <2>1. Good \in SUBSET Nat
    OBVIOUS
  <2> HIDE DEF Good
  <2> QED
    BY <1>13, <1>14, <2>1, Counting
<1>16. flatten[n] = f[n]
  <2>1. (n - 1) + 1 = n /\ n \in 1 .. n
    BY <1>1
  <2> QED
    BY <1>3, <1>15, <2>1
<1>17. Joins(f, s)
  BY <1>2, <1>8, <1>9, <1>16 DEF Joins, flatten
<1> QED
  BY <1>7, <1>17

\* What they make is a sequence.
LEMMA FlattenTyped ==
    ASSUME NEW X, NEW s \in Seq(Seq(X))
    PROVE  FlattenSeq(s) \in Seq(X)
<1>1. CASE s = <<>>
  <2>1. Len(s) = 0
    BY <1>1
  <2>2. FlattenSeq(s) = s
    BY <2>1 DEF FlattenSeq
  <2>3. <<>> \in Seq(X)
    OBVIOUS
  <2> QED
    BY <1>1, <2>2, <2>3
<1>2. CASE s # <<>>
  <2>1. PICK f \in [1 .. Len(s) -> Seq(X)] : Joins(f, s)
    BY <1>2, Joined
  <2>2. Len(s) \in 1 .. Len(s)
    BY <1>2, LenProperties, EmptySeq
  <2> QED
    BY <2>1, <2>2 DEF Joins
<1> QED BY <1>1, <1>2

\* Each of them is found in it behind those before it: at[i] is how long these are.
LEMMA PartsOfJoined ==
    ASSUME NEW X, NEW s \in Seq(Seq(X)), s # <<>>, NEW at \in [1 .. Len(s) -> Nat], at[1] = 0,
           \A i \in 1 .. Len(s) - 1 : at[i + 1] = at[i] + Len(s[i])
    PROVE  /\ Len(FlattenSeq(s)) = at[Len(s)] + Len(s[Len(s)])
           /\ \A i \in 1 .. Len(s) : \A j \in 1 .. Len(s[i]) :
                 at[i] + j \in 1 .. Len(FlattenSeq(s)) /\ FlattenSeq(s)[at[i] + j] = s[i][j]
<1>1. PICK f \in [1 .. Len(s) -> Seq(X)] : Joins(f, s)
  BY Joined
<1> DEFINE n == Len(s)
<1>2. n \in Nat \ {0} /\ \A i \in 1 .. n : s[i] \in Seq(X) /\ Len(s[i]) \in Nat
  BY ElementOfSeq, LenProperties, EmptySeq
<1>3. f[1] = s[1] /\ FlattenSeq(s) = f[n] /\ \A i \in 1 .. n - 1 : f[i + 1] = f[i] \o s[i + 1]
  BY <1>1 DEF Joins
<1> HIDE DEF n
<1>4. at \in [1 .. n -> Nat] /\ \A i \in 1 .. n - 1 : at[i + 1] = at[i] + Len(s[i])
  BY DEF n
<1>5. f \in [1 .. n -> Seq(X)]
  BY <1>1 DEF n
<1> DEFINE Holds(k) ==
               /\ Len(f[k]) = at[k] + Len(s[k])
               /\ \A i \in 1 .. k : \A j \in 1 .. Len(s[i]) :
                     at[i] + j \in 1 .. Len(f[k]) /\ f[k][at[i] + j] = s[i][j]
           Good == {k \in Nat : k + 1 \in 1 .. n => Holds(k + 1)}
<1>6. 0 \in Good
  <2>1. Holds(1)
    <3>1. 1 \in 1 .. n /\ Len(s[1]) \in Nat
      BY <1>2
    <3>2. \A i \in 1 .. 1 : i = 1
      OBVIOUS
    <3> QED
      BY <1>3, <3>1, <3>2
  <2> QED
    BY <2>1
<1>7. ASSUME NEW k \in Good PROVE k + 1 \in Good
  <2>1. SUFFICES ASSUME (k + 1) + 1 \in 1 .. n PROVE Holds((k + 1) + 1)
    OBVIOUS
  <2> DEFINE m == k + 1
  <2>2. m \in Nat \ {0} /\ m \in 1 .. n - 1 /\ m \in 1 .. n /\ m + 1 \in 1 .. n
    BY <1>2, <2>1
  <2>3. Holds(m)
    BY <2>2
  <2> HIDE DEF m, Good
  <2> DEFINE head == f[m]
             tail == s[m + 1]
             all == f[m + 1]
  <2>4. head \in Seq(X) /\ tail \in Seq(X) /\ Len(head) \in Nat /\ Len(tail) \in Nat
    BY <1>2, <1>5, <2>2, LenProperties
  <2>5. all = head \o tail
    BY <1>3, <2>2
  <2>6. at[m + 1] = Len(head)
    BY <1>4, <2>2, <2>3
  <2> HIDE DEF head, tail, all
  <2>7. /\ Len(all) = Len(head) + Len(tail)
        /\ \A j \in 1 .. Len(head) : all[j] = head[j]
        /\ \A j \in 1 .. Len(tail) : all[Len(head) + j] = tail[j]
    <3>1. /\ Len(head \o tail) = Len(head) + Len(tail)
          /\ \A j \in 1 .. Len(head) + Len(tail) :
                (head \o tail)[j] = IF j <= Len(head) THEN head[j] ELSE tail[j - Len(head)]
      BY <2>4, ConcatProperties
    <3>2. ASSUME NEW j \in 1 .. Len(tail) PROVE (head \o tail)[Len(head) + j] = tail[j]
      <4>1. /\ Len(head) + j \in 1 .. Len(head) + Len(tail) /\ ~(Len(head) + j <= Len(head))
            /\ (Len(head) + j) - Len(head) = j
        BY <2>4
      <4> QED
        BY <3>1, <4>1
    <3>3. ASSUME NEW j \in 1 .. Len(head) PROVE (head \o tail)[j] = head[j]
      <4>1. j \in 1 .. Len(head) + Len(tail) /\ j <= Len(head)
        BY <2>4
      <4> QED
        BY <3>1, <4>1
    <3> QED
      BY <2>5, <3>1, <3>2, <3>3
  <2>8. ASSUME NEW i \in 1 .. m + 1, NEW j \in 1 .. Len(s[i])
        PROVE  at[i] + j \in 1 .. Len(all) /\ all[at[i] + j] = s[i][j]
    <3>1. CASE i = m + 1
      <4>1. j \in 1 .. Len(tail) /\ at[i] = Len(head) /\ s[i] = tail
        BY <2>6, <3>1 DEF tail
      <4>2. Len(head) + j \in 1 .. Len(head) + Len(tail)
        BY <2>4, <4>1
      <4> QED
        BY <2>7, <4>1, <4>2
    <3>2. CASE i # m + 1
      <4>1. i \in 1 .. m
        BY <2>2, <3>2
      <4>2. at[i] + j \in 1 .. Len(head) /\ head[at[i] + j] = s[i][j]
        BY <2>3, <4>1 DEF head
      <4>3. at[i] + j \in 1 .. Len(head) + Len(tail)
        BY <2>4, <4>2
      <4> QED
        BY <2>7, <4>2, <4>3
    <3> QED BY <3>1, <3>2
  <2>9. Holds(m + 1)
    BY <2>6, <2>7, <2>8 DEF all, tail
  <2> QED
    BY <2>9 DEF m
<1> HIDE DEF Good
<1>8. Good = Nat
  <2>1. Good \in SUBSET Nat
    BY DEF Good
  <2> QED
    BY <1>6, <1>7, <2>1, Counting
<1>9. Holds(n)
  <2>1. n - 1 \in Nat /\ (n - 1) + 1 = n /\ n \in 1 .. n
    BY <1>2
  <2>2. n - 1 \in Good
    BY <1>8, <2>1
  <2> HIDE DEF Holds
  <2> QED
    BY <2>1, <2>2 DEF Good
<1> QED
  BY <1>3, <1>9 DEF n
=============================================================================
