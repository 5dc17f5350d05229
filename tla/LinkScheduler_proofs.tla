------------------------- MODULE LinkScheduler_proofs -------------------------
(***************************************************************************)
(* Theorems about LinkScheduler, for every number of links, all weights,   *)
(* every cursor and every wrap-around.  That no chunk goes to a link       *)
(* without weight does not use what total_weight is: the selection is safe *)
(* even from a total that does not fit the weights.  That the turns are    *)
(* shared fairly does: a link has a stretch of the cycle as long as its    *)
(* weight, and the cursor goes through the cycle without leaving any out.  *)
(***************************************************************************)
EXTENDS LinkSchedulerMC, Aggregates

\* The indices of the links vector (link_scheduler.rs:152-180) are naturals.
LEMMA LinksAreNaturals == Links \subseteq Nat /\ 0 \in Links
<1>1. Cardinality(Links) \in Nat
  BY LinksAssumption, FS_CardinalityType
<1> QED
  BY <1>1, LinksAssumption

\* The first link of a set of links exists and belongs to the set.
LEMMA FirstBelongs ==
    ASSUME NEW S \in SUBSET Links, S # {}
    PROVE  Min(S) \in S
<1>1. S \in SUBSET Nat
  BY LinksAreNaturals
<1> QED
  BY <1>1, MinExists

\* weighted_select returns a link, and one with a weight if there is any.
LEMMA SelectIsSafe ==
    ASSUME NEW w, NEW pos
    PROVE  /\ Select(w, pos) \in Links
           /\ w[Select(w, pos)] > 0 \/ \A l \in Links : ~(w[l] > 0)
<1> DEFINE usable == {l \in Links : w[l] > 0}
           hits == {l \in usable : pos < Cumulative(w, l)}
<1>1. Select(w, pos) = IF hits # {} THEN Min(hits)
                       ELSE IF usable # {} THEN Min(usable) ELSE 0
  BY DEF Select
<1>2. hits # {} => Min(hits) \in usable
  BY FirstBelongs
<1>3. usable # {} => Min(usable) \in usable
  BY FirstBelongs
<1>4. hits \subseteq usable
  OBVIOUS
<1>5. CASE usable # {}
  <2>1. Select(w, pos) \in usable
    BY <1>1, <1>2, <1>3, <1>5
  <2> QED
    BY <2>1
<1>6. CASE usable = {}
  <2>1. Select(w, pos) = 0
    BY <1>1, <1>4, <1>6
  <2> QED
    BY <1>6, <2>1, LinksAreNaturals
<1> QED
  BY <1>5, <1>6

-----------------------------------------------------------------------------

\* What the scheduler keeps of its type without summing the weights.
SchedIInv == weight \in Weights /\ chosen \in Links \cup {NoLink}

\* The configured weights are weights like any other.
LEMMA ConfiguredWeightsAreWeights == ConfiguredWeight \in Weights
BY LinksAssumption DEF Weights

\* The scheduler keeps a natural weight for every link, whichever weights the
\* statistics task sets (link_scheduler.rs:222-238, :488-496).
LEMMA SchedInvariance == SchedSpec => []SchedIInv
<1>1. SchedInit => SchedIInv
  BY ConfiguredWeightsAreWeights DEF SchedInit, SchedIInv
<1>2. SchedIInv /\ [SchedNext]_schedVars => SchedIInv'
  <2> SUFFICES ASSUME SchedIInv, [SchedNext]_schedVars PROVE SchedIInv'
    OBVIOUS
  <2>1. CASE Schedule
    BY <2>1, SelectIsSafe DEF Schedule, SchedIInv
  <2>2. CASE AdjustWeights
    BY <2>2, ConfiguredWeightsAreWeights
       DEF AdjustWeights, SetRateControlledWeights, SchedIInv
  <2>3. ASSUME NEW w \in Weights, SetRateControlledWeights(w) PROVE SchedIInv'
    BY <2>3 DEF SetRateControlledWeights, SchedIInv
  <2>4. CASE UNCHANGED schedVars
    BY <2>4 DEF schedVars, SchedIInv
  <2> QED
    BY <2>1, <2>2, <2>3, <2>4 DEF SchedNext
<1> QED
  BY <1>1, <1>2, PTL DEF SchedSpec

\* No chunk goes to a link without weight while another link has one.
THEOREM WeightlessLinksRest == SchedSpec => WeightlessNotChosen
<1> DEFINE Step == Schedule => weight[chosen'] > 0 \/ \A l \in Links : weight[l] = 0
<1>1. SchedIInv /\ [SchedNext]_schedVars => [Step]_schedVars
  <2> SUFFICES ASSUME SchedIInv, Schedule
               PROVE  weight[chosen'] > 0 \/ \A l \in Links : weight[l] = 0
    OBVIOUS
  <2>1. chosen' = Select(weight, cursor' % total_weight)
    BY DEF Schedule
  <2>2. weight[chosen'] > 0 \/ \A l \in Links : ~(weight[l] > 0)
    BY <2>1, SelectIsSafe
  <2>3. \A l \in Links : weight[l] \in Nat
    BY DEF SchedIInv, Weights
  <2> QED
    BY <2>2, <2>3
<1> QED
  BY <1>1, SchedInvariance, PTL DEF SchedSpec, WeightlessNotChosen

-----------------------------------------------------------------------------
(* Stretches of the cycle *)

\* Of the positions 0 .. r - 1 in a cycle, those in the stretch of length w that
\* begins at lo; and of the first n positions when cycles of length d follow
\* one another.
Part(lo, w, r) == IF r <= lo THEN 0 ELSE IF r >= lo + w THEN w ELSE r - lo

Share(lo, w, d, n) == (n \div d) * w + Part(lo, w, n % d)

LEMMA PartBounds ==
    ASSUME NEW lo \in Nat, NEW w \in Nat, NEW r \in Nat
    PROVE  Part(lo, w, r) \in 0 .. w
BY DEF Part

LEMMA ShareIsNat ==
    ASSUME NEW lo \in Nat, NEW w \in Nat, NEW d \in Nat \ {0}, NEW n \in Nat
    PROVE  Share(lo, w, d, n) \in Nat
<1>1. n \div d \in Nat /\ n % d \in Nat
  BY Division
<1>2. (n \div d) * w \in Nat
  BY <1>1
<1>3. Part(lo, w, n % d) \in Nat
  BY <1>1, PartBounds
<1> QED
  BY <1>2, <1>3 DEF Share

\* The next position gives a turn more if it falls into the stretch.
LEMMA OneTurn ==
    ASSUME NEW lo \in Nat, NEW w \in Nat, NEW d \in Nat \ {0}, lo + w <= d, NEW n \in Nat
    PROVE  Share(lo, w, d, n + 1)
             = Share(lo, w, d, n) + (IF lo <= n % d /\ n % d < lo + w THEN 1 ELSE 0)
<1> DEFINE q == n \div d
           r == n % d
<1>1. q \in Nat /\ r \in 0 .. d - 1 /\ n = (q * d) + r
  BY Division
<1> HIDE DEF q, r
<1>2. CASE r + 1 < d
  <2>1. n + 1 = (q * d) + (r + 1)
    BY <1>1
  <2>2. (n + 1) \div d = q /\ (n + 1) % d = r + 1
    BY <1>1, <1>2, <2>1, DivisionUnique
  <2>3. Part(lo, w, r + 1) = Part(lo, w, r) + (IF lo <= r /\ r < lo + w THEN 1 ELSE 0)
    BY <1>1 DEF Part
  <2>4. q * w \in Nat /\ Part(lo, w, r) \in Nat
    BY <1>1, PartBounds
  <2> QED
    BY <2>2, <2>3, <2>4 DEF Share, q, r
<1>3. CASE r + 1 = d
  <2>1. n + 1 = ((q + 1) * d) + 0
    BY <1>1, <1>3
  <2>2. (n + 1) \div d = q + 1 /\ (n + 1) % d = 0
    BY <1>1, <2>1, DivisionUnique
  <2>3. w + Part(lo, w, 0) = Part(lo, w, r) + (IF lo <= r /\ r < lo + w THEN 1 ELSE 0)
    BY <1>1, <1>3 DEF Part
  <2>4. Part(lo, w, r) \in Nat /\ Part(lo, w, 0) \in Nat
    BY <1>1 DEF Part
  <2>5. q * w \in Nat /\ (q + 1) * w = q * w + w
    BY <1>1
  <2> QED
    BY <2>2, <2>3, <2>4, <2>5 DEF Share, q, r
<1> QED
  BY <1>1, <1>2, <1>3

\* Of any m positions in a row a stretch of length w gets w in every full cycle,
\* and at most w more if there is a cycle left over.
LEMMA ManyTurns ==
    ASSUME NEW lo \in Nat, NEW w \in Nat, NEW d \in Nat \ {0}, lo + w <= d,
           NEW n \in Nat, NEW m \in Nat
    PROVE  LET given == Share(lo, w, d, n + m) - Share(lo, w, d, n)
               partial == IF m % d = 0 THEN 0 ELSE 1
           IN  (m \div d) * w <= given /\ given <= ((m \div d) + partial) * w
<1> DEFINE q == n \div d
           r == n % d
           k == m \div d
           t == m % d
<1>1. q \in Nat /\ r \in 0 .. d - 1 /\ n = (q * d) + r
  BY Division
<1>2. k \in Nat /\ t \in 0 .. d - 1 /\ m = (k * d) + t
  BY Division
<1> HIDE DEF q, r, k, t
<1>3. Share(lo, w, d, n) = q * w + Part(lo, w, r)
  BY DEF Share, q, r
<1>4. /\ (q + k) * w = q * w + k * w /\ (q + k + 1) * w = q * w + k * w + w
      /\ (k + 0) * w = k * w /\ (k + 1) * w = k * w + w
      /\ q * w \in Nat /\ k * w \in Nat
  BY <1>1, <1>2
<1>5. Part(lo, w, r) \in 0 .. w
  BY <1>1, PartBounds
<1>6. CASE r + t < d
  <2>1. n + m = ((q + k) * d) + (r + t)
    BY <1>1, <1>2
  <2>2. (n + m) \div d = q + k /\ (n + m) % d = r + t
    BY <1>1, <1>2, <1>6, <2>1, DivisionUnique
  <2>3. Share(lo, w, d, n + m) = q * w + k * w + Part(lo, w, r + t)
    BY <2>2, <1>4 DEF Share
  <2>4. Part(lo, w, r + t) \in 0 .. w /\ Part(lo, w, r + t) >= Part(lo, w, r)
    BY <1>1, <1>2 DEF Part
  <2>5. t = 0 => Part(lo, w, r + t) = Part(lo, w, r)
    BY <1>1
  <2> QED
    BY <1>3, <1>4, <1>5, <2>3, <2>4, <2>5 DEF k, t
<1>7. CASE r + t >= d
  <2>1. n + m = ((q + k + 1) * d) + (r + t - d)
    BY <1>1, <1>2
  <2>2. (n + m) \div d = q + k + 1 /\ (n + m) % d = r + t - d
    <3>1. q + k + 1 \in Nat /\ r + t - d \in 0 .. d - 1
      BY <1>1, <1>2, <1>7
    <3> QED
      BY <2>1, <3>1, DivisionUnique
  <2>3. Share(lo, w, d, n + m) = q * w + k * w + w + Part(lo, w, r + t - d)
    BY <2>2, <1>4 DEF Share
  <2>4. Part(lo, w, r + t - d) \in 0 .. w /\ Part(lo, w, r + t - d) <= Part(lo, w, r)
    BY <1>1, <1>2, <1>7 DEF Part
  <2>5. t # 0
    BY <1>1, <1>7
  <2> QED
    BY <1>3, <1>4, <1>5, <2>3, <2>4, <2>5 DEF k, t
<1> QED
  BY <1>1, <1>2, <1>6, <1>7

-----------------------------------------------------------------------------
(* The stretches of the links *)

\* Where the stretch of a link begins.
Before(w, l) == SumFunctionOnSet(w, {k \in Links : k < l})

Weighted(w) == \E l \in Links : w[l] > 0

\* All stretches lie in the cycle, one after the other.
LEMMA Stretches ==
    ASSUME NEW w \in Weights
    PROVE  /\ SumFunction(w) \in Nat
           /\ Weighted(w) <=> SumFunction(w) >= 1
           /\ Before(w, 0) = 0
           /\ \A l \in Links : /\ w[l] \in Nat /\ Before(w, l) \in Nat
                               /\ Cumulative(w, l) = Before(w, l) + w[l]
                               /\ Cumulative(w, l) <= SumFunction(w)
           /\ \A k, l \in Links : k < l => Cumulative(w, k) <= Before(w, l)
           /\ \A l \in Links \ {0} : l - 1 \in Links /\ Before(w, l) = Cumulative(w, l - 1)
           /\ Cumulative(w, Cardinality(Links) - 1) = SumFunction(w)
<1> DEFINE N == Cardinality(Links)
<1>1. N \in Nat \ {0} /\ Links = 0 .. N - 1 /\ IsFiniteSet(Links)
  BY LinksAssumption, FS_CardinalityType
<1> HIDE DEF N
<1>2. DOMAIN w = Links /\ \A l \in Links : w[l] \in Nat
  BY DEF Weights
<1>3. \A S \in SUBSET Links : IsFiniteSet(S) /\ SumFunctionOnSet(w, S) \in Nat
  BY <1>1, <1>2, FS_Subset, SumIsNat
<1>4. \A S \in SUBSET Links : \A T \in SUBSET S : SumFunctionOnSet(w, T) <= SumFunctionOnSet(w, S)
  <2> TAKE S \in SUBSET Links
  <2> TAKE T \in SUBSET S
  <2> QED
    BY <1>2, <1>3, SumOfPart
<1>5. SumFunction(w) = SumFunctionOnSet(w, Links)
  BY <1>2 DEF SumFunction
<1>6. Weighted(w) <=> SumFunction(w) >= 1
  <2>1. CASE Weighted(w)
    <3>1. PICK l \in Links : w[l] > 0
      BY <2>1 DEF Weighted
    <3>2. w[l] <= SumFunctionOnSet(w, Links)
      BY <1>1, <1>2, SumIsNat
    <3> QED
      BY <1>2, <1>3, <1>5, <2>1, <3>1, <3>2
  <2>2. CASE ~Weighted(w)
    <3>1. \A l \in Links : w[l] = 0
      BY <1>2, <2>2 DEF Weighted
    <3>2. SumFunctionOnSet(w, Links) = 0
      BY <1>1, <3>1, SumOfZeros
    <3> QED
      BY <1>5, <2>2, <3>2
  <2> QED
    BY <2>1, <2>2
<1>7. Before(w, 0) = 0
  <2>1. {k \in Links : k < 0} = {}
    BY <1>1
  <2> QED
    BY <2>1, SumEmpty DEF Before
<1>8. ASSUME NEW l \in Links
      PROVE  /\ Before(w, l) \in Nat /\ Cumulative(w, l) = Before(w, l) + w[l]
             /\ Cumulative(w, l) <= SumFunction(w)
  <2> DEFINE below == {k \in Links : k < l}
             upto == {k \in Links : k <= l}
  <2>1. below = upto \ {l} /\ l \in upto
    BY <1>1
  <2>2. SumFunctionOnSet(w, upto) = w[l] + SumFunctionOnSet(w, below)
    <3>1. upto \in SUBSET Links /\ IsFiniteSet(upto) /\ \A k \in upto : w[k] \in Int
      BY <1>2, <1>3
    <3> QED
      BY <2>1, <3>1, SumTakeOut
  <2>3. SumFunctionOnSet(w, below) \in Nat /\ SumFunctionOnSet(w, upto) <= SumFunction(w)
    BY <1>3, <1>4, <1>5
  <2> HIDE DEF below, upto
  <2>4. Before(w, l) = SumFunctionOnSet(w, below) /\ Cumulative(w, l) = SumFunctionOnSet(w, upto)
    BY DEF Before, Cumulative, below, upto
  <2> QED
    BY <1>2, <2>2, <2>3, <2>4
<1>9. ASSUME NEW k \in Links, NEW l \in Links, k < l
      PROVE  Cumulative(w, k) <= Before(w, l)
  <2>1. {j \in Links : j <= k} \in SUBSET {j \in Links : j < l}
    BY <1>1, <1>9
  <2> QED
    BY <1>4, <2>1 DEF Before, Cumulative
<1>10. ASSUME NEW l \in Links \ {0}
       PROVE  l - 1 \in Links /\ Before(w, l) = Cumulative(w, l - 1)
  <2>1. {k \in Links : k < l} = {k \in Links : k <= l - 1}
    BY <1>1
  <2>2. l - 1 \in Links
    BY <1>1
  <2>3. Before(w, l) = Cumulative(w, l - 1)
    BY <2>1 DEF Before, Cumulative
  <2> QED
    BY <2>2, <2>3
<1>11. Cumulative(w, N - 1) = SumFunction(w)
  <2>1. {k \in Links : k <= N - 1} = Links
    BY <1>1
  <2> QED
    BY <1>5, <2>1 DEF Cumulative
<1>12. \A l \in Links : w[l] \in Nat
  BY <1>2
<1>13. SumFunction(w) \in Nat
  BY <1>3, <1>5
<1> QED
  BY <1>6, <1>7, <1>8, <1>9, <1>10, <1>11, <1>12, <1>13 DEF N

\* The cycle has no gap: a link has the turn exactly when the position is in its
\* stretch (weighted_select, link_scheduler.rs:430-445).
LEMMA TurnsFollowStretches ==
    ASSUME NEW w \in Weights, Weighted(w), NEW pos \in 0 .. TotalOf(w) - 1
    PROVE  /\ Select(w, pos) \in Links
           /\ \A l \in Links :
                 Select(w, pos) = l <=> Before(w, l) <= pos /\ pos < Before(w, l) + w[l]
<1> DEFINE N == Cardinality(Links)
           usable == {l \in Links : w[l] > 0}
           hits == {l \in usable : pos < Cumulative(w, l)}
           reach == {l \in Links : pos < Cumulative(w, l)}
           m == Min(reach)
<1>1. /\ pos \in Nat /\ pos < SumFunction(w)
      /\ \A l \in Links : Before(w, l) \in Nat /\ w[l] \in Nat
      /\ \A l \in Links : Cumulative(w, l) = Before(w, l) + w[l]
  BY Stretches DEF TotalOf
<1>2. N - 1 \in Links /\ Links \subseteq Nat
  BY LinksAssumption, FS_CardinalityType, LinksAreNaturals
<1>3. N - 1 \in reach
  BY <1>1, <1>2, Stretches
<1>4. m \in reach /\ \A l \in reach : m <= l
  <2>1. reach \in SUBSET Nat /\ reach # {}
    BY <1>2, <1>3
  <2> HIDE DEF reach
  <2> QED
    BY <2>1, MinExists
<1> HIDE DEF m
<1>5. Before(w, m) <= pos
  <2>1. CASE m = 0
    BY <1>1, <2>1, Stretches
  <2>2. CASE m # 0
    <3>1. m - 1 \in Links /\ Before(w, m) = Cumulative(w, m - 1)
      BY <1>4, <2>2, Stretches
    <3>2. m - 1 \notin reach
      BY <1>2, <1>4
    <3>3. ~(pos < Cumulative(w, m - 1))
      BY <3>1, <3>2
    <3> QED
      BY <1>1, <1>4, <3>1, <3>3
  <2> QED
    BY <2>1, <2>2
<1>6. m \in hits /\ \A l \in hits : m <= l
  BY <1>1, <1>4, <1>5
<1>7. Select(w, pos) = m
  <2>1. hits \in SUBSET Nat /\ hits # {}
    BY <1>2, <1>6
  <2>2. Select(w, pos) = Min(hits)
    BY <2>1 DEF Select
  <2>3. Min(hits) \in hits /\ \A l \in hits : Min(hits) <= l
    BY <2>1, MinExists
  <2>4. m \in Nat /\ Min(hits) \in Nat /\ m <= Min(hits) /\ Min(hits) <= m
    BY <1>6, <2>1, <2>3
  <2> QED
    BY <2>2, <2>4
<1>8. ASSUME NEW l \in Links, Before(w, l) <= pos, pos < Before(w, l) + w[l] PROVE l = m
  <2>1. l \in reach /\ m <= l
    BY <1>1, <1>4, <1>8
  <2>2. ~(m < l)
    <3>1. SUFFICES ASSUME m < l PROVE FALSE
      OBVIOUS
    <3>2. Cumulative(w, m) <= Before(w, l)
      BY <1>4, <3>1, Stretches
    <3> QED
      BY <1>1, <1>4, <1>8, <3>2
  <2> QED
    BY <1>2, <1>4, <2>1, <2>2
<1> QED
  BY <1>1, <1>4, <1>5, <1>7, <1>8

-----------------------------------------------------------------------------
(* Fair shares *)

\* What the scheduler keeps besides: the total is that of the weights, and the
\* turns are those of the last Turns positions of the cursor.
Given(l, n) == Share(Before(weight, l), weight[l], total_weight, n)

SharesInv ==
    /\ SchedTypeOK
    /\ total_weight = TotalOf(weight)
    /\ turns \in [Links -> Nat]
    /\ Turns <= cursor
    /\ Weighted(weight) => \A l \in Links :
                              turns[l] = Given(l, cursor + 1) - Given(l, cursor + 1 - Turns)

\* The total recalculate_total_weight keeps is a divisor of the cursor.
LEMMA TotalIsPositive ==
    ASSUME NEW w \in Weights
    PROVE  TotalOf(w) \in Nat \ {0}
BY Stretches DEF TotalOf

\* The number of turns in all.
LEMMA TurnsAreCounted ==
    ASSUME NEW t \in [Links -> Nat]
    PROVE  /\ SumFunction(t) \in Nat
           /\ t = Zero => SumFunction(t) = 0
           /\ \A l \in Links : SumFunction([t EXCEPT ![l] = @ + 1]) = SumFunction(t) + 1
<1>1. IsFiniteSet(Links) /\ DOMAIN t = Links
  BY LinksAssumption
<1>2. SumFunction(t) = SumFunctionOnSet(t, Links)
  BY <1>1 DEF SumFunction
<1>3. SumFunction(t) \in Nat
  BY <1>1, <1>2, SumIsNat
<1>4. t = Zero => SumFunction(t) = 0
  <2> SUFFICES ASSUME t = Zero PROVE SumFunctionOnSet(t, Links) = 0
    BY <1>2
  <2>1. \A l \in Links : t[l] = 0
    BY DEF Zero
  <2> QED
    BY <1>1, <2>1, SumOfZeros
<1>5. ASSUME NEW l \in Links PROVE SumFunction([t EXCEPT ![l] = @ + 1]) = SumFunction(t) + 1
  <2> DEFINE u == [t EXCEPT ![l] = @ + 1]
  <2>1. /\ DOMAIN u = Links /\ u[l] = t[l] + 1 /\ t[l] \in Nat
        /\ \A k \in Links \ {l} : u[k] = t[k]
    BY <1>1
  <2>2. \A k \in Links : t[k] \in Int
    OBVIOUS
  <2> HIDE DEF u
  <2>3. u[l] \in Int /\ t[l] \in Int
    BY <2>1
  <2>4. SumFunctionOnSet(u, Links) = SumFunctionOnSet(t, Links) + u[l] - t[l]
    BY <1>1, <2>1, <2>2, <2>3, SumOfChanged
  <2>5. SumFunction(u) = SumFunctionOnSet(u, Links)
    BY <2>1 DEF SumFunction
  <2>6. SumFunction(u) = SumFunction(t) + 1
    BY <1>2, <1>3, <2>1, <2>4, <2>5
  <2> QED
    BY <2>6 DEF u
<1> QED
  BY <1>3, <1>4, <1>5

\* With nothing counted every link has had the turns of no position.
LEMMA NothingCounted ==
    ASSUME NEW w \in Weights, NEW n \in Nat, NEW t, t = Zero
    PROVE  /\ t \in [Links -> Nat] /\ SumFunction(t) = 0
           /\ \A l \in Links : LET lo == Before(w, l)
                                 d == TotalOf(w)
                             IN t[l] = Share(lo, w[l], d, n + 1)
                                         - Share(lo, w[l], d, n + 1 - SumFunction(t))
<1>1. t \in [Links -> Nat]
  BY DEF Zero
<1>2. SumFunction(t) = 0
  BY <1>1, TurnsAreCounted
<1>3. ASSUME NEW l \in Links
      PROVE  LET lo == Before(w, l)
                 d == TotalOf(w)
             IN t[l] = Share(lo, w[l], d, n + 1) - Share(lo, w[l], d, n + 1 - SumFunction(t))
  <2> DEFINE lo == Before(w, l)
             d == TotalOf(w)
  <2>1. lo \in Nat /\ w[l] \in Nat /\ d \in Nat \ {0}
    BY Stretches, TotalIsPositive
  <2> HIDE DEF lo, d
  <2>2. Share(lo, w[l], d, n + 1) \in Nat
    BY <2>1, ShareIsNat
  <2>3. n + 1 - SumFunction(t) = n + 1
    BY <1>2
  <2>4. t[l] = 0
    BY DEF Zero
  <2>5. t[l] = Share(lo, w[l], d, n + 1) - Share(lo, w[l], d, n + 1 - SumFunction(t))
    BY <2>2, <2>3, <2>4
  <2> QED
    BY <2>5 DEF lo, d
<1> QED
  BY <1>1, <1>2, <1>3

\* A chunk is one turn more, of the link whose stretch the cursor enters.
LEMMA ScheduleKeepsShares ==
    ASSUME SharesInv, MCSchedule
    PROVE  SharesInv'
<1>1. /\ weight \in Weights /\ total_weight \in Nat \ {0} /\ total_weight = TotalOf(weight)
      /\ cursor \in 0 .. CursorModulus - 1 /\ CursorModulus \in Nat \ {0}
      /\ turns \in [Links -> Nat] /\ Turns \in Nat /\ Turns <= cursor
  BY LinksAssumption, TurnsAreCounted DEF SharesInv, SchedTypeOK, Turns
<1>2. /\ cursor' = (cursor + 1) % CursorModulus
      /\ chosen' = Select(weight, cursor' % total_weight)
      /\ weight' = weight /\ total_weight' = total_weight
      /\ turns' = IF cursor' = 0 THEN Zero ELSE [turns EXCEPT ![chosen'] = @ + 1]
  BY DEF MCSchedule, Schedule
<1>3. chosen' \in Links
  BY <1>2, SelectIsSafe
<1>4. cursor' \in 0 .. CursorModulus - 1 /\ (cursor' = 0 \/ cursor' = cursor + 1)
  <2>1. CASE cursor + 1 < CursorModulus
    BY <1>1, <1>2, <2>1
  <2>2. CASE cursor + 1 = CursorModulus
    BY <1>1, <1>2, <2>2
  <2> QED
    BY <1>1, <2>1, <2>2
<1>5. SchedTypeOK'
  BY <1>1, <1>2, <1>3, <1>4 DEF SchedTypeOK
<1>6. total_weight' = TotalOf(weight')
  BY <1>1, <1>2
<1>7. CASE cursor' = 0
  <2>1. turns' = Zero
    BY <1>2, <1>7
  <2>2. weight' \in Weights /\ cursor' \in Nat
    BY <1>1, <1>2, <1>4
  <2> QED
    BY <1>5, <1>6, <2>1, <2>2, NothingCounted DEF SharesInv, Given, Turns
<1>8. CASE cursor' # 0
  <2>1. cursor' = cursor + 1 /\ turns' = [turns EXCEPT ![chosen'] = @ + 1]
    BY <1>2, <1>4, <1>8
  <2>2. turns' \in [Links -> Nat] /\ Turns' = Turns + 1
    <3>1. SumFunction([turns EXCEPT ![chosen'] = @ + 1]) = SumFunction(turns) + 1
      BY <1>1, <1>3, TurnsAreCounted
    <3>2. turns' \in [Links -> Nat]
      BY <1>1, <1>3, <2>1
    <3> QED
      BY <2>1, <3>1, <3>2 DEF Turns
  <2>3. Turns' <= cursor'
    BY <1>1, <2>1, <2>2
  <2>4. ASSUME Weighted(weight'), NEW l \in Links
        PROVE  turns'[l] = Given(l, cursor + 1)' - Given(l, cursor + 1 - Turns)'
    <3> DEFINE lo == Before(weight, l)
               w == weight[l]
               d == total_weight
               pos == cursor' % total_weight
               since == cursor + 1 - Turns
    <3>1. lo \in Nat /\ w \in Nat /\ d \in Nat \ {0} /\ lo + w <= d
      BY <1>1, <1>2, <2>4, Stretches DEF TotalOf
    <3>2. pos \in 0 .. d - 1
      BY <1>1, <1>4, Division, SMTT(30)
    <3>3. chosen' = l <=> lo <= pos /\ pos < lo + w
      BY <1>1, <1>2, <2>4, <3>2, TurnsFollowStretches
    <3>4. turns[l] = Share(lo, w, d, cursor + 1) - Share(lo, w, d, since)
      BY <1>2, <2>4 DEF SharesInv, Given
    <3>5. Share(lo, w, d, cursor + 1 + 1)
            = Share(lo, w, d, cursor + 1) + (IF lo <= pos /\ pos < lo + w THEN 1 ELSE 0)
      <4> DEFINE n == cursor + 1
      <4>1. n \in Nat /\ pos = n % d
        BY <1>1, <2>1
      <4> HIDE DEF lo, w, d, pos, n
      <4>2. Share(lo, w, d, n + 1)
              = Share(lo, w, d, n) + (IF lo <= n % d /\ n % d < lo + w THEN 1 ELSE 0)
        BY <3>1, <4>1, OneTurn, ZenonT(30)
      <4> QED
        BY <4>1, <4>2 DEF n
    <3>6. turns'[l] = turns[l] + (IF chosen' = l THEN 1 ELSE 0)
      BY <1>1, <1>3, <2>1
    <3>7. /\ Share(lo, w, d, cursor + 1) \in Int /\ Share(lo, w, d, since) \in Int
          /\ turns[l] \in Nat
      <4>1. cursor + 1 \in Nat /\ since \in Nat /\ turns[l] \in Nat
        BY <1>1
      <4> HIDE DEF lo, w, d, since
      <4>2. Share(lo, w, d, cursor + 1) \in Nat
        BY <3>1, <4>1, ShareIsNat
      <4>3. Share(lo, w, d, since) \in Nat
        BY <3>1, <4>1, ShareIsNat
      <4> QED
        BY <4>1, <4>2, <4>3
    <3>8. (cursor + 1 - Turns)' = since /\ cursor' + 1 = cursor + 1 + 1
      BY <1>1, <2>1, <2>2
    <3>9. /\ Given(l, cursor + 1)' = Share(lo, w, d, cursor + 1 + 1)
          /\ Given(l, cursor + 1 - Turns)' = Share(lo, w, d, since)
      BY <1>2, <3>8 DEF Given
    <3> HIDE DEF lo, w, d, pos, since
    <3> QED
      BY <3>3, <3>4, <3>5, <3>6, <3>7, <3>9
  <2> QED
    BY <1>5, <1>6, <2>2, <2>3, <2>4 DEF SharesInv
<1> QED
  BY <1>7, <1>8

\* New weights begin a new count.
LEMMA WeightsKeepShares ==
    ASSUME SharesInv, NEW w \in Weights, MCSetWeights(w)
    PROVE  SharesInv'
<1>1. /\ weight' = w /\ total_weight' = TotalOf(w) /\ turns' = Zero
      /\ cursor' = cursor /\ chosen' = chosen
  BY DEF MCSetWeights, SetRateControlledWeights
<1>2. cursor' \in Nat
  BY <1>1, LinksAssumption DEF SharesInv, SchedTypeOK
<1>3. SchedTypeOK'
  BY <1>1, TotalIsPositive DEF SharesInv, SchedTypeOK
<1> QED
  BY <1>1, <1>2, <1>3, NothingCounted DEF SharesInv, Given, Turns

LEMMA SharesInvariance == MCSpec => []SharesInv
<1>1. MCInit => SharesInv
  <2> SUFFICES ASSUME MCInit PROVE SharesInv
    OBVIOUS
  <2>1. /\ weight = ConfiguredWeight /\ total_weight = TotalOf(weight) /\ cursor = 0
        /\ chosen = NoLink /\ turns = Zero
    BY DEF MCInit, SchedInit
  <2>2. weight \in Weights /\ cursor \in Nat /\ cursor \in 0 .. CursorModulus - 1
    BY <2>1, ConfiguredWeightsAreWeights, LinksAssumption
  <2>3. SchedTypeOK
    BY <2>1, <2>2, TotalIsPositive DEF SchedTypeOK
  <2> QED
    BY <2>1, <2>2, <2>3, NothingCounted DEF SharesInv, Given, Turns
<1>2. SharesInv /\ [MCNext]_mcvars => SharesInv'
  <2> SUFFICES ASSUME SharesInv, [MCNext]_mcvars PROVE SharesInv'
    OBVIOUS
  <2>1. CASE MCSchedule
    BY <2>1, ScheduleKeepsShares
  <2>2. CASE MCAdjustWeights
    <3>1. MCSetWeights(ConfiguredWeight)
      BY <2>2 DEF MCAdjustWeights, AdjustWeights, MCSetWeights
    <3> QED
      BY <3>1, ConfiguredWeightsAreWeights, WeightsKeepShares
  <2>3. ASSUME NEW w \in MCWeights, MCSetWeights(w) PROVE SharesInv'
    <3>1. w \in Weights
      BY BoundsAssumption DEF MCWeights, Weights
    <3> QED
      BY <2>3, <3>1, WeightsKeepShares
  <2>4. CASE UNCHANGED mcvars
    BY <2>4 DEF mcvars, SharesInv, SchedTypeOK, Turns, Given, Weighted, Before
  <2> QED
    BY <2>1, <2>2, <2>3, <2>4 DEF MCNext
<1> QED
  BY <1>1, <1>2, PTL DEF MCSpec

\* The total is never zero, so the cursor can be divided by it
\* (recalculate_total_weight, link_scheduler.rs:240-242), and the cursor wraps.
THEOREM SchedulerTypes == MCSpec => []SchedTypeOK
<1>1. SharesInv => SchedTypeOK
  BY DEF SharesInv
<1> QED
  BY <1>1, SharesInvariance, PTL

\* Weighted round robin is fair for every number of links and all weights: at
\* every moment since the weights were last set, a link has had its weight in
\* chunks for every full cycle, and at most its weight more.
THEOREM SharesAreFair == MCSpec => []FairShares
<1>1. SharesInv => FairShares
  <2> SUFFICES ASSUME SharesInv, \E l \in Links : weight[l] > 0, NEW l \in Links
               PROVE  LET cycles == Turns \div total_weight
                          partial == IF Turns % total_weight = 0 THEN 0 ELSE 1
                      IN  /\ turns[l] >= cycles * weight[l]
                          /\ turns[l] <= (cycles + partial) * weight[l]
    BY DEF FairShares
  <2> DEFINE lo == Before(weight, l)
             w == weight[l]
             d == total_weight
             n == cursor + 1 - Turns
             m == Turns
             cycles == m \div d
             partial == IF m % d = 0 THEN 0 ELSE 1
             given == Share(lo, w, d, n + m) - Share(lo, w, d, n)
  <2>1. /\ weight \in Weights /\ cursor \in Nat /\ turns \in [Links -> Nat]
        /\ m \in Nat /\ m <= cursor /\ d = TotalOf(weight)
    BY LinksAssumption, TurnsAreCounted DEF SharesInv, SchedTypeOK, Turns
  <2>2. lo \in Nat /\ w \in Nat /\ d \in Nat \ {0} /\ lo + w <= d
    BY <2>1, Stretches, TotalIsPositive DEF TotalOf
  <2>3. n \in Nat /\ n + m = cursor + 1
    BY <2>1
  <2>4. turns[l] = given
    <3>1. turns[l] = Share(lo, w, d, cursor + 1) - Share(lo, w, d, n)
      BY DEF SharesInv, Weighted, Given
    <3> QED
      BY <2>3, <3>1
  <2> HIDE DEF lo, w, d, n, m
  <2>5. cycles * w <= given /\ given <= (cycles + partial) * w
    BY <2>1, <2>2, <2>3, ManyTurns
  <2>6. given \in Int /\ cycles * w \in Nat
    <3>1. n + m \in Nat /\ cycles \in Nat
      BY <2>1, <2>2, <2>3, Division
    <3>2. Share(lo, w, d, n + m) \in Nat /\ Share(lo, w, d, n) \in Nat
      BY <2>2, <2>3, <3>1, ShareIsNat
    <3>3. cycles * w \in Nat
      BY <2>2, <3>1
    <3> QED
      BY <3>2, <3>3
  <2> HIDE DEF given, cycles
  <2>7. turns[l] >= cycles * w /\ turns[l] <= (cycles + partial) * w
    BY <2>4, <2>5, <2>6
  <2> QED
    BY <2>7 DEF cycles, w, d, m
<1> QED
  BY <1>1, SharesInvariance, PTL
=============================================================================
