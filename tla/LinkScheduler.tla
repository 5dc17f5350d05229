---------------------------- MODULE LinkScheduler ----------------------------
(***************************************************************************)
(* The link scheduler of one endpoint (core/src/link_scheduler.rs): the    *)
(* chunk sender asks it for a link for every chunk, the statistics task    *)
(* resets its weights to the configured ones once a second and then sets   *)
(* the weights of the rate controller.  Both modes of schedule select the  *)
(* link in the same way, and neither looks at the configured strategy; the *)
(* synchronisation delay, RTTs and byte counts select nothing.             *)
(***************************************************************************)
EXTENDS Integers, FiniteSetsExt

CONSTANTS
    Links,              \* indices 0 .. n-1, in the order of the links vector
    ConfiguredWeight,   \* bandwidth_to_weight of the configured bandwidth
    CursorModulus,      \* the cursor wraps: 2^64 in the code
    NoLink              \* no chunk has been scheduled

ASSUME LinksAssumption ==
    /\ IsFiniteSet(Links) /\ Links = 0 .. Cardinality(Links) - 1
    /\ 0 \in Links
    /\ ConfiguredWeight \in [Links -> Nat \ {0}]
    /\ CursorModulus \in Nat \ {0}
    /\ NoLink \notin Links

VARIABLES
    weight,             \* weight of every link
    total_weight,       \* their sum as last recalculated, at least 1
    cursor,
    chosen              \* the link of the last ScheduleDecision

schedVars == <<weight, total_weight, cursor, chosen>>

Weights == [Links -> Nat]

\* Mutant of TotalOf: the sum may be zero.
TotalOfUnfloored(w) == SumFunction(w)

\* recalculate_total_weight
TotalOf(w) == IF SumFunction(w) >= 1 THEN SumFunction(w) ELSE 1

\* The weights of the links up to l, l included.
Cumulative(w, l) == SumFunctionOnSet(w, {k \in Links : k <= l})

\* Mutant of Select: the first turn of a stretch is given to the link before it.
SelectInclusive(w, pos) ==
    LET hits == {l \in Links : w[l] > 0 /\ pos <= Cumulative(w, l)}
    IN IF hits # {} THEN Min(hits) ELSE 0

\* Mutant of Select: plain round robin.
SelectInTurn(w, pos) == pos % Cardinality(Links)

\* weighted_select: the link in whose stretch of the cycle pos falls; failing
\* that the first link with a weight, failing that link 0.
Select(w, pos) ==
    LET usable == {l \in Links : w[l] > 0}
        hits == {l \in usable : pos < Cumulative(w, l)}
    IN IF hits # {} THEN Min(hits)
       ELSE IF usable # {} THEN Min(usable) ELSE 0

-----------------------------------------------------------------------------

SchedInit ==
    /\ weight = ConfiguredWeight
    /\ total_weight = TotalOf(ConfiguredWeight)
    /\ cursor = 0
    /\ chosen = NoLink

\* schedule
Schedule ==
    /\ cursor' = (cursor + 1) % CursorModulus
    /\ chosen' = Select(weight, cursor' % total_weight)
    /\ UNCHANGED <<weight, total_weight>>

\* set_rate_controlled_weights
SetRateControlledWeights(w) ==
    /\ weight' = w
    /\ total_weight' = TotalOf(w)
    /\ UNCHANGED <<cursor, chosen>>

\* maybe_adjust_weights, a second or more after it last did so: update_link's
\* measurement of any link resets the weight of every link.
AdjustWeights == SetRateControlledWeights(ConfiguredWeight)

SchedNext ==
    \/ Schedule
    \/ AdjustWeights
    \/ \E w \in Weights : SetRateControlledWeights(w)

SchedSpec == SchedInit /\ [][SchedNext]_schedVars

-----------------------------------------------------------------------------
(* Properties *)

SchedTypeOK ==
    /\ weight \in Weights
    /\ total_weight \in Nat \ {0}
    /\ cursor \in 0 .. CursorModulus - 1
    /\ chosen \in Links \cup {NoLink}

\* A link without weight (Down or Probing in the rate controller) is given a
\* chunk only when no link has any weight.
WeightlessNotChosen ==
    [][Schedule => weight[chosen'] > 0 \/ \A l \in Links : weight[l] = 0]_schedVars
=============================================================================
