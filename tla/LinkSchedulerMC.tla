--------------------------- MODULE LinkSchedulerMC ---------------------------
(***************************************************************************)
(* LinkScheduler on a few links with small weights.  turns counts the      *)
(* chunks each link was given since the weights were last set or the       *)
(* cursor last wrapped.                                                    *)
(***************************************************************************)
EXTENDS LinkScheduler

CONSTANTS MaxWeight, MaxTurns    \* bounds

ASSUME BoundsAssumption == MaxWeight \in Nat /\ MaxTurns \in Nat

VARIABLE turns

mcvars == <<weight, total_weight, cursor, chosen, turns>>

MCConfiguredWeight == [l \in Links |-> IF l = 0 THEN 1 ELSE 2]

MCWeights == [Links -> 0 .. MaxWeight]

Zero == [l \in Links |-> 0]

Turns == SumFunction(turns)

MCInit == SchedInit /\ turns = Zero

MCSchedule ==
    /\ Turns < MaxTurns
    /\ Schedule
    /\ turns' = IF cursor' = 0 THEN Zero ELSE [turns EXCEPT ![chosen'] = @ + 1]

MCAdjustWeights == AdjustWeights /\ turns' = Zero

MCSetWeights(w) == SetRateControlledWeights(w) /\ turns' = Zero

MCNext ==
    \/ MCSchedule
    \/ MCAdjustWeights
    \/ \E w \in MCWeights : MCSetWeights(w)

MCSpec == MCInit /\ [][MCNext]_mcvars

\* Weighted round robin is fair from every cursor and whatever was scheduled
\* before: n turns into a cycle every link has had its weight for every full
\* cycle, and at most its weight more.
FairShares ==
    (\E l \in Links : weight[l] > 0) =>
        LET total == total_weight
            cycles == Turns \div total
            partial == IF Turns % total = 0 THEN 0 ELSE 1
        IN \A l \in Links : /\ turns[l] >= cycles * weight[l]
                            /\ turns[l] <= (cycles + partial) * weight[l]
=============================================================================
