--------------------------- MODULE ConfigurationMC ---------------------------
(***************************************************************************)
(* Configuration with two callers and two values for each of the two       *)
(* parameters that must agree.  undisturbed is the caller whose call no    *)
(* other call, no edit of the file and no crash has overlapped.            *)
(***************************************************************************)
EXTENDS Configuration, TLC

VARIABLES undisturbed

callsVars == <<configVars, undisturbed>>

Single == "flow_classifier.single_link_threshold"
Multi == "flow_classifier.multi_link_threshold"

Base == [p \in Path |-> IF p = Multi THEN 50 ELSE 20]

MCConfigs ==
    {Base, [Base EXCEPT !["other"] = 21], [Base EXCEPT ![Single] = 60],
     [Base EXCEPT !["chunk_aggregator.min_chunk_size"] = 21], [Base EXCEPT !["stats.ewma_alpha"] = 0]}

MCValues == {[type |-> "Float", value |-> 30], [type |-> "Float", value |-> 40],
             [type |-> "Usize", value |-> 30], [type |-> "Bool", value |-> 1]}

\* The parameters that runs set: those that must agree, and one of each other kind
MCPaths == {Single, Multi, "chunk_aggregator.min_chunk_size", "stats.ewma_alpha"}

CallsInit == ConfigInit /\ undisturbed = {}

Busy == {k \in Callers : call[k] # NoCall}

\* A call begins, and overlaps those under way.
Begins(k, A) == A /\ undisturbed' = IF Busy = {} THEN {k} ELSE {}

Goes(A) == A /\ UNCHANGED undisturbed

Disturbs(A) == A /\ undisturbed' = {}

CallsNext ==
    \/ \E k \in Callers, path \in MCPaths, v \in Values : Begins(k, SetParameter(k, path, v))
    \/ \E k \in Callers, c \in Configs : Begins(k, Update(k, c))
    \/ \E k \in Callers : Begins(k, Reload(k) \/ Save(k))
    \/ \E k \in Callers : Goes(Store(k) \/ Announce(k) \/ Truncate(k) \/ Write(k))
    \/ \E c \in Configs : Disturbs(Edit(c))
    \/ Disturbs(Crash) \/ Goes(Start)

CallsSpec == CallsInit /\ [][CallsNext]_callsVars

Symmetry == Permutations(Callers)

-----------------------------------------------------------------------------

\* A call that overlapped no other has done what it was called for when it returns:
\* its configuration is stored and announced, or is what the file holds.  (Calls that
\* overlap may lose one another's change, and may leave stored and announced apart.)
AloneMeansDone ==
    [][\A k \in Callers \cap undisturbed :
          /\ Announce(k) => config' = call[k].config /\ announced' = call[k].config
          /\ Write(k) => Loads']_callsVars
===============================================================================
