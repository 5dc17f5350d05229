----------------------------- MODULE PathHealth -----------------------------
(***************************************************************************)
(* What the rate controller promises about the paths, whatever it measures *)
(* (the state diagram of README.md "State Machine"): a link may fail at    *)
(* any time and several may fail together; a failed link comes back only   *)
(* by answering probes, one at a time, the first of which starts the count *)
(* and the last of which puts the link back in service; a failure during   *)
(* the count loses all of it.  A link that failed under heavy load may owe *)
(* the short count, every other link owes the full one.                    *)
(***************************************************************************)
EXTENDS Integers

CONSTANTS
    Links,
    FullCount,        \* probes owed after the first one
    ShortCount        \* the same for a link that failed under load

VARIABLES
    path,             \* "Up", "Down" or "Proving"
    owed,             \* answers a Proving link still owes
    doubted           \* the last failure happened under heavy load

vars == <<path, owed, doubted>>

TypeOK ==
    /\ path \in [Links -> {"Up", "Down", "Proving"}]
    /\ owed \in [Links -> Nat]
    /\ doubted \in [Links -> BOOLEAN]

Init ==
    /\ path = [l \in Links |-> "Up"]
    /\ owed = [l \in Links |-> 0]
    /\ doubted = [l \in Links |-> FALSE]

\* The links in S fail; loaded says which of them fail under heavy load.
Fail(S, loaded) ==
    /\ \A l \in S : path[l] # "Down"
    /\ path' = [l \in Links |-> IF l \in S THEN "Down" ELSE path[l]]
    /\ owed' = [l \in Links |-> IF l \in S THEN 0 ELSE owed[l]]
    /\ doubted' = [l \in Links |-> IF l \in S THEN l \in loaded ELSE doubted[l]]

FirstAnswer(l) ==
    /\ path[l] = "Down"
    /\ path' = [path EXCEPT ![l] = "Proving"]
    /\ owed' = [owed EXCEPT ![l] = IF doubted[l] THEN ShortCount ELSE FullCount]
    /\ UNCHANGED doubted

Answer(l) ==
    /\ path[l] = "Proving"
    /\ owed[l] > 1
    /\ owed' = [owed EXCEPT ![l] = @ - 1]
    /\ UNCHANGED <<path, doubted>>

LastAnswer(l) ==
    /\ path[l] = "Proving"
    /\ owed[l] = 1
    /\ path' = [path EXCEPT ![l] = "Up"]
    /\ owed' = [owed EXCEPT ![l] = 0]
    /\ UNCHANGED doubted

Next ==
    \/ \E S, loaded \in SUBSET Links : Fail(S, loaded)
    \/ \E l \in Links : FirstAnswer(l) \/ Answer(l) \/ LastAnswer(l)

Spec == Init /\ [][Next]_vars
=============================================================================
