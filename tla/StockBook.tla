----------------------------- MODULE StockBook ------------------------------
(***************************************************************************)
(* What the inventory stock engine promises its callers: the calls made of *)
(* it take effect one at a time, each on the level its predecessors left,  *)
(* and each at most once.                                                  *)
(***************************************************************************)
EXTENDS StockLevel

CONSTANTS
    Calls,      \* the calls of the engine, each made at most once
    Keys,       \* the (item, warehouse) pairs
    Operations, \* the operations callers ask for
    SeedLevels  \* the levels a repository may be seeded with

VARIABLES
    opened,    \* the keys that have a stock level
    level,     \* per key: the level (ZeroLevel before it is opened)
    key,       \* per call: the key it was made for
    operation, \* per call: what it asked for
    outcome    \* per call: "none" before it is made, then how it ended

vars == <<opened, level, key, operation, outcome>>

Init ==
    /\ opened \in SUBSET Keys
    /\ level \in [Keys -> SeedLevels \cup {ZeroLevel}]
    /\ \A k \in Keys \ opened : level[k] = ZeroLevel
    /\ key \in [Calls -> Keys]
    /\ operation \in [Calls -> Operations]
    /\ outcome = [c \in Calls |-> "none"]

Ask(c, k, op) ==
    /\ outcome[c] = "none"
    /\ outcome' = [outcome EXCEPT ![c] = "pending"]
    /\ key' = [key EXCEPT ![c] = k]
    /\ operation' = [operation EXCEPT ![c] = op]
    /\ UNCHANGED <<opened, level>>

\* A zeroed level appears, for a pending call that creates it.
Open(c) ==
    /\ outcome[c] = "pending" /\ Creates(operation[c])
    /\ key[c] \notin opened
    /\ opened' = opened \cup {key[c]}
    /\ UNCHANGED <<level, key, operation, outcome>>

Apply(c) ==
    /\ outcome[c] = "pending"
    /\ key[c] \in opened
    /\ ~ Refused(level[key[c]], operation[c])
    /\ level' = [level EXCEPT ![key[c]] = Updated(@, operation[c])]
    /\ outcome' = [outcome EXCEPT ![c] = "done"]
    /\ UNCHANGED <<opened, key, operation>>

Reject(c) ==
    /\ outcome[c] = "pending"
    /\ IF key[c] \in opened
       THEN /\ Refused(level[key[c]], operation[c])
            /\ outcome' = [outcome EXCEPT ![c] = "insufficient"]
       ELSE /\ ~ Creates(operation[c])
            /\ outcome' = [outcome EXCEPT ![c] = "notFound"]
    /\ UNCHANGED <<opened, level, key, operation>>

Next ==
    \E c \in Calls :
        \/ \E k \in Keys, op \in Operations : Ask(c, k, op)
        \/ Open(c)
        \/ Apply(c)
        \/ Reject(c)

Spec == Init /\ [][Next]_vars
=============================================================================
