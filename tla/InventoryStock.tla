--------------------------- MODULE InventoryStock ---------------------------
(***************************************************************************)
(* createInventoryStockEngine of packages/inventory-engine: every mutation *)
(* of a stock level reads the level, computes and saves inside             *)
(* runExclusive("<item>::<warehouse>").  The repository itself has no      *)
(* uniqueness: a level is a row, and a lookup by item and warehouse        *)
(* returns the first.  An await separates reading from saving, so other    *)
(* calls run in between; the mutex is what keeps those of the same key     *)
(* out.                                                                    *)
(***************************************************************************)
EXTENDS KeyMutex, StockLevel

CONSTANTS
    Operations, \* the operations callers ask for
    SeedLevels  \* the levels a repository may be seeded with

ASSUME OperationsAssumption == Operations \subseteq Operation /\ Operations # {}
ASSUME SeedAssumption == SeedLevels \subseteq Level

VARIABLES
    rows,      \* per key: the repository's stock levels, in insertion order
    operation, \* per call: the operation it was made for
    slot,      \* per call: the row its section works on, 0 while it has none
    copy,      \* per call: the level its section holds in a local variable
    outcome    \* per call: "none" before it is made, then how it ended

stockOnly == <<rows, operation, slot, copy, outcome>>
stockVars == <<mutexVars, stockOnly>>

Outcomes == {"none", "pending", "done", "notFound", "insufficient"}

StockInit ==
    /\ MutexInit
    /\ rows \in [Keys -> {<<>>} \cup {<<l>> : l \in SeedLevels}]
    /\ operation = [c \in Calls |-> CHOOSE op \in Operations : TRUE]
    /\ slot = [c \in Calls |-> 0]
    /\ copy = [c \in Calls |-> ZeroLevel]
    /\ outcome = [c \in Calls |-> "none"]

\* A method of the engine is called: it enters the queue of its key.
Request(c, k, op) ==
    /\ RunExclusive(c, k)
    /\ operation' = [operation EXCEPT ![c] = op]
    /\ outcome' = [outcome EXCEPT ![c] = "pending"]
    /\ UNCHANGED <<rows, slot, copy>>

\* The section starts with repository.findByItemAndWarehouse.
ReadLevel(c) ==
    /\ Begin(c)
    /\ IF rows[key[c]] = <<>>
       THEN UNCHANGED <<slot, copy>>
       ELSE /\ slot' = [slot EXCEPT ![c] = 1]
            /\ copy' = [copy EXCEPT ![c] = rows[key[c]][1]]
    /\ UNCHANGED <<rows, operation, outcome>>

Deciding(c) == state[c] = "running" /\ outcome[c] = "pending"

\* getOrCreateLevel found nothing and saves a zeroed level.
CreateLevel(c) ==
    /\ Deciding(c) /\ slot[c] = 0 /\ Creates(operation[c])
    /\ rows' = [rows EXCEPT ![key[c]] = Append(@, ZeroLevel)]
    /\ slot' = [slot EXCEPT ![c] = Len(rows[key[c]]) + 1]
    /\ copy' = [copy EXCEPT ![c] = ZeroLevel]
    /\ UNCHANGED <<mutexVars, operation, outcome>>

\* The updated copy is saved over the row it was read from.
SaveLevel(c) ==
    /\ Deciding(c) /\ slot[c] # 0 /\ Updates(operation[c])
    /\ ~ Refused(copy[c], operation[c])
    /\ rows' = [rows EXCEPT ![key[c]][slot[c]] = Updated(copy[c], operation[c])]
    /\ outcome' = [outcome EXCEPT ![c] = "done"]
    /\ UNCHANGED <<mutexVars, operation, slot, copy>>

\* StockLevelNotFoundError or InsufficientStockError ends the section.
Refuse(c) ==
    /\ Deciding(c)
    /\ Finish(c)
    /\ \/ /\ slot[c] = 0 /\ ~ Creates(operation[c])
          /\ outcome' = [outcome EXCEPT ![c] = "notFound"]
       \/ /\ slot[c] # 0 /\ Refused(copy[c], operation[c])
          /\ outcome' = [outcome EXCEPT ![c] = "insufficient"]
    /\ UNCHANGED <<rows, operation, slot, copy>>

\* The section returns the level it saved, or the one getOrCreate found.
Return(c) ==
    /\ Finish(c)
    /\ \/ outcome[c] = "done" /\ UNCHANGED outcome
       \/ /\ Deciding(c) /\ slot[c] # 0 /\ ~ Updates(operation[c])
          /\ outcome' = [outcome EXCEPT ![c] = "done"]
    /\ UNCHANGED <<rows, operation, slot, copy>>

Release(c) == Settle(c) /\ UNCHANGED stockOnly

CallStep(c) ==
    ReadLevel(c) \/ CreateLevel(c) \/ SaveLevel(c) \/ Refuse(c) \/ Return(c) \/ Release(c)

StockNext ==
    \E c \in Calls :
        \/ \E k \in Keys, op \in Operations : Request(c, k, op)
        \/ ReadLevel(c)
        \/ CreateLevel(c)
        \/ SaveLevel(c)
        \/ Refuse(c)
        \/ Return(c)
        \/ Release(c)

StockSpec == StockInit /\ [][StockNext]_stockVars

-----------------------------------------------------------------------------

StockTypeOK ==
    /\ MutexTypeOK
    /\ rows \in [Keys -> Seq(Level)]
    /\ operation \in [Calls -> Operations]
    /\ slot \in [Calls -> Nat]
    /\ copy \in [Calls -> Level]
    /\ outcome \in [Calls -> Outcomes]

\* Two first uses of a key never leave it with two stock levels: the comment
\* "that can also duplicate a getOrCreated record for a brand-new (item,
\* warehouse) pair".
NoDuplicateLevel == \A k \in Keys : Len(rows[k]) <= 1

\* What a section computes from is still what the repository holds when it
\* saves: no "second save() silently overwrites the first's effect".
CopyIsCurrent ==
    \A c \in Calls : Deciding(c) =>
        IF slot[c] = 0 THEN rows[key[c]] = <<>>
        ELSE /\ slot[c] <= Len(rows[key[c]])
             /\ rows[key[c]][slot[c]] = copy[c]

\* The first row of a key, the level every reader sees.
LevelOf(k) == IF rows[k] = <<>> THEN ZeroLevel ELSE rows[k][1]

\* "A reservation can never be over-allocated beyond what is truly available":
\* a step that raises the reserved quantity leaves nothing below zero.
ReservesOnlyAvailable ==
    [][\A k \in Keys : LevelOf(k)'.reserved > LevelOf(k).reserved =>
            Available(LevelOf(k)') >= 0]_stockVars

\* The engine is a stock book whose calls take effect one at a time.
Book == INSTANCE StockBook WITH
    opened <- {k \in Keys : rows[k] # <<>>},
    level <- [k \in Keys |-> LevelOf(k)]

ImplementsStockBook == Book!Spec

=============================================================================
