------------------------- MODULE InventoryMovements -------------------------
(***************************************************************************)
(* createInventoryMovementEngine of packages/inventory-engine: a movement  *)
(* asks the stock engine for one mutation (a transfer for two, one after   *)
(* the other) and then saves one movement record.  The stock engine is the *)
(* StockBook that InventoryStock implements; between a movement's awaits   *)
(* the others run.                                                         *)
(***************************************************************************)
EXTENDS StockBook, FiniteSetsExt

CONSTANTS
    Movements, \* the movement requests, each made at most once
    Requests   \* what they may ask for

RequestTypes == {"receive", "return", "issue", "transfer", "adjustment",
                 "reservation", "release"}

\* Callers give signed quantities to adjustments only; nothing checks it.
Request ==
    {r \in [type : RequestTypes, at : Keys, to : Keys, quantity : Int] :
        r.quantity < 0 => r.type = "adjustment"}

ASSUME MovementCalls == Calls = Movements \X {1, 2}
ASSUME MovementRequests == Requests \subseteq Request /\ Requests # {}
ASSUME MovementSeeds ==
    /\ SeedLevels \subseteq Level /\ Keys # {}
    /\ Operations \subseteq Operation /\ Operations # {}

VARIABLES
    request, \* per movement: what it was made for
    stage,   \* per movement: "new", the stock call it awaits, how it ended
    opening  \* history: the on-hand quantity each key started with

movementOnly == <<request, stage, opening>>
movementVars == <<vars, movementOnly>>

Outcomes == {"none", "pending", "done", "notFound", "insufficient"}
Stages == {"new", "first", "second", "recorded", "failed"}

MovementInit ==
    /\ opened \in SUBSET Keys
    /\ level \in [Keys -> SeedLevels \cup {ZeroLevel}]
    /\ \A k \in Keys \ opened : level[k] = ZeroLevel
    /\ key = [c \in Calls |-> CHOOSE k \in Keys : TRUE]
    /\ operation = [c \in Calls |-> CHOOSE op \in Operations : TRUE]
    /\ outcome = [c \in Calls |-> "none"]
    /\ request = [m \in Movements |-> CHOOSE r \in Requests : TRUE]
    /\ stage = [m \in Movements |-> "new"]
    /\ opening = [k \in Keys |-> level[k].onHand]

Increase(n) == [kind |-> "increaseOnHand", quantity |-> n]
Decrease(n) == [kind |-> "decreaseOnHand", quantity |-> n]

\* The first stock mutation of each movement; an adjustment is signed.
FirstLeg(r) ==
    CASE r.type \in {"receive", "return"} -> Increase(r.quantity)
      [] r.type \in {"issue", "transfer"} -> Decrease(r.quantity)
      [] r.type = "adjustment" ->
           IF r.quantity < 0 THEN Decrease(-r.quantity) ELSE Increase(r.quantity)
      [] r.type = "reservation" ->
           [kind |-> "increaseReserved", quantity |-> r.quantity]
      [] r.type = "release" ->
           [kind |-> "decreaseReserved", quantity |-> r.quantity]

\* The movement's first stock mutation is asked for.
Start(m, r) ==
    /\ stage[m] = "new"
    /\ Ask(<<m, 1>>, r.at, FirstLeg(r))
    /\ request' = [request EXCEPT ![m] = r]
    /\ stage' = [stage EXCEPT ![m] = "first"]
    /\ UNCHANGED opening

\* The stock engine works on a call.
StockStep(c) ==
    /\ Open(c) \/ Apply(c) \/ Reject(c)
    /\ UNCHANGED movementOnly

\* Faulty: the destination is decreased too.
SecondLegDecrease(m) ==
    /\ stage[m] = "first" /\ request[m].type = "transfer"
    /\ outcome[<<m, 1>>] = "done"
    /\ Ask(<<m, 2>>, request[m].to, Decrease(request[m].quantity))
    /\ stage' = [stage EXCEPT ![m] = "second"]
    /\ UNCHANGED <<request, opening>>

\* A transfer's decrease is done: increase at the destination.
SecondLeg(m) ==
    /\ stage[m] = "first" /\ request[m].type = "transfer"
    /\ outcome[<<m, 1>>] = "done"
    /\ Ask(<<m, 2>>, request[m].to, Increase(request[m].quantity))
    /\ stage' = [stage EXCEPT ![m] = "second"]
    /\ UNCHANGED <<request, opening>>

\* Faulty: a record does not wait for the last mutation.
RecordEarly(m) ==
    /\ stage[m] = "second" \/ (stage[m] = "first" /\ outcome[<<m, 1>>] = "done")
    /\ stage' = [stage EXCEPT ![m] = "recorded"]
    /\ UNCHANGED <<vars, request, opening>>

\* The last mutation is done: the movement record is saved.
Record(m) ==
    /\ \/ /\ stage[m] = "first" /\ request[m].type # "transfer"
          /\ outcome[<<m, 1>>] = "done"
       \/ stage[m] = "second" /\ outcome[<<m, 2>>] = "done"
    /\ stage' = [stage EXCEPT ![m] = "recorded"]
    /\ UNCHANGED <<vars, request, opening>>

\* Faulty: a missing stock level is swallowed.
ThrowInsufficient(m) ==
    /\ stage[m] = "first" /\ outcome[<<m, 1>>] = "insufficient"
    /\ stage' = [stage EXCEPT ![m] = "failed"]
    /\ UNCHANGED <<vars, request, opening>>

\* The stock engine's error passes through; nothing is recorded.
Throw(m) ==
    /\ \/ stage[m] = "first" /\ outcome[<<m, 1>>] \in {"insufficient", "notFound"}
       \/ stage[m] = "second" /\ outcome[<<m, 2>>] \in {"insufficient", "notFound"}
    /\ stage' = [stage EXCEPT ![m] = "failed"]
    /\ UNCHANGED <<vars, request, opening>>

MovementNext ==
    \/ \E m \in Movements :
          \/ \E r \in Requests : Start(m, r)
          \/ SecondLeg(m)
          \/ Record(m)
          \/ Throw(m)
    \/ \E c \in Calls : StockStep(c)

\* A movement that was started is run to its end and the stock engine answers.
MovementFairness ==
    /\ \A m \in Movements :
          WF_movementVars(SecondLeg(m)) /\ WF_movementVars(Record(m) \/ Throw(m))
    /\ \A c \in Calls : WF_movementVars(StockStep(c))

MovementSpec == MovementInit /\ [][MovementNext]_movementVars

FairMovementSpec == MovementSpec /\ MovementFairness

-----------------------------------------------------------------------------

MovementTypeOK ==
    /\ opened \subseteq Keys
    /\ level \in [Keys -> Level]
    /\ key \in [Calls -> Keys]
    /\ operation \in [Calls -> Operation]
    /\ outcome \in [Calls -> Outcomes]
    /\ request \in [Movements -> Request]
    /\ stage \in [Movements -> Stages]
    /\ opening \in [Keys -> Nat]

\* What a recorded movement says it did to the on-hand quantity of k.
Recorded(r, k) ==
    LET out == IF r.at = k THEN r.quantity ELSE 0
        in  == IF r.to = k THEN r.quantity ELSE 0
    IN  CASE r.type \in {"receive", "return", "adjustment"} -> out
          [] r.type = "issue" -> -out
          [] r.type = "transfer" -> in - out
          [] OTHER -> 0

\* The movement records account for the stock: when no movement is under way,
\* what is on hand is what was there and what the records say ("every stock
\* change in the entire package ... produces the same kind of immutable
\* MovementRecord").
LedgerBalances ==
    (\A m \in Movements : stage[m] \in {"new", "recorded", "failed"}) =>
        \A k \in Keys :
            level[k].onHand = opening[k] +
                SumFunctionOnSet([m \in Movements |-> Recorded(request[m], k)],
                                 {m \in Movements : stage[m] = "recorded"})

\* A movement that throws has changed no stock: no undo is needed.
FailedMovesNothing ==
    \A m \in Movements : stage[m] = "failed" =>
        \A i \in {1, 2} : outcome[<<m, i>>] # "done"

\* Every movement ends, recorded or failed.
EveryMovementEnds ==
    \A m \in Movements : stage[m] = "first" ~> stage[m] \in {"recorded", "failed"}
=============================================================================
