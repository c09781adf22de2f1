----------------------- MODULE InventoryCountingProofs ----------------------
(***************************************************************************)
(* Theorems about InventoryMovements and about InventoryCounting, which is *)
(* built on it, for any items, warehouses, requests, movements, lines and  *)
(* calls: how far the stock mutations of a movement are when it is         *)
(* recorded or fails, also beside a count; that the movement records       *)
(* account for all stock; that a completion adjusts every line; and that   *)
(* calls that do not overlap keep a completed count and what was recorded, *)
(* and put on the books what each line varied by, once.                    *)
(***************************************************************************)
EXTENDS InventoryCounting, SetSums

\* How far the one or two mutations of a movement are, by its stage.  The
\* second one is an increase, which the stock engine never refuses.
Leg(m) ==
    /\ stage[m] = "new" => outcome[<<m, 1>>] = "none" /\ outcome[<<m, 2>>] = "none"
    /\ stage[m] = "first" => outcome[<<m, 1>>] # "none" /\ outcome[<<m, 2>>] = "none"
    /\ stage[m] = "second" =>
          /\ request[m].type = "transfer" /\ outcome[<<m, 1>>] = "done"
          /\ outcome[<<m, 2>>] \in {"pending", "done"}
          /\ operation[<<m, 2>>].kind = "increaseOnHand"
    /\ stage[m] = "recorded" =>
          /\ outcome[<<m, 1>>] = "done"
          /\ outcome[<<m, 2>>] = IF request[m].type = "transfer" THEN "done" ELSE "none"
    /\ stage[m] = "failed" =>
          /\ outcome[<<m, 1>>] \in {"insufficient", "notFound"}
          /\ outcome[<<m, 2>>] = "none"

LegInv == \A m \in Movements : Leg(m)

\* A call that has begun has read the count, so that there is one.
CallInv ==
    /\ count.status = "none" => \A a \in CountCalls : at[a] = "new"
    /\ \A a \in CountCalls : at[a] \in {"new", "read"} => line[a] = 0

\* The lines of the count a read that are at or below n and vary are adjusted.
Adjusted(a, n) ==
    \A i \in LineNumbers :
        i <= n /\ Variance(seen[a], i) # 0 => stage[<<a, i>>] = "recorded"

\* A completion has adjusted the lines before the one it is at.
AdjustInv ==
    \A a \in CountCalls :
        /\ at[a] = "adjusting" =>
              /\ ask[a].op = "complete" /\ line[a] \in LineNumbers
              /\ \A i \in LineNumbers :
                    i < line[a] /\ Variance(seen[a], i) # 0 => stage[<<a, i>>] = "recorded"
        /\ at[a] = "done" /\ ask[a].op = "complete" => Adjusted(a, Len(Lines))

Working(a) == at[a] \in {"read", "adjusting"}

\* While no two calls have overlapped, what a call has read is still stored.
CurrentInv ==
    ~ overlapped =>
        /\ \A a, b \in CountCalls : Working(a) /\ Working(b) => a = b
        /\ \A a \in CountCalls : Working(a) => seen[a] = count

MovementInv == MovementTypeOK /\ LegInv

CountingInv == MovementInv /\ CountingTypeOK /\ CallInv /\ AdjustInv /\ CurrentInv

LEMMA LegCalls ==
    \A m \in Movements : <<m, 1>> \in Calls /\ <<m, 2>> \in Calls /\ <<m, 1>> # <<m, 2>>
  BY MovementCalls

\* What a movement's mutations are depends on that movement alone.
LEMMA LegDepends ==
    ASSUME NEW n \in Movements, Leg(n),
           stage'[n] = stage[n], request'[n] = request[n],
           \A i \in {1, 2} : outcome'[<<n, i>>] = outcome[<<n, i>>],
           operation'[<<n, 2>>].kind = operation[<<n, 2>>].kind
    PROVE  Leg(n)'
  <1>1. outcome'[<<n, 1>>] = outcome[<<n, 1>>] /\ outcome'[<<n, 2>>] = outcome[<<n, 2>>]
    OBVIOUS
  <1>2. QED
    BY <1>1 DEF Leg

LEMMA OtherCalls ==
    ASSUME NEW n \in Movements, NEW m \in Movements, n # m,
           NEW i \in {1, 2}, NEW j \in {1, 2}
    PROVE  <<n, i>> \in Calls /\ <<n, i>> # <<m, j>>
  BY MovementCalls

LEMMA UpdatedLevel ==
    ASSUME NEW l \in Level, NEW op \in Operation, ~ Refused(l, op)
    PROVE  Updated(l, op) \in Level
  BY DEF Level, Operation, Kinds, Refused, Updated, FloorZero

LEMMA FirstLegIsOperation == \A r \in Request : FirstLeg(r) \in Operation
  <1> SUFFICES ASSUME NEW r \in Request PROVE FirstLeg(r) \in Operation
    OBVIOUS
  <1>1. /\ r.type \in RequestTypes /\ r.quantity \in Int
        /\ r.type # "adjustment" => r.quantity \in Nat
    BY DEF Request
  <1>2. \A n \in Nat : Increase(n) \in Operation /\ Decrease(n) \in Operation
    BY DEF Increase, Decrease, Operation, Kinds
  <1>3. CASE r.type = "adjustment"
    BY <1>1, <1>2, <1>3 DEF FirstLeg
  <1>4. CASE r.type \in {"receive", "return", "issue", "transfer"}
    BY <1>1, <1>2, <1>4 DEF FirstLeg
  <1>5. CASE r.type \in {"reservation", "release"}
    BY <1>1, <1>5 DEF FirstLeg, Operation, Kinds
  <1>6. QED
    BY <1>1, <1>3, <1>4, <1>5 DEF RequestTypes

LEMMA InitMovementInv == MovementInit => MovementInv
  <1> SUFFICES ASSUME MovementInit PROVE MovementInv
    OBVIOUS
  <1>1. ZeroLevel \in Level
    BY DEF ZeroLevel, Level
  <1>2. level \in [Keys -> Level]
    BY <1>1, MovementSeeds DEF MovementInit
  <1>3. \A k \in Keys : level[k].onHand \in Nat
    BY <1>2 DEF Level
  <1>4. MovementTypeOK
    BY <1>2, <1>3, MovementSeeds, MovementRequests
       DEF MovementInit, MovementTypeOK, Outcomes, Stages
  <1>5. LegInv
    BY LegCalls DEF MovementInit, LegInv, Leg
  <1>6. QED
    BY <1>4, <1>5 DEF MovementInv

LEMMA StartKeepsInv ==
    ASSUME MovementInv, NEW m \in Movements, NEW r \in Request, Start(m, r)
    PROVE  MovementInv'
  <1> USE DEF MovementInv, Start, Ask, MovementTypeOK
  <1>1. r.at \in Keys /\ FirstLeg(r) \in Operation /\ <<m, 1>> \in Calls
    BY FirstLegIsOperation, LegCalls DEF Request
  <1>2. MovementTypeOK'
    BY <1>1 DEF Outcomes, Stages
  <1>3. ASSUME NEW n \in Movements PROVE Leg(n)'
    <2>1. CASE n = m
      <3>1. <<m, 1>> # <<m, 2>> /\ <<m, 2>> \in Calls
        BY LegCalls
      <3>2. /\ outcome'[<<m, 1>>] = "pending" /\ outcome'[<<m, 2>>] = outcome[<<m, 2>>]
            /\ stage'[m] = "first" /\ outcome[<<m, 2>>] = "none"
        BY <1>1, <3>1 DEF LegInv, Leg
      <3>3. QED
        BY <2>1, <3>2 DEF Leg
    <2>2. CASE n # m
      <3>1. \A i \in {1, 2} : outcome'[<<n, i>>] = outcome[<<n, i>>]
        BY <2>2, OtherCalls
      <3>2. operation'[<<n, 2>>] = operation[<<n, 2>>]
        BY <2>2, OtherCalls
      <3>3. stage'[n] = stage[n] /\ request'[n] = request[n] /\ Leg(n)
        BY <2>2 DEF LegInv
      <3>4. QED
        BY <3>1, <3>2, <3>3, LegDepends
    <2>3. QED
      BY <2>1, <2>2
  <1>4. QED
    BY <1>2, <1>3 DEF LegInv

LEMMA SecondLegKeepsInv ==
    ASSUME MovementInv, NEW m \in Movements, SecondLeg(m)
    PROVE  MovementInv'
  <1> USE DEF MovementInv, SecondLeg, Ask, MovementTypeOK
  <1>1. /\ request[m].to \in Keys /\ Increase(request[m].quantity) \in Operation
        /\ Increase(request[m].quantity).kind = "increaseOnHand" /\ <<m, 2>> \in Calls
    <2>1. request[m] \in Request /\ request[m].type = "transfer"
      OBVIOUS
    <2>2. request[m].quantity \in Nat /\ request[m].to \in Keys
      BY <2>1 DEF Request
    <2>3. \A n \in Nat : Increase(n) \in Operation /\ Increase(n).kind = "increaseOnHand"
      BY DEF Increase, Operation, Kinds
    <2>4. QED
      BY <2>2, <2>3, LegCalls
  <1> DEFINE op == Increase(request[m].quantity)
  <1>2. /\ outcome' = [outcome EXCEPT ![<<m, 2>>] = "pending"]
        /\ operation' = [operation EXCEPT ![<<m, 2>>] = op]
        /\ key' = [key EXCEPT ![<<m, 2>>] = request[m].to]
        /\ stage' = [stage EXCEPT ![m] = "second"] /\ request' = request
        /\ outcome[<<m, 1>>] = "done" /\ request[m].type = "transfer"
        /\ UNCHANGED <<opened, level, opening>>
    OBVIOUS
  <1> HIDE DEF op, SecondLeg, Ask
  <1>3. MovementTypeOK'
    BY <1>1, <1>2 DEF op, Outcomes, Stages
  <1>4. ASSUME NEW n \in Movements PROVE Leg(n)'
    <2>1. CASE n = m
      <3>1. <<m, 1>> # <<m, 2>> /\ <<m, 1>> \in Calls
        BY LegCalls, Zenon
      <3>2. outcome'[<<m, 2>>] = "pending" /\ outcome'[<<m, 1>>] = "done"
        BY <1>1, <1>2, <3>1
      <3>3. operation'[<<m, 2>>] = op
        BY <1>1, <1>2
      <3>4. stage'[m] = "second" /\ request'[m].type = "transfer"
        BY <1>2
      <3>5. operation'[<<m, 2>>].kind = "increaseOnHand"
        BY <1>1, <3>3 DEF op
      <3>6. QED
        BY <2>1, <3>2, <3>4, <3>5 DEF Leg
    <2>2. CASE n # m
      <3>1. \A i \in {1, 2} : outcome'[<<n, i>>] = outcome[<<n, i>>]
        BY <1>2, <2>2, OtherCalls
      <3>2. operation'[<<n, 2>>] = operation[<<n, 2>>]
        BY <1>2, <2>2, OtherCalls
      <3>3. stage'[n] = stage[n] /\ request'[n] = request[n] /\ Leg(n)
        BY <1>2, <2>2 DEF LegInv
      <3>4. QED
        BY <3>1, <3>2, <3>3, LegDepends
    <2>3. QED
      BY <2>1, <2>2
  <1>5. QED
    BY <1>3, <1>4 DEF LegInv

\* A movement is recorded, or passes an error on, when its last mutation ends.
LEMMA EndKeepsInv ==
    ASSUME MovementInv, NEW m \in Movements, Record(m) \/ Throw(m)
    PROVE  MovementInv'
  <1> USE DEF MovementInv, vars
  <1>1. /\ UNCHANGED <<opened, level, key, operation, outcome, request, opening>>
        /\ \/ /\ stage' = [stage EXCEPT ![m] = "recorded"]
              /\ \/ /\ stage[m] = "first" /\ request[m].type # "transfer"
                    /\ outcome[<<m, 1>>] = "done"
                 \/ stage[m] = "second" /\ outcome[<<m, 2>>] = "done"
           \/ /\ stage' = [stage EXCEPT ![m] = "failed"] /\ stage[m] = "first"
              /\ outcome[<<m, 1>>] \in {"insufficient", "notFound"}
    BY DEF Record, Throw, LegInv, Leg
  <1>2. MovementTypeOK'
    BY <1>1 DEF MovementTypeOK, Stages
  <1>3. ASSUME NEW n \in Movements PROVE Leg(n)'
    <2>1. Leg(n) /\ Leg(m)
      BY DEF LegInv
    <2>2. CASE n # m
      <3>1. stage'[n] = stage[n]
        BY <1>1, <2>2 DEF MovementTypeOK
      <3>2. QED
        BY <1>1, <2>1, <3>1, LegDepends
    <2>3. CASE n = m
      <3>1. stage'[m] \in {"recorded", "failed"}
        BY <1>1 DEF MovementTypeOK
      <3>2. QED
        BY <1>1, <2>1, <2>3, <3>1 DEF Leg, MovementTypeOK
    <2>4. QED
      BY <2>2, <2>3
  <1>4. QED
    BY <1>2, <1>3 DEF LegInv

LEMMA StockStepKeepsInv ==
    ASSUME MovementInv, NEW c \in Calls, StockStep(c)
    PROVE  MovementInv'
  <1> USE DEF MovementInv, StockStep, movementOnly
  <1>1. /\ outcome[c] = "pending" /\ UNCHANGED <<key, operation, request, stage, opening>>
        /\ \/ outcome' = outcome
           \/ outcome' = [outcome EXCEPT ![c] = "done"]
           \/ /\ outcome' = [outcome EXCEPT ![c] = "insufficient"]
              /\ Refused(level[key[c]], operation[c])
           \/ /\ outcome' = [outcome EXCEPT ![c] = "notFound"]
              /\ ~ Creates(operation[c])
    BY DEF Open, Apply, Reject
  <1>2. opened' \subseteq Keys /\ level' \in [Keys -> Level]
    <2>1. CASE Open(c)
      BY <2>1 DEF Open, MovementTypeOK
    <2>2. CASE Apply(c)
      BY <2>2, UpdatedLevel DEF Apply, MovementTypeOK
    <2>3. CASE Reject(c)
      BY <2>3 DEF Reject, MovementTypeOK
    <2>4. QED
      BY <2>1, <2>2, <2>3
  <1>3. MovementTypeOK'
    BY <1>1, <1>2 DEF MovementTypeOK, Outcomes
  <1>4. operation[c].kind = "increaseOnHand" => outcome'[c] \in {"pending", "done"}
    BY <1>1 DEF MovementTypeOK, Refused, Creates
  <1>5. outcome'[c] # "none" /\ \A d \in Calls : d # c => outcome'[d] = outcome[d]
    BY <1>1 DEF MovementTypeOK
  <1>6. PICK m \in Movements, j \in {1, 2} : c = <<m, j>>
    BY MovementCalls
  <1>7. ASSUME NEW n \in Movements PROVE Leg(n)'
    <2>1. Leg(n) /\ stage'[n] = stage[n] /\ request'[n] = request[n]
      BY <1>1 DEF LegInv
    <2>2. operation'[<<n, 2>>].kind = operation[<<n, 2>>].kind
      BY <1>1
    <2>3. CASE n # m
      <3>1. \A i \in {1, 2} : outcome'[<<n, i>>] = outcome[<<n, i>>]
        BY <1>5, <1>6, <2>3, OtherCalls
      <3>2. QED
        BY <2>1, <2>2, <3>1, LegDepends
    <2>4. CASE n = m /\ j = 1
      <3>1. outcome[<<n, 1>>] = "pending" /\ outcome'[<<n, 1>>] # "none"
        BY <1>1, <1>5, <1>6, <2>4
      <3>2. outcome'[<<n, 2>>] = outcome[<<n, 2>>]
        BY <1>5, <1>6, <2>4, LegCalls
      <3>3. QED
        BY <2>1, <3>1, <3>2 DEF Leg
    <2>5. CASE n = m /\ j = 2
      <3>1. outcome[<<n, 2>>] = "pending"
        BY <1>1, <1>6, <2>5
      <3>2. outcome'[<<n, 1>>] = outcome[<<n, 1>>]
        BY <1>5, <1>6, <2>5, LegCalls
      <3>3. stage[n] = "second"
        <4>1. stage[n] \in Stages
          BY DEF MovementTypeOK
        <4>2. QED
          BY <2>1, <3>1, <4>1 DEF Leg, Stages
      <3>4. outcome'[<<n, 2>>] \in {"pending", "done"}
        BY <1>4, <1>6, <2>1, <2>5, <3>3 DEF Leg
      <3>5. QED
        BY <2>1, <2>2, <3>2, <3>3, <3>4 DEF Leg
    <2>6. QED
      BY <2>3, <2>4, <2>5
  <1>8. QED
    BY <1>3, <1>7 DEF LegInv

LEMMA MovementStepKeepsInv == MovementInv /\ [MovementNext]_movementVars => MovementInv'
  <1> SUFFICES ASSUME MovementInv, [MovementNext]_movementVars PROVE MovementInv'
    OBVIOUS
  <1>1. CASE UNCHANGED movementVars
    BY <1>1 DEF movementVars, vars, movementOnly, MovementInv, MovementTypeOK, LegInv, Leg
  <1>2. QED
    BY <1>1, MovementRequests, StartKeepsInv, SecondLegKeepsInv, EndKeepsInv, StockStepKeepsInv DEF MovementNext

\* The mutations of a movement are as far as its stage says.
THEOREM MovementInvariant == MovementSpec => []MovementInv
  BY InitMovementInv, MovementStepKeepsInv, PTL DEF MovementSpec

\* Levels, calls and movements are always well typed: in particular no
\* movement takes a quantity below zero.
THEOREM MovementTypes == MovementSpec => []MovementTypeOK
  <1>1. MovementInv => MovementTypeOK
    BY DEF MovementInv
  <1>2. QED
    BY <1>1, MovementInvariant, PTL

\* A movement that throws an error of the stock engine has changed no stock,
\* a transfer included: its second mutation is never refused.
THEOREM FailuresMoveNothing == MovementSpec => []FailedMovesNothing
  <1>1. MovementInv => FailedMovesNothing
    BY DEF MovementInv, LegInv, Leg, FailedMovesNothing
  <1>2. QED
    BY <1>1, MovementInvariant, PTL

-----------------------------------------------------------------------------
\* The ledger: what the mutations that are done have moved is what is on hand.

Started == {m \in Movements : stage[m] # "new"}

\* What a mutation adds to the on-hand quantity it is applied to.
Change(op) ==
    CASE op.kind = "increaseOnHand" -> op.quantity
      [] op.kind = "decreaseOnHand" -> -op.quantity
      [] OTHER -> 0

Does(c, k) == IF outcome[c] = "done" /\ key[c] = k THEN Change(operation[c]) ELSE 0

\* Per movement: what its mutations have done to k so far.
Moved(k) == [m \in Movements |-> Does(<<m, 1>>, k) + Does(<<m, 2>>, k)]

\* The mutations of a movement are the ones its request calls for.
AsRequested(m) ==
    /\ outcome[<<m, 1>>] # "none" =>
          key[<<m, 1>>] = request[m].at /\ operation[<<m, 1>>] = FirstLeg(request[m])
    /\ outcome[<<m, 2>>] # "none" =>
          key[<<m, 2>>] = request[m].to /\ operation[<<m, 2>>] = Increase(request[m].quantity)

BookInv ==
    /\ \A m \in Movements : AsRequested(m)
    /\ IsFiniteSet(Started)
    /\ \A k \in Keys : level[k].onHand = opening[k] + SumFunctionOnSet(Moved(k), Started)

LEMMA LevelChanges ==
    ASSUME NEW l \in Level, NEW op \in Operation, ~ Refused(l, op)
    PROVE  Updated(l, op).onHand = l.onHand + Change(op)
  BY DEF Level, Operation, Kinds, Refused, Updated, Change

LEMMA DoesIsInt ==
    ASSUME MovementTypeOK, NEW c \in Calls, NEW k \in Keys
    PROVE  Does(c, k) \in Int
  <1>1. operation[c].quantity \in Nat
    BY DEF MovementTypeOK, Operation
  <1>2. Change(operation[c]) \in Int
    BY <1>1 DEF Change
  <1>3. QED
    BY <1>2 DEF Does

LEMMA MovedIsInt ==
    ASSUME MovementTypeOK, NEW k \in Keys
    PROVE  \A m \in Movements : Moved(k)[m] \in Int
  <1>1. TAKE m \in Movements
  <1>2. Does(<<m, 1>>, k) \in Int /\ Does(<<m, 2>>, k) \in Int
    BY DoesIsInt, LegCalls
  <1>3. QED
    BY <1>2 DEF Moved

LEMMA InitBookInv == MovementInit => BookInv
  <1> SUFFICES ASSUME MovementInit PROVE BookInv
    OBVIOUS
  <1>1. Started = {}
    BY DEF MovementInit, Started
  <1>2. \A m \in Movements : AsRequested(m)
    BY LegCalls DEF MovementInit, AsRequested
  <1>3. \A k \in Keys : opening[k] = level[k].onHand /\ level[k].onHand \in Int
    <2>1. MovementTypeOK
      BY InitMovementInv DEF MovementInv
    <2>2. QED
      BY <2>1 DEF MovementInit, MovementTypeOK, Level
  <1>4. QED
    BY <1>1, <1>2, <1>3, SumOfNone, FS_EmptySet DEF BookInv

\* A step that moves no stock and starts no movement leaves the book as it is.
LEMMA NothingMoved ==
    ASSUME BookInv, MovementTypeOK, UNCHANGED <<level, opening>>, Started' = Started,
           \A m \in Movements : AsRequested(m)',
           \A c \in Calls, k \in Keys : Does(c, k)' = Does(c, k)
    PROVE  BookInv'
  <1>1. \A k \in Keys : Moved(k)' = Moved(k)
    BY LegCalls DEF Moved
  <1>2. QED
    BY <1>1 DEF BookInv

LEMMA StartKeepsBook ==
    ASSUME MovementInv, BookInv, NEW m \in Movements, NEW r \in Request, Start(m, r)
    PROVE  BookInv'
  <1>1. MovementTypeOK /\ MovementTypeOK'
    BY StartKeepsInv DEF MovementInv
  <1>2. /\ outcome[<<m, 1>>] = "none" /\ outcome[<<m, 2>>] = "none" /\ stage[m] = "new"
        /\ outcome' = [outcome EXCEPT ![<<m, 1>>] = "pending"]
        /\ key' = [key EXCEPT ![<<m, 1>>] = r.at]
        /\ operation' = [operation EXCEPT ![<<m, 1>>] = FirstLeg(r)]
        /\ request' = [request EXCEPT ![m] = r] /\ stage' = [stage EXCEPT ![m] = "first"]
        /\ UNCHANGED <<level, opening>>
    BY DEF MovementInv, LegInv, Leg, Start, Ask
  <1>3. Started' = Started \cup {m} /\ m \notin Started
    BY <1>1, <1>2 DEF Started, MovementTypeOK
  <1>4. ASSUME NEW c \in Calls, NEW k \in Keys
        PROVE  Does(c, k)' = Does(c, k)
    <2>1. CASE c = <<m, 1>>
      BY <1>1, <1>2, <2>1 DEF Does, MovementTypeOK
    <2>2. CASE c # <<m, 1>>
      BY <1>1, <1>2, <2>2 DEF Does, MovementTypeOK
    <2>3. QED
      BY <2>1, <2>2
  <1>5. ASSUME NEW n \in Movements PROVE AsRequested(n)'
    <2>1. CASE n = m
      BY <1>1, <1>2, <2>1, LegCalls DEF AsRequested, MovementTypeOK
    <2>2. CASE n # m
      <3>1. /\ \A i \in {1, 2} : /\ outcome'[<<n, i>>] = outcome[<<n, i>>]
                                 /\ key'[<<n, i>>] = key[<<n, i>>]
                                 /\ operation'[<<n, i>>] = operation[<<n, i>>]
            /\ request'[n] = request[n]
        BY <1>1, <1>2, <2>2, OtherCalls DEF MovementTypeOK
      <3>2. QED
        BY <3>1 DEF BookInv, AsRequested
    <2>3. QED
      BY <2>1, <2>2
  <1>6. IsFiniteSet(Started')
    BY <1>3, FS_AddElement DEF BookInv
  <1>7. ASSUME NEW k \in Keys
        PROVE  SumFunctionOnSet(Moved(k), Started') = SumFunctionOnSet(Moved(k), Started)
    <2>1. Does(<<m, 1>>, k) = 0 /\ Does(<<m, 2>>, k) = 0
      BY <1>2 DEF Does
    <2>2. Moved(k)[m] = 0
      BY <2>1 DEF Moved
    <2>3. \A n \in Started' : Moved(k)[n] \in Int
      BY <1>1, MovedIsInt DEF Started
    <2>4. Started \in SUBSET Started' /\ \A n \in Started' \ Started : Moved(k)[n] = 0
      BY <1>3, <2>2
    <2>5. QED
      BY <1>6, <2>3, <2>4, SumOfTheRest
  <1>8. \A k \in Keys : Moved(k)' = Moved(k)
    BY <1>4, LegCalls DEF Moved
  <1>9. QED
    BY <1>2, <1>5, <1>6, <1>7, <1>8 DEF BookInv

LEMMA SecondLegKeepsBook ==
    ASSUME MovementInv, BookInv, NEW m \in Movements, SecondLeg(m)
    PROVE  BookInv'
  <1>1. MovementTypeOK /\ MovementTypeOK'
    BY SecondLegKeepsInv DEF MovementInv
  <1>2. /\ outcome[<<m, 2>>] = "none" /\ stage[m] = "first"
        /\ outcome' = [outcome EXCEPT ![<<m, 2>>] = "pending"]
        /\ key' = [key EXCEPT ![<<m, 2>>] = request[m].to]
        /\ operation' = [operation EXCEPT ![<<m, 2>>] = Increase(request[m].quantity)]
        /\ stage' = [stage EXCEPT ![m] = "second"]
        /\ UNCHANGED <<level, opening, request>>
    BY DEF MovementInv, LegInv, Leg, SecondLeg, Ask
  <1>3. Started' = Started
    BY <1>1, <1>2 DEF Started, MovementTypeOK
  <1>4. ASSUME NEW c \in Calls, NEW k \in Keys
        PROVE  Does(c, k)' = Does(c, k)
    <2>1. CASE c = <<m, 2>>
      BY <1>1, <1>2, <2>1 DEF Does, MovementTypeOK
    <2>2. CASE c # <<m, 2>>
      BY <1>1, <1>2, <2>2 DEF Does, MovementTypeOK
    <2>3. QED
      BY <2>1, <2>2
  <1>5. ASSUME NEW n \in Movements PROVE AsRequested(n)'
    <2>1. CASE n = m
      <3>1. /\ key'[<<m, 2>>] = request[m].to
            /\ operation'[<<m, 2>>] = Increase(request[m].quantity)
            /\ outcome'[<<m, 1>>] = outcome[<<m, 1>>] /\ key'[<<m, 1>>] = key[<<m, 1>>]
            /\ operation'[<<m, 1>>] = operation[<<m, 1>>]
        BY <1>1, <1>2, LegCalls DEF MovementTypeOK
      <3>2. QED
        BY <1>2, <2>1, <3>1 DEF BookInv, AsRequested
    <2>2. CASE n # m
      <3>1. \A i \in {1, 2} : /\ outcome'[<<n, i>>] = outcome[<<n, i>>]
                              /\ key'[<<n, i>>] = key[<<n, i>>]
                              /\ operation'[<<n, i>>] = operation[<<n, i>>]
        BY <1>1, <1>2, <2>2, OtherCalls DEF MovementTypeOK
      <3>2. QED
        BY <1>2, <3>1 DEF BookInv, AsRequested
    <2>3. QED
      BY <2>1, <2>2
  <1>6. QED
    BY <1>1, <1>2, <1>3, <1>4, <1>5, NothingMoved

LEMMA EndKeepsBook ==
    ASSUME MovementInv, BookInv, NEW m \in Movements, Record(m) \/ Throw(m)
    PROVE  BookInv'
  <1>1. /\ UNCHANGED <<level, opening, outcome, key, operation, request>>
        /\ stage[m] # "new"
        /\ stage' = [stage EXCEPT ![m] = "recorded"] \/ stage' = [stage EXCEPT ![m] = "failed"]
    BY DEF Record, Throw, vars
  <1>2. Started' = Started
    BY <1>1 DEF Started, MovementInv, MovementTypeOK
  <1>3. \A n \in Movements : AsRequested(n)'
    BY <1>1 DEF BookInv, AsRequested
  <1>4. \A c \in Calls, k \in Keys : Does(c, k)' = Does(c, k)
    BY <1>1 DEF Does
  <1>5. QED
    BY <1>1, <1>2, <1>3, <1>4, NothingMoved DEF MovementInv

\* An applied mutation adds to one level what it adds to its movement.
LEMMA ApplyKeepsBook ==
    ASSUME MovementInv, BookInv, NEW c \in Calls, Apply(c), UNCHANGED movementOnly
    PROVE  BookInv'
  <1>1. MovementTypeOK /\ MovementTypeOK'
    BY StockStepKeepsInv DEF MovementInv, StockStep
  <1>2. /\ outcome[c] = "pending" /\ outcome' = [outcome EXCEPT ![c] = "done"]
        /\ level' = [level EXCEPT ![key[c]] = Updated(@, operation[c])]
        /\ ~ Refused(level[key[c]], operation[c])
        /\ UNCHANGED <<key, operation, request, stage, opening>>
    BY DEF Apply, movementOnly
  <1>3. PICK m \in Movements, j \in {1, 2} : c = <<m, j>>
    BY MovementCalls
  <1>4. m \in Started
    BY <1>2, <1>3 DEF MovementInv, LegInv, Leg, Started
  <1>5. Started' = Started /\ IsFiniteSet(Started)
    BY <1>2 DEF Started, BookInv
  <1>6. \A n \in Movements : AsRequested(n)'
    <2>1. \A d \in Calls : outcome'[d] # "none" => outcome[d] # "none"
      BY <1>1, <1>2 DEF MovementTypeOK
    <2>2. QED
      BY <1>2, <2>1, LegCalls DEF BookInv, AsRequested
  <1>7. Change(operation[c]) \in Int
    BY <1>1 DEF Change, MovementTypeOK, Operation
  <1>8. ASSUME NEW k \in Keys
        PROVE  level'[k].onHand = opening'[k] + SumFunctionOnSet(Moved(k)', Started')
    <2> DEFINE d == IF key[c] = k THEN Change(operation[c]) ELSE 0
    <2>1. level'[k].onHand = level[k].onHand + d
      <3>1. CASE key[c] = k
        <4>1. level[k] \in Level /\ operation[c] \in Operation
          BY <1>1 DEF MovementTypeOK
        <4>2. level'[k] = Updated(level[k], operation[c])
          BY <1>1, <1>2, <3>1 DEF MovementTypeOK
        <4>3. Updated(level[k], operation[c]).onHand = level[k].onHand + Change(operation[c])
          BY <1>2, <3>1, <4>1, LevelChanges
        <4>4. QED
          BY <3>1, <4>2, <4>3
      <3>2. CASE key[c] # k
        <4>1. level'[k] = level[k] /\ level[k].onHand \in Int
          BY <1>1, <1>2, <3>2 DEF MovementTypeOK, Level
        <4>2. QED
          BY <3>2, <4>1
      <3>3. QED
        BY <3>1, <3>2
    <2>2. Does(c, k) = 0 /\ Does(c, k)' = d
      BY <1>1, <1>2 DEF Does, MovementTypeOK
    <2>3. \A b \in Calls \ {c} : Does(b, k)' = Does(b, k)
      BY <1>1, <1>2 DEF Does, MovementTypeOK
    <2> DEFINE f == Moved(k)
               h == Moved(k)'
    <2>4. d \in Int
      BY <1>7
    <2> HIDE DEF d
    <2>5. h[m] - f[m] = d /\ h[m] \in Int
      <3>1. <<m, 1>> \in Calls /\ <<m, 2>> \in Calls /\ <<m, 1>> # <<m, 2>>
        BY LegCalls
      <3>2. Does(<<m, 1>>, k) \in Int /\ Does(<<m, 2>>, k) \in Int
        BY <1>1, <3>1, DoesIsInt
      <3>3. /\ f[m] = Does(<<m, 1>>, k) + Does(<<m, 2>>, k)
            /\ h[m] = Does(<<m, 1>>, k)' + Does(<<m, 2>>, k)'
        BY DEF Moved
      <3>4. CASE j = 1
        BY <1>3, <2>2, <2>3, <2>4, <3>1, <3>2, <3>3, <3>4
      <3>5. CASE j = 2
        BY <1>3, <2>2, <2>3, <2>4, <3>1, <3>2, <3>3, <3>5
      <3>6. QED
        BY <3>4, <3>5
    <2>6. \A n \in Started \ {m} : h[n] = f[n]
      <3>1. TAKE n \in Started \ {m}
      <3>2. n \in Movements
        BY DEF Started
      <3>3. <<n, 1>> \in Calls \ {c} /\ <<n, 2>> \in Calls \ {c}
        BY <1>3, <3>2, OtherCalls
      <3>4. QED
        BY <2>3, <3>2, <3>3 DEF Moved
    <2>7. \A n \in Started : f[n] \in Int
      BY <1>1, MovedIsInt DEF Started
    <2> HIDE DEF f, h
    <2>8. SumFunctionOnSet(h, Started) = SumFunctionOnSet(f, Started) + (h[m] - f[m])
      BY <1>4, <1>5, <2>5, <2>6, <2>7, SumChange
    <2>9. /\ level[k].onHand = opening[k] + SumFunctionOnSet(f, Started)
          /\ SumFunctionOnSet(f, Started) \in Int /\ opening[k] \in Int
      BY <1>1, <1>5, <2>7, SumIsInt DEF f, BookInv, MovementTypeOK
    <2>10. opening'[k] = opening[k] /\ SumFunctionOnSet(Moved(k)', Started') = SumFunctionOnSet(h, Started)
      BY <1>2, <1>5 DEF h
    <2>11. QED
      BY <2>1, <2>4, <2>5, <2>8, <2>9, <2>10
  <1>9. QED
    BY <1>5, <1>6, <1>8 DEF BookInv

LEMMA StockStepKeepsBook ==
    ASSUME MovementInv, BookInv, NEW c \in Calls, StockStep(c)
    PROVE  BookInv'
  <1>1. CASE Apply(c)
    BY <1>1, ApplyKeepsBook DEF StockStep
  <1>2. CASE Open(c) \/ Reject(c)
    <2>1. /\ UNCHANGED <<level, key, operation, request, stage, opening>>
          /\ outcome[c] = "pending"
          /\ outcome' = outcome \/ outcome' = [outcome EXCEPT ![c] = "insufficient"]
                \/ outcome' = [outcome EXCEPT ![c] = "notFound"]
      BY <1>2 DEF Open, Reject, StockStep, movementOnly
    <2>2. \A d \in Calls : /\ outcome'[d] # "none" => outcome[d] # "none"
                           /\ outcome'[d] = "done" <=> outcome[d] = "done"
      BY <2>1 DEF MovementInv, MovementTypeOK
    <2>3. \A n \in Movements : AsRequested(n)'
      BY <2>1, <2>2, LegCalls DEF BookInv, AsRequested
    <2>4. \A d \in Calls, k \in Keys : Does(d, k)' = Does(d, k)
      BY <2>1, <2>2 DEF Does
    <2>5. Started' = Started
      BY <2>1 DEF Started
    <2>6. QED
      BY <2>1, <2>3, <2>4, <2>5, NothingMoved DEF MovementInv
  <1>3. QED
    BY <1>1, <1>2 DEF StockStep

LEMMA BookKept == MovementInv /\ BookInv /\ [MovementNext]_movementVars => BookInv'
  <1> SUFFICES ASSUME MovementInv, BookInv, [MovementNext]_movementVars PROVE BookInv'
    OBVIOUS
  <1>1. CASE UNCHANGED movementVars
    <2>1. UNCHANGED <<level, key, operation, outcome, request, stage, opening>>
      BY <1>1 DEF movementVars, vars, movementOnly
    <2>2. \A n \in Movements : AsRequested(n)'
      BY <2>1 DEF BookInv, AsRequested
    <2>3. \A c \in Calls, k \in Keys : Does(c, k)' = Does(c, k)
      BY <2>1 DEF Does
    <2>4. Started' = Started
      BY <2>1 DEF Started
    <2>5. QED
      BY <2>1, <2>2, <2>3, <2>4, NothingMoved DEF MovementInv
  <1>2. QED
    BY <1>1, MovementRequests, StartKeepsBook, SecondLegKeepsBook, EndKeepsBook,
       StockStepKeepsBook DEF MovementNext

\* What a finished movement has done is what its record says.
LEMMA RecordSaysWhatMoved ==
    ASSUME MovementInv, BookInv, NEW m \in Movements, NEW k \in Keys
    PROVE  /\ stage[m] = "failed" => Moved(k)[m] = 0
           /\ stage[m] = "recorded" => Moved(k)[m] = Recorded(request[m], k)
           /\ Recorded(request[m], k) \in Int
  <1>1. Leg(m) /\ AsRequested(m)
    BY DEF MovementInv, LegInv, BookInv
  <1> DEFINE r == request[m]
  <1>2. /\ r.type \in RequestTypes /\ r.quantity \in Int
        /\ r.quantity < 0 => r.type = "adjustment"
    BY DEF MovementInv, MovementTypeOK, Request
  <1>3. Moved(k)[m] = Does(<<m, 1>>, k) + Does(<<m, 2>>, k)
    BY DEF Moved
  <1> HIDE DEF r
  <1>4. ASSUME stage[m] = "failed"
        PROVE  Moved(k)[m] = 0
    <2>1. outcome[<<m, 1>>] # "done" /\ outcome[<<m, 2>>] # "done"
      BY <1>1, <1>4 DEF Leg
    <2>2. Does(<<m, 1>>, k) = 0 /\ Does(<<m, 2>>, k) = 0
      BY <2>1 DEF Does
    <2>3. QED
      BY <1>3, <2>2
  <1>5. ASSUME stage[m] = "recorded"
        PROVE  Moved(k)[m] = Recorded(r, k)
    <2>1. Does(<<m, 1>>, k) = IF r.at = k THEN Change(FirstLeg(r)) ELSE 0
      BY <1>1, <1>5 DEF Leg, AsRequested, Does, r
    <2>2. Does(<<m, 2>>, k) =
             IF r.type = "transfer" /\ r.to = k THEN Change(Increase(r.quantity)) ELSE 0
      BY <1>1, <1>5 DEF Leg, AsRequested, Does, r
    <2>3. Change(Increase(r.quantity)) = r.quantity
      BY DEF Change, Increase
    <2>4. Change(FirstLeg(r)) =
             CASE r.type \in {"receive", "return", "adjustment"} -> r.quantity
               [] r.type \in {"issue", "transfer"} -> -r.quantity
               [] OTHER -> 0
      BY <1>2 DEF Change, FirstLeg, Increase, Decrease, RequestTypes
    <2>5. QED
      BY <1>2, <1>3, <2>1, <2>2, <2>3, <2>4 DEF Recorded, RequestTypes
  <1>6. Recorded(r, k) \in Int
    BY <1>2 DEF Recorded, RequestTypes
  <1>7. QED
    BY <1>4, <1>5, <1>6 DEF r

LEMMA BookBalances == MovementInv /\ BookInv => LedgerBalances
  <1> SUFFICES ASSUME MovementInv, BookInv,
                      \A m \in Movements : stage[m] \in {"new", "recorded", "failed"},
                      NEW k \in Keys
               PROVE  level[k].onHand = opening[k] +
                          SumFunctionOnSet([m \in Movements |-> Recorded(request[m], k)],
                                           {m \in Movements : stage[m] = "recorded"})
    BY DEF LedgerBalances
  <1> DEFINE Records == {m \in Movements : stage[m] = "recorded"}
             f == Moved(k)
             h == [m \in Movements |-> Recorded(request[m], k)]
  <1>1. Records \in SUBSET Started /\ IsFiniteSet(Started) /\ IsFiniteSet(Records)
    <2>1. Records \in SUBSET Started /\ IsFiniteSet(Started)
      BY DEF Started, BookInv
    <2>2. QED
      BY <2>1, FS_Subset
  <1>2. \A m \in Started : f[m] \in Int
    BY MovedIsInt DEF MovementInv, Started
  <1>3. \A m \in Started \ Records : f[m] = 0
    BY RecordSaysWhatMoved DEF Started
  <1>4. \A m \in Records : f[m] \in Int /\ h[m] = f[m]
    BY <1>1, <1>2, RecordSaysWhatMoved
  <1>5. level[k].onHand = opening[k] + SumFunctionOnSet(f, Started)
    BY DEF BookInv
  <1> HIDE DEF f, h, Records
  <1>6. SumFunctionOnSet(f, Started) = SumFunctionOnSet(f, Records)
    BY <1>1, <1>2, <1>3, SumOfTheRest
  <1>7. SumFunctionOnSet(h, Records) = SumFunctionOnSet(f, Records)
    BY <1>1, <1>4, SumsAgree
  <1>8. QED
    BY <1>5, <1>6, <1>7 DEF h, Records

\* When no movement is under way, the records say how all stock came to be
\* where it is, whatever movements ran side by side and failed before.
THEOREM RecordsBalance == MovementSpec => []LedgerBalances
  <1>1. MovementInit => MovementInv /\ BookInv
    BY InitMovementInv, InitBookInv
  <1>2. MovementInv /\ BookInv /\ [MovementNext]_movementVars => (MovementInv /\ BookInv)'
    BY MovementStepKeepsInv, BookKept
  <1>3. QED
    BY <1>1, <1>2, BookBalances, PTL DEF MovementSpec

-----------------------------------------------------------------------------
\* Counting.

LEMMA LineNumbersAre == LineNumbers = 1..Len(Lines) /\ Len(Lines) \in Nat
  BY CountLines DEF LineNumbers

LEMMA LineMovements ==
    \A a \in CountCalls, i \in LineNumbers : <<a, i>> \in Movements
  BY CountMovements

\* The smallest of a set of line numbers.
LEMMA MinIsLeast ==
    ASSUME NEW S \in SUBSET LineNumbers, S # {}
    PROVE  Min(S) \in S /\ \A i \in S : Min(S) <= i
  <1> DEFINE R == OpToRel(<, Nat)
  <1>1. S \subseteq Nat
    BY LineNumbersAre
  <1>2. IsWellFoundedOn(R, Nat)
    BY NatLessThanWellFounded
  <1>3. \A x, y \in Nat : <<y, x>> \in R <=> y < x
    BY DEF OpToRel
  <1> HIDE DEF R
  <1>4. PICK x \in S : \A y \in S : ~ (<<y, x>> \in R)
    BY <1>1, <1>2, WFMin
  <1>5. \A y \in S : x <= y
    <2>1. TAKE y \in S
    <2>2. x \in Nat /\ y \in Nat
      BY <1>1
    <2>3. ~ (y < x)
      BY <1>3, <1>4, <2>2
    <2>4. QED
      BY <2>2, <2>3
  <1>6. QED
    BY <1>5 DEF Min

\* A movement that is recorded stays so.
LEMMA RecordedStays ==
    ASSUME MovementInv, NEW m \in Movements, stage[m] = "recorded",
           \/ UNCHANGED stage
           \/ \E n \in Movements :
                 (\E r \in Request : Start(n, r)) \/ SecondLeg(n) \/ Record(n) \/ Throw(n)
           \/ \E c \in Calls : StockStep(c)
    PROVE  stage'[m] = "recorded"
  <1>1. stage \in [Movements -> Stages]
    BY DEF MovementInv, MovementTypeOK
  <1>2. CASE UNCHANGED stage \/ \E c \in Calls : StockStep(c)
    BY <1>2 DEF movementOnly, StockStep
  <1>3. CASE \E n \in Movements :
                (\E r \in Request : Start(n, r)) \/ SecondLeg(n) \/ Record(n) \/ Throw(n)
    BY <1>1, <1>3 DEF Start, SecondLeg, Record, Throw
  <1>4. QED
    BY <1>2, <1>3

LEMMA VarianceIsInt ==
    ASSUME NEW c \in Count, NEW i \in LineNumbers
    PROVE  Variance(c, i) \in Int
  BY DEF Count, Uncounted, Variance

\* The next line a completion adjusts, and what it asks for.
LEMMA AdjustedLine ==
    ASSUME CountingTypeOK, NEW a \in CountCalls, Adjust(a)
    PROVE  LET i == Min(ToAdjust(a))
               r == [type |-> "adjustment", at |-> Lines[i], to |-> Lines[i],
                     quantity |-> Variance(seen[a], i)]
           IN  /\ i \in LineNumbers /\ line' = [line EXCEPT ![a] = i]
               /\ \A j \in ToAdjust(a) : i <= j
               /\ r \in Request /\ <<a, i>> \in Movements /\ Start(<<a, i>>, r)
  <1> DEFINE i == Min(ToAdjust(a))
  <1>1. i \in ToAdjust(a) /\ \A j \in ToAdjust(a) : i <= j
    BY MinIsLeast DEF Adjust, ToAdjust
  <1>2. i \in LineNumbers /\ Lines[i] \in Keys
    BY <1>1, CountLines DEF ToAdjust, LineNumbers
  <1>3. Variance(seen[a], i) \in Int
    BY <1>2, VarianceIsInt DEF CountingTypeOK
  <1>4. <<a, i>> \in Movements
    BY <1>2, LineMovements
  <1> HIDE DEF i
  <1>5. [type |-> "adjustment", at |-> Lines[i], to |-> Lines[i],
         quantity |-> Variance(seen[a], i)] \in Request
    BY <1>2, <1>3 DEF Request, RequestTypes
  <1>6. QED
    BY <1>1, <1>2, <1>4, <1>5 DEF Adjust, i

\* Every step of a count is one of its own or one of the movement engine.
LEMMA MovementPart ==
    ASSUME CountingTypeOK, [CountingNext]_countVars
    PROVE  \/ SnapshotLine
           \/ UNCHANGED movementVars
           \/ \E n \in Movements :
                 (\E r \in Request : Start(n, r)) \/ SecondLeg(n) \/ Record(n) \/ Throw(n)
           \/ \E c \in Calls : StockStep(c)
  <1>1. CASE UNCHANGED countVars
    BY <1>1 DEF countVars
  <1>2. CASE SaveDraft
    BY <1>2 DEF SaveDraft
  <1>3. ASSUME NEW a \in CountCalls, NEW r \in CountAsks, CallCount(a, r)
        PROVE  UNCHANGED movementVars
    BY <1>3 DEF CallCount
  <1>4. ASSUME NEW a \in CountCalls,
               RejectCall(a) \/ SaveStarted(a) \/ SaveRecorded(a) \/ AdjustFailed(a)
                   \/ SaveCompleted(a)
        PROVE  UNCHANGED movementVars
    BY <1>4 DEF RejectCall, SaveStarted, SaveRecorded, AdjustFailed, SaveCompleted, SaveCount
  <1>5. ASSUME NEW a \in CountCalls, Adjust(a)
        PROVE  \E n \in Movements, r \in Request : Start(n, r)
    BY <1>5, AdjustedLine
  <1>6. ASSUME NEW m \in Direct, NEW r \in Requests, StartDirect(m, r)
        PROVE  \E n \in Movements, q \in Request : Start(n, q)
    BY <1>6, MovementRequests DEF Direct, StartDirect
  <1>7. QED
    BY <1>1, <1>2, <1>3, <1>4, <1>5, <1>6 DEF CountingNext, CountStep, EngineStep

LEMMA CountingKeepsMovementInv ==
    ASSUME MovementInv, CountingTypeOK, [CountingNext]_countVars
    PROVE  MovementInv'
  <1>1. CASE SnapshotLine
    <2>1. Lines[Len(snapshot) + 1] \in Keys
      BY <1>1, CountLines, LineNumbersAre DEF SnapshotLine, CountingTypeOK
    <2>2. MovementTypeOK'
      BY <1>1, <2>1 DEF SnapshotLine, MovementInv, MovementTypeOK, movementOnly
    <2>3. LegInv'
      BY <1>1 DEF SnapshotLine, MovementInv, LegInv, Leg, movementOnly
    <2>4. QED
      BY <2>2, <2>3 DEF MovementInv
  <1>2. CASE UNCHANGED movementVars
    BY <1>2, MovementStepKeepsInv
  <1>3. QED
    BY <1>1, <1>2, MovementPart, StartKeepsInv, SecondLegKeepsInv, EndKeepsInv,
       StockStepKeepsInv

LEMMA InitCountingInv == CountingInit => CountingInv
  <1> SUFFICES ASSUME CountingInit PROVE CountingInv
    OBVIOUS
  <1>1. MovementInv
    BY InitMovementInv DEF CountingInit
  <1>2. count \in Count /\ snapshot \in Seq(Nat)
    BY DEF CountingInit, Count, Uncounted
  <1>3. (CHOOSE q \in CountAsks : TRUE) \in CountAsks
    BY CountRequests
  <1>4. CountingTypeOK
    BY <1>1, <1>2, <1>3 DEF CountingInit, CountingTypeOK, MovementInv
  <1>5. CallInv /\ AdjustInv /\ CurrentInv
    BY DEF CountingInit, CallInv, AdjustInv, CurrentInv, Working
  <1>6. QED
    BY <1>1, <1>4, <1>5 DEF CountingInv

LEMMA CountingTypesKept ==
    ASSUME MovementInv, MovementInv', CountingTypeOK, [CountingNext]_countVars
    PROVE  CountingTypeOK'
  <1> USE DEF CountingTypeOK
  <1>1. MovementTypeOK /\ MovementTypeOK'
    BY DEF MovementInv
  <1>2. CASE UNCHANGED countOnly
    BY <1>1, <1>2 DEF countOnly
  <1>3. CASE SnapshotLine
    <2>1. level[Lines[Len(snapshot) + 1]].onHand \in Nat
      <3>1. Lines[Len(snapshot) + 1] \in Keys
        BY <1>3, CountLines, LineNumbersAre DEF SnapshotLine
      <3>2. level[Lines[Len(snapshot) + 1]] \in Level
        BY <1>1, <3>1 DEF MovementTypeOK
      <3>3. QED
        BY <3>2 DEF Level
    <2>2. snapshot' \in Seq(Nat)
      BY <1>3, <2>1 DEF SnapshotLine
    <2>3. QED
      BY <1>1, <1>3, <2>2 DEF SnapshotLine
  <1>4. CASE SaveDraft
    <2>1. snapshot \in [LineNumbers -> Nat]
      BY <1>4, LineNumbersAre DEF SaveDraft
    <2>2. count' \in Count
      BY <1>4, <2>1 DEF SaveDraft, Count
    <2>3. QED
      BY <1>1, <1>4, <2>2 DEF SaveDraft
  <1>5. ASSUME NEW a \in CountCalls, NEW r \in CountAsks, CallCount(a, r)
        PROVE  CountingTypeOK'
    BY <1>1, <1>5 DEF CallCount
  <1>6. ASSUME NEW a \in CountCalls, RejectCall(a) \/ AdjustFailed(a)
        PROVE  CountingTypeOK'
    BY <1>1, <1>6 DEF RejectCall, AdjustFailed
  <1>7. ASSUME NEW a \in CountCalls, SaveStarted(a) \/ SaveRecorded(a) \/ SaveCompleted(a)
        PROVE  CountingTypeOK'
    <2>1. /\ UNCHANGED <<snapshot, ask, seen, line, overlapped>>
          /\ at' = [at EXCEPT ![a] = "done"]
      BY <1>7 DEF SaveStarted, SaveRecorded, SaveCompleted, SaveCount
    <2>2. seen[a] \in Count /\ ask[a].line \in LineNumbers /\ ask[a].quantity \in Nat
      BY CountRequests
    <2>3. count' \in Count
      <3>1. CASE SaveStarted(a) \/ SaveCompleted(a)
        BY <2>2, <3>1 DEF SaveStarted, SaveCompleted, SaveCount, Count
      <3>2. CASE SaveRecorded(a)
        <4>1. [seen[a].counted EXCEPT ![ask[a].line] = ask[a].quantity]
                  \in [LineNumbers -> Nat \cup {Uncounted}]
          BY <2>2 DEF Count
        <4>2. count' = [seen[a] EXCEPT !.counted =
                            [seen[a].counted EXCEPT ![ask[a].line] = ask[a].quantity]]
          BY <2>2, <3>2 DEF SaveRecorded, SaveCount, Count
        <4>3. QED
          BY <2>2, <4>1, <4>2 DEF Count
      <3>3. QED
        BY <1>7, <3>1, <3>2
    <2>4. QED
      BY <1>1, <2>1, <2>3
  <1>8. ASSUME NEW a \in CountCalls, Adjust(a)
        PROVE  CountingTypeOK'
    <2>1. line' \in [CountCalls -> {0} \cup LineNumbers]
      BY <1>8, AdjustedLine
    <2>2. QED
      BY <1>1, <1>8, <2>1 DEF Adjust
  <1>9. QED
    BY <1>2, <1>3, <1>4, <1>5, <1>6, <1>7, <1>8
       DEF CountingNext, CountStep, EngineStep, StartDirect, countVars

LEMMA CallsKept ==
    ASSUME CountingTypeOK, CallInv, CurrentInv, [CountingNext]_countVars
    PROVE  CallInv' /\ CurrentInv'
  <1> USE DEF CallInv, CurrentInv, Working, CountingTypeOK
  <1>1. CASE UNCHANGED countOnly
    BY <1>1 DEF countOnly
  <1>2. CASE SnapshotLine
    BY <1>2 DEF SnapshotLine
  <1>3. CASE SaveDraft
    BY <1>3 DEF SaveDraft, Count
  <1>4. ASSUME NEW a \in CountCalls, NEW r \in CountAsks, CallCount(a, r)
        PROVE  CallInv' /\ CurrentInv'
    BY <1>4 DEF CallCount
  <1>5. ASSUME NEW a \in CountCalls, RejectCall(a) \/ AdjustFailed(a)
        PROVE  CallInv' /\ CurrentInv'
    BY <1>5 DEF RejectCall, AdjustFailed
  <1>6. ASSUME NEW a \in CountCalls, SaveStarted(a) \/ SaveRecorded(a) \/ SaveCompleted(a)
        PROVE  CallInv' /\ CurrentInv'
    <2>1. /\ UNCHANGED <<snapshot, ask, seen, line, overlapped>>
          /\ at' = [at EXCEPT ![a] = "done"] /\ Working(a)
      BY <1>6 DEF SaveStarted, SaveRecorded, SaveCompleted, SaveCount, Admitted, AtLoop
    <2>2. count'.status # "none"
      BY <1>6 DEF SaveStarted, SaveRecorded, SaveCompleted, SaveCount, Admitted, AtLoop,
                  Admits, Count
    <2>3. QED
      BY <2>1, <2>2
  <1>7. ASSUME NEW a \in CountCalls, Adjust(a)
        PROVE  CallInv' /\ CurrentInv'
    <2>1. Working(a) /\ at' = [at EXCEPT ![a] = "adjusting"]
          /\ UNCHANGED <<snapshot, count, ask, seen, overlapped>>
      BY <1>7 DEF Adjust, AtLoop, Admitted
    <2>2. \A b \in CountCalls \ {a} : line'[b] = line[b]
      BY <1>7, AdjustedLine
    <2>3. QED
      BY <2>1, <2>2
  <1>8. QED
    BY <1>1, <1>2, <1>3, <1>4, <1>5, <1>6, <1>7
       DEF CountingNext, CountStep, EngineStep, StartDirect, countVars

LEMMA AdjustKept ==
    ASSUME MovementInv, CountingTypeOK, CallInv, AdjustInv, [CountingNext]_countVars
    PROVE  AdjustInv'
  <1>1. \A m \in Movements : stage[m] = "recorded" => stage'[m] = "recorded"
    BY MovementPart, RecordedStays DEF SnapshotLine, movementVars, movementOnly
  <1>2. \A a \in CountCalls, i \in LineNumbers :
            stage[<<a, i>>] = "recorded" => stage'[<<a, i>>] = "recorded"
    BY <1>1, LineMovements
  <1>3. ASSUME NEW b \in CountCalls,
               at'[b] = at[b], ask'[b] = ask[b], seen'[b] = seen[b], line'[b] = line[b]
        PROVE  /\ at'[b] = "adjusting" =>
                    /\ ask'[b].op = "complete" /\ line'[b] \in LineNumbers
                    /\ \A i \in LineNumbers :
                          i < line'[b] /\ Variance(seen'[b], i) # 0 =>
                              stage'[<<b, i>>] = "recorded"
               /\ at'[b] = "done" /\ ask'[b].op = "complete" =>
                    \A i \in LineNumbers :
                        i <= Len(Lines) /\ Variance(seen'[b], i) # 0 =>
                            stage'[<<b, i>>] = "recorded"
    BY <1>2, <1>3 DEF AdjustInv, Adjusted
  <1>4. CASE UNCHANGED <<at, ask, seen, line>>
    BY <1>3, <1>4 DEF AdjustInv, Adjusted
  <1>5. ASSUME NEW a \in CountCalls,
               \/ \E q \in CountAsks : CallCount(a, q)
               \/ RejectCall(a) \/ AdjustFailed(a) \/ SaveStarted(a) \/ SaveRecorded(a)
        PROVE  AdjustInv'
    <2>1. /\ \A b \in CountCalls \ {a} : /\ at'[b] = at[b] /\ ask'[b] = ask[b]
                                         /\ seen'[b] = seen[b] /\ line'[b] = line[b]
          /\ at'[a] \in {"read", "failed", "done"}
          /\ at'[a] = "done" => ask'[a].op # "complete"
      BY <1>5 DEF CallCount, RejectCall, AdjustFailed, SaveStarted, SaveRecorded, SaveCount,
                  Admitted, CountingTypeOK
    <2>2. QED
      BY <1>3, <2>1 DEF AdjustInv, Adjusted
  <1>6. ASSUME NEW a \in CountCalls, Adjust(a)
        PROVE  AdjustInv'
    <2> DEFINE n == Min(ToAdjust(a))
    <2>1. /\ n \in LineNumbers /\ line' = [line EXCEPT ![a] = n]
          /\ \A j \in ToAdjust(a) : n <= j
      BY <1>6, AdjustedLine
    <2> HIDE DEF n
    <2>2. at' = [at EXCEPT ![a] = "adjusting"] /\ ask' = ask /\ seen' = seen
      BY <1>6 DEF Adjust
    <2>3. \A b \in CountCalls \ {a} : at'[b] = at[b] /\ line'[b] = line[b]
      BY <2>1, <2>2 DEF CountingTypeOK
    <2>4. at'[a] = "adjusting" /\ line'[a] = n /\ ask[a].op = "complete"
      BY <1>6, <2>1, <2>2 DEF CountingTypeOK, Adjust, AtLoop, Admitted, AdjustInv
    <2>5. ASSUME NEW i \in LineNumbers, i < n, Variance(seen[a], i) # 0
          PROVE  stage'[<<a, i>>] = "recorded"
      <3>1. i \notin ToAdjust(a)
        BY <2>1, <2>5, LineNumbersAre
      <3>2. i <= line[a]
        BY <2>5, <3>1, LineNumbersAre DEF ToAdjust, CountingTypeOK
      <3>3. CASE at[a] = "read"
        BY <3>2, <3>3, LineNumbersAre DEF CallInv
      <3>4. CASE at[a] = "adjusting" /\ stage[<<a, line[a]>>] = "recorded"
        <4>1. CASE i < line[a]
          BY <1>2, <2>5, <3>4, <4>1 DEF AdjustInv
        <4>2. CASE i = line[a]
          BY <1>2, <3>4, <4>2
        <4>3. QED
          BY <3>2, <4>1, <4>2, LineNumbersAre DEF CountingTypeOK
      <3>5. QED
        BY <1>6, <3>3, <3>4 DEF Adjust, AtLoop, Admitted
    <2>6. QED
      BY <1>3, <2>1, <2>2, <2>3, <2>4, <2>5 DEF AdjustInv, Adjusted
  <1>7. ASSUME NEW a \in CountCalls, SaveCompleted(a)
        PROVE  AdjustInv'
    <2>1. ToAdjust(a) = {} /\ AtLoop(a)
          /\ at' = [at EXCEPT ![a] = "done"] /\ UNCHANGED <<ask, seen, line, stage>>
      BY <1>7 DEF SaveCompleted, SaveCount, movementVars, movementOnly
    <2>2. ASSUME NEW i \in LineNumbers, Variance(seen[a], i) # 0
          PROVE  stage[<<a, i>>] = "recorded"
      <3>1. i <= line[a]
        BY <2>1, <2>2, LineNumbersAre DEF ToAdjust, CountingTypeOK
      <3>2. CASE at[a] = "read"
        BY <3>1, <3>2, LineNumbersAre DEF CallInv
      <3>3. CASE at[a] = "adjusting" /\ stage[<<a, line[a]>>] = "recorded"
        <4>1. CASE i < line[a]
          BY <2>2, <3>3, <4>1 DEF AdjustInv
        <4>2. CASE i = line[a]
          BY <3>3, <4>2
        <4>3. QED
          BY <3>1, <4>1, <4>2, LineNumbersAre DEF CountingTypeOK
      <3>4. QED
        BY <2>1, <3>2, <3>3 DEF AtLoop, Admitted
    <2>3. \A b \in CountCalls \ {a} : at'[b] = at[b]
      BY <2>1 DEF CountingTypeOK
    <2>4. at'[a] = "done"
      BY <2>1 DEF CountingTypeOK
    <2>5. QED
      BY <1>3, <2>1, <2>2, <2>3, <2>4 DEF AdjustInv, Adjusted
  <1>8. QED
    BY <1>4, <1>5, <1>6, <1>7
       DEF CountingNext, CountStep, EngineStep, StartDirect, SnapshotLine, SaveDraft,
           countVars, countOnly

\* Beside the movements, a count keeps its copies, its lines and its order.
THEOREM CountingInvariant == CountingSpec => []CountingInv
  <1>1. CountingInv /\ [CountingNext]_countVars => CountingInv'
    BY CountingKeepsMovementInv, CountingTypesKept, CallsKept, AdjustKept DEF CountingInv
  <1>2. QED
    BY <1>1, InitCountingInv, PTL DEF CountingSpec

\* The count, its calls and the movements they make are always well typed.
THEOREM CountingTypes == CountingSpec => []CountingTypeOK
  <1>1. CountingInv => CountingTypeOK
    BY DEF CountingInv
  <1>2. QED
    BY <1>1, CountingInvariant, PTL

\* A completion that was saved has recorded an adjustment of every line that
\* varied, whatever else ran, overlapped or failed meanwhile.
THEOREM CompletionsAdjustAll == CountingSpec => []CompletionAdjustsAll
  <1>1. CountingInv => CompletionAdjustsAll
    <2>1. SUFFICES ASSUME CountingInv, NEW a \in CountCalls,
                          ask[a].op = "complete", at[a] = "done",
                          NEW i \in LineNumbers, Variance(seen[a], i) # 0
                   PROVE  stage[<<a, i>>] = "recorded"
      BY DEF CompletionAdjustsAll
    <2>2. i <= Len(Lines)
      BY LineNumbersAre
    <2>3. QED
      BY <2>1, <2>2 DEF CountingInv, AdjustInv, Adjusted
  <1>2. QED
    BY <1>1, CountingInvariant, PTL

\* A movement that fails has changed no stock, those of a count included.
THEOREM CountedFailuresMoveNothing == CountingSpec => []FailedMovesNothing
  <1>1. CountingInv => FailedMovesNothing
    BY DEF CountingInv, MovementInv, LegInv, Leg, FailedMovesNothing
  <1>2. QED
    BY <1>1, CountingInvariant, PTL

LEMMA CountingKeepsBook ==
    ASSUME MovementInv, BookInv, CountingTypeOK, [CountingNext]_countVars
    PROVE  BookInv'
  <1>1. CASE SnapshotLine
    <2>1. UNCHANGED <<level, key, operation, outcome, request, stage, opening>>
      BY <1>1 DEF SnapshotLine, movementOnly
    <2>2. \A n \in Movements : AsRequested(n)'
      BY <2>1 DEF BookInv, AsRequested
    <2>3. \A c \in Calls, k \in Keys : Does(c, k)' = Does(c, k)
      BY <2>1 DEF Does
    <2>4. Started' = Started
      BY <2>1 DEF Started
    <2>5. QED
      BY <2>1, <2>2, <2>3, <2>4, NothingMoved DEF MovementInv
  <1>2. CASE UNCHANGED movementVars
    BY <1>2, BookKept
  <1>3. QED
    BY <1>1, <1>2, MovementPart, StartKeepsBook, SecondLegKeepsBook, EndKeepsBook,
       StockStepKeepsBook

\* The records account for all stock beside a count, too: what a completion
\* adjusts is recorded like every other movement.
THEOREM CountedRecordsBalance == CountingSpec => []LedgerBalances
  <1>1. CountingInit => BookInv
    BY InitBookInv DEF CountingInit
  <1>2. CountingInv /\ BookInv /\ [CountingNext]_countVars => BookInv'
    BY CountingKeepsBook DEF CountingInv
  <1>3. CountingInv /\ BookInv => LedgerBalances
    BY BookBalances DEF CountingInv
  <1>4. QED
    BY <1>1, <1>2, <1>3, CountingInvariant, PTL DEF CountingSpec

\* The count is changed by its creation and by the three saves of its calls.
LEMMA CountChanges ==
    ASSUME [CountingNext]_countVars, count' # count
    PROVE  \/ SaveDraft
           \/ \E a \in CountCalls : SaveStarted(a) \/ SaveRecorded(a) \/ SaveCompleted(a)
  BY DEF CountingNext, CountStep, CallCount, RejectCall, Adjust, AdjustFailed, SnapshotLine,
         EngineStep, StartDirect, countVars, countOnly

\* While no two calls of a count overlap, a completed count stays completed.
THEOREM CompletedStays == CountingSpec => CompletedIsFinal
  <1>1. ASSUME CountingInv, [CountingNext]_countVars
        PROVE  [count.status = "completed" /\ ~ overlapped => count'.status = "completed"]_countVars
    <2>1. SUFFICES ASSUME count.status = "completed", ~ overlapped, count' # count
                   PROVE  count'.status = "completed"
      OBVIOUS
    <2>2. CASE SaveDraft
      BY <2>1, <2>2 DEF SaveDraft
    <2>3. ASSUME NEW a \in CountCalls, SaveStarted(a) \/ SaveRecorded(a)
          PROVE  FALSE
      <3>1. seen[a] = count
        BY <1>1, <2>1, <2>3 DEF CountingInv, CurrentInv, Working, SaveStarted, SaveRecorded,
                                Admitted
      <3>2. QED
        BY <2>1, <2>3, <3>1 DEF SaveStarted, SaveRecorded, Admitted, Admits
    <2>4. ASSUME NEW a \in CountCalls, SaveCompleted(a)
          PROVE  count'.status = "completed"
      BY <1>1, <2>4 DEF CountingInv, CountingTypeOK, Count, SaveCompleted, SaveCount
    <2>5. QED
      BY <1>1, <2>1, <2>2, <2>3, <2>4, CountChanges
  <1>2. QED
    BY <1>1, CountingInvariant, PTL DEF CountingSpec, CompletedIsFinal

\* While no two calls of a count overlap, what is counted on a line changes
\* only by a call that records that line.
THEOREM RecordedIsKept == CountingSpec => RecordedCountsKept
  <1>1. ASSUME CountingInv, [CountingNext]_countVars
        PROVE  [\A i \in LineNumbers : count'.counted[i] # count.counted[i] /\ ~ overlapped =>
                   \E a \in CountCalls :
                       at[a] = "read" /\ at'[a] = "done" /\ ask[a].line = i]_countVars
    <2>1. SUFFICES ASSUME NEW i \in LineNumbers,
                          count'.counted[i] # count.counted[i], ~ overlapped
                   PROVE  \E a \in CountCalls :
                              at[a] = "read" /\ at'[a] = "done" /\ ask[a].line = i
      OBVIOUS
    <2>2. count \in Count /\ \A a \in CountCalls : seen[a] \in Count
      BY <1>1 DEF CountingInv, CountingTypeOK
    <2>3. \A a \in CountCalls : Working(a) => seen[a] = count
      BY <1>1, <2>1 DEF CountingInv, CurrentInv
    <2>4. ~ SaveDraft
      BY <2>1, <2>2 DEF SaveDraft, Count
    <2>5. ASSUME NEW a \in CountCalls, SaveStarted(a) \/ SaveCompleted(a)
          PROVE  FALSE
      <3>1. seen[a] = count
        BY <2>3, <2>5 DEF SaveStarted, SaveCompleted, Admitted, AtLoop, Working
      <3>2. count'.counted = count.counted
        BY <2>2, <2>5, <3>1 DEF SaveStarted, SaveCompleted, SaveCount, Count
      <3>3. QED
        BY <2>1, <3>2
    <2>6. ASSUME NEW a \in CountCalls, SaveRecorded(a)
          PROVE  at[a] = "read" /\ at'[a] = "done" /\ ask[a].line = i
      <3>1. at[a] = "read" /\ seen[a] = count
        BY <2>3, <2>6 DEF SaveRecorded, Admitted, Working
      <3>2. at'[a] = "done"
        BY <1>1, <2>6 DEF CountingInv, CountingTypeOK, SaveRecorded, SaveCount
      <3>3. count'.counted = [count.counted EXCEPT ![ask[a].line] = ask[a].quantity]
        BY <2>2, <2>6, <3>1 DEF SaveRecorded, SaveCount, Count
      <3>4. ask[a].line = i
        BY <2>1, <2>2, <3>3 DEF Count
      <3>5. QED
        BY <3>1, <3>2, <3>4
    <2>7. QED
      BY <1>1, <2>1, <2>4, <2>5, <2>6, CountChanges
  <1>2. QED
    BY <1>1, CountingInvariant, PTL DEF CountingSpec, RecordedCountsKept

-----------------------------------------------------------------------------
\* Reconciliation: a completed count has put its variances on the books.

Completed(a) == at[a] = "done" /\ ask[a].op = "complete"

\* The adjustments that were started are those of lines that vary in the copy
\* the completion read, by what they vary, up to the line it is at.
StartedInv ==
    \A a \in CountCalls :
        /\ line[a] # 0 => ask[a].op = "complete" /\ at[a] \in {"adjusting", "done", "failed"}
        /\ at[a] = "adjusting" => seen[a].status = "in_progress"
        /\ \A i \in LineNumbers : stage[<<a, i>>] # "new" =>
              /\ i <= line[a] /\ Variance(seen[a], i) # 0
              /\ request[<<a, i>>].quantity = Variance(seen[a], i)

\* While no two calls overlapped, one completion at most was saved, and the
\* count is what it saved.
OneCompletionInv ==
    ~ overlapped =>
        /\ \A a, b \in CountCalls : Completed(a) /\ Completed(b) => a = b
        /\ \A a \in CountCalls : Completed(a) => count = [seen[a] EXCEPT !.status = "completed"]
        /\ count.status = "completed" => \E a \in CountCalls : Completed(a)

\* A step starts no adjustment, or it is a completion that starts its next one.
LEMMA AdjustmentStarts ==
    ASSUME MovementInv, CountingTypeOK, [CountingNext]_countVars,
           ~ \E a \in CountCalls : Adjust(a),
           NEW a \in CountCalls, NEW i \in LineNumbers
    PROVE  /\ stage'[<<a, i>>] = "new" <=> stage[<<a, i>>] = "new"
           /\ request'[<<a, i>>] = request[<<a, i>>]
  <1> DEFINE n == <<a, i>>
  <1>1. n \in Movements /\ n \notin Direct
    BY LineMovements DEF Direct
  <1> HIDE DEF n
  <1> SUFFICES (stage'[n] = "new" <=> stage[n] = "new") /\ request'[n] = request[n]
    BY DEF n
  <1>2. CASE UNCHANGED <<stage, request>>
    BY <1>2
  <1>3. ASSUME NEW m \in Direct, NEW r \in Requests, StartDirect(m, r)
        PROVE  stage'[n] = stage[n] /\ request'[n] = request[n]
    BY <1>1, <1>3 DEF StartDirect, Start, MovementInv, MovementTypeOK
  <1>4. ASSUME NEW m \in Movements, SecondLeg(m) \/ Record(m) \/ Throw(m)
        PROVE  (stage'[n] = "new" <=> stage[n] = "new") /\ request'[n] = request[n]
    BY <1>1, <1>4 DEF SecondLeg, Record, Throw, MovementInv, MovementTypeOK
  <1>5. QED
    BY <1>2, <1>3, <1>4
       DEF CountingNext, CountStep, EngineStep, StockStep, SnapshotLine, SaveDraft, CallCount,
           RejectCall, SaveStarted, SaveRecorded, AdjustFailed, SaveCompleted, SaveCount,
           movementVars, movementOnly, countVars

LEMMA StartedKept ==
    ASSUME MovementInv, CountingTypeOK, CallInv, AdjustInv, StartedInv, [CountingNext]_countVars
    PROVE  StartedInv'
  <1> USE DEF CountingTypeOK
  <1>1. ASSUME ~ \E a \in CountCalls : Adjust(a), NEW b \in CountCalls,
               line'[b] = line[b], seen'[b] = seen[b], ask'[b] = ask[b],
               at'[b] = at[b] \/ at'[b] \in {"done", "failed"}
        PROVE  /\ line'[b] # 0 =>
                     ask'[b].op = "complete" /\ at'[b] \in {"adjusting", "done", "failed"}
               /\ at'[b] = "adjusting" => seen'[b].status = "in_progress"
               /\ \A i \in LineNumbers : stage'[<<b, i>>] # "new" =>
                     /\ i <= line'[b] /\ Variance(seen'[b], i) # 0
                     /\ request'[<<b, i>>].quantity = Variance(seen'[b], i)
    <2>1. \A i \in LineNumbers : /\ stage'[<<b, i>>] = "new" <=> stage[<<b, i>>] = "new"
                                 /\ request'[<<b, i>>] = request[<<b, i>>]
      BY <1>1, AdjustmentStarts
    <2>2. QED
      BY <1>1, <2>1 DEF StartedInv
  <1>2. CASE UNCHANGED countOnly /\ ~ \E a \in CountCalls : Adjust(a)
    BY <1>1, <1>2 DEF countOnly, StartedInv
  <1>3. CASE SnapshotLine
    <2>1. ~ \E a \in CountCalls : Adjust(a)
      BY <1>3 DEF SnapshotLine, Adjust, CallInv, AtLoop, Admitted
    <2>2. QED
      BY <1>1, <1>3, <2>1 DEF SnapshotLine, StartedInv
  <1>4. CASE SaveDraft
    <2>1. ~ \E a \in CountCalls : Adjust(a)
      BY <1>4 DEF SaveDraft, Adjust, CallInv, AtLoop, Admitted
    <2>2. QED
      BY <1>1, <1>4, <2>1 DEF SaveDraft, StartedInv
  <1>5. ASSUME NEW a \in CountCalls, NEW r \in CountAsks, CallCount(a, r)
        PROVE  StartedInv'
    <2>1. /\ at[a] = "new" /\ line[a] = 0 /\ line' = line /\ UNCHANGED <<stage, request>>
          /\ at' = [at EXCEPT ![a] = "read"]
          /\ \A b \in CountCalls \ {a} : ask'[b] = ask[b] /\ seen'[b] = seen[b]
      BY <1>5 DEF CallCount, CallInv, movementVars, movementOnly
    <2>2. \A i \in LineNumbers : stage[<<a, i>>] = "new"
      BY <2>1, LineNumbersAre DEF StartedInv
    <2>3. ASSUME NEW b \in CountCalls
          PROVE  /\ line'[b] # 0 =>
                       ask'[b].op = "complete" /\ at'[b] \in {"adjusting", "done", "failed"}
                 /\ at'[b] = "adjusting" => seen'[b].status = "in_progress"
                 /\ \A i \in LineNumbers : stage'[<<b, i>>] # "new" =>
                       /\ i <= line'[b] /\ Variance(seen'[b], i) # 0
                       /\ request'[<<b, i>>].quantity = Variance(seen'[b], i)
      <3>1. CASE b = a
        BY <2>1, <2>2, <3>1
      <3>2. CASE b # a
        BY <2>1, <3>2 DEF StartedInv
      <3>3. QED
        BY <3>1, <3>2
    <2>4. QED
      BY <2>3 DEF StartedInv
  <1>6. ASSUME NEW a \in CountCalls,
               RejectCall(a) \/ AdjustFailed(a) \/ SaveStarted(a) \/ SaveRecorded(a)
                   \/ SaveCompleted(a)
        PROVE  StartedInv'
    <2>1. /\ UNCHANGED <<stage, request, line, seen, ask>>
          /\ at' = [at EXCEPT ![a] = "done"] \/ at' = [at EXCEPT ![a] = "failed"]
      BY <1>6 DEF RejectCall, AdjustFailed, SaveStarted, SaveRecorded, SaveCompleted, SaveCount,
                  movementVars, movementOnly
    <2>2. QED
      BY <2>1 DEF StartedInv
  <1>7. ASSUME NEW a \in CountCalls, Adjust(a)
        PROVE  StartedInv'
    <2> DEFINE n == Min(ToAdjust(a))
    <2>1. /\ n \in LineNumbers /\ line' = [line EXCEPT ![a] = n]
          /\ n > line[a] /\ Variance(seen[a], n) # 0
      BY <1>7, AdjustedLine, MinIsLeast DEF ToAdjust, Adjust
    <2>2. /\ request' = [request EXCEPT ![<<a, n>>] =
                [type |-> "adjustment", at |-> Lines[n], to |-> Lines[n],
                 quantity |-> Variance(seen[a], n)]]
          /\ stage' = [stage EXCEPT ![<<a, n>>] = "first"]
          /\ at' = [at EXCEPT ![a] = "adjusting"] /\ UNCHANGED <<ask, seen>>
      BY <1>7 DEF Adjust, Start
    <2>3. ask[a].op = "complete" /\ seen[a].status = "in_progress"
      <3>1. CASE Admitted(a, "complete")
        BY <3>1 DEF Admitted, Admits
      <3>2. CASE at[a] = "adjusting"
        BY <3>2 DEF StartedInv, AdjustInv
      <3>3. QED
        BY <1>7, <3>1, <3>2 DEF Adjust, AtLoop
    <2> HIDE DEF n
    <2>4. /\ request \in [Movements -> Request] /\ stage \in [Movements -> Stages]
          /\ <<a, n>> \in Movements
      BY <2>1, LineMovements DEF MovementInv, MovementTypeOK
    <2>5. ASSUME NEW b \in CountCalls, NEW i \in LineNumbers, stage'[<<b, i>>] # "new"
          PROVE  /\ i <= line'[b] /\ Variance(seen'[b], i) # 0
                 /\ request'[<<b, i>>].quantity = Variance(seen'[b], i)
      <3>1. CASE b = a /\ i = n
        BY <2>1, <2>2, <2>4, <3>1, LineNumbersAre
      <3>2. CASE ~ (b = a /\ i = n)
        <4>1. <<b, i>> # <<a, n>> /\ <<b, i>> \in Movements
          BY <3>2, LineMovements
        <4>2. stage'[<<b, i>>] = stage[<<b, i>>] /\ request'[<<b, i>>] = request[<<b, i>>]
          BY <2>2, <2>4, <4>1
        <4>3. line[b] <= line'[b] /\ line[b] \in Nat /\ line'[b] \in Nat /\ i \in Nat
          BY <2>1, LineNumbersAre
        <4>4. /\ i <= line[b] /\ Variance(seen[b], i) # 0
              /\ request[<<b, i>>].quantity = Variance(seen[b], i)
          BY <2>5, <4>2 DEF StartedInv
        <4>5. QED
          BY <2>2, <4>2, <4>3, <4>4
      <3>3. QED
        BY <3>1, <3>2
    <2>6. QED
      BY <2>1, <2>2, <2>3, <2>5 DEF StartedInv
  <1>8. QED
    BY <1>2, <1>3, <1>4, <1>5, <1>6, <1>7
       DEF CountingNext, CountStep, EngineStep, StartDirect, countVars

LEMMA OneCompletionKept ==
    ASSUME CountingInv, StartedInv, OneCompletionInv, [CountingNext]_countVars
    PROVE  OneCompletionInv'
  <1>1. CountingTypeOK /\ CallInv /\ CurrentInv
    BY DEF CountingInv
  <1> USE DEF CountingTypeOK, Completed
  <1>2. CASE UNCHANGED <<count, ask, seen, at, overlapped>>
    BY <1>2 DEF OneCompletionInv
  <1>3. CASE SaveDraft
    BY <1>1, <1>3 DEF SaveDraft, OneCompletionInv, CallInv, Count
  <1>4. ASSUME NEW a \in CountCalls, NEW r \in CountAsks, CallCount(a, r)
        PROVE  OneCompletionInv'
    <2>1. /\ count' = count /\ at[a] = "new" /\ at' = [at EXCEPT ![a] = "read"]
          /\ \A b \in CountCalls \ {a} : ask'[b] = ask[b] /\ seen'[b] = seen[b]
          /\ overlapped => overlapped'
      BY <1>1, <1>4 DEF CallCount
    <2>2. \A b \in CountCalls : (Completed(b)' <=> Completed(b)) /\ (Completed(b) => seen'[b] = seen[b])
      BY <1>1, <2>1
    <2>3. QED
      BY <2>1, <2>2 DEF OneCompletionInv
  <1>5. ASSUME NEW a \in CountCalls, RejectCall(a) \/ AdjustFailed(a)
        PROVE  OneCompletionInv'
    <2>1. /\ UNCHANGED <<count, ask, seen, overlapped>>
          /\ at[a] # "done" /\ at' = [at EXCEPT ![a] = "failed"]
      BY <1>5 DEF RejectCall, AdjustFailed
    <2>2. \A b \in CountCalls : Completed(b)' <=> Completed(b)
      BY <1>1, <2>1
    <2>3. QED
      BY <2>1, <2>2 DEF OneCompletionInv
  <1>6. ASSUME NEW a \in CountCalls, SaveStarted(a) \/ SaveRecorded(a), ~ overlapped
        PROVE  OneCompletionInv'
    <2>1. /\ seen[a] = count /\ count.status \in {"draft", "in_progress"}
          /\ ask[a].op # "complete" /\ at' = [at EXCEPT ![a] = "done"]
          /\ UNCHANGED <<ask, seen, overlapped>>
          /\ count'.status \in {"draft", "in_progress"}
      BY <1>1, <1>6 DEF SaveStarted, SaveRecorded, SaveCount, Admitted, Admits, CurrentInv,
                        Working, Count
    <2>2. \A b \in CountCalls : ~ Completed(b)
      BY <1>1, <1>6, <2>1 DEF OneCompletionInv, Count
    <2>3. \A b \in CountCalls : ~ Completed(b)'
      BY <1>1, <2>1, <2>2
    <2>4. QED
      BY <2>1, <2>3 DEF OneCompletionInv
  <1>7. ASSUME NEW a \in CountCalls, SaveCompleted(a), ~ overlapped
        PROVE  OneCompletionInv'
    <2>1. /\ Working(a) /\ ask[a].op = "complete" /\ seen[a].status = "in_progress"
          /\ at' = [at EXCEPT ![a] = "done"]
          /\ count' = [seen[a] EXCEPT !.status = "completed"]
          /\ UNCHANGED <<ask, seen, overlapped>>
      <3>1. CASE Admitted(a, "complete")
        BY <1>7, <3>1 DEF SaveCompleted, SaveCount, Working, Admitted, Admits
      <3>2. CASE at[a] = "adjusting"
        BY <1>1, <1>7, <3>2, LineNumbersAre
           DEF SaveCompleted, SaveCount, Working, StartedInv, AdjustInv, CountingInv
      <3>3. QED
        BY <1>7, <3>1, <3>2 DEF SaveCompleted, AtLoop
    <2>2. seen[a] = count /\ count.status = "in_progress"
      BY <1>1, <1>7, <2>1 DEF CurrentInv
    <2>3. \A b \in CountCalls : ~ Completed(b)
      BY <1>1, <1>7, <2>2 DEF OneCompletionInv, Count
    <2>4. \A b \in CountCalls : Completed(b)' <=> b = a
      BY <1>1, <2>1, <2>3
    <2>5. QED
      BY <2>1, <2>4 DEF OneCompletionInv
  <1>8. ASSUME overlapped, NEW a \in CountCalls, SaveStarted(a) \/ SaveRecorded(a) \/ SaveCompleted(a)
        PROVE  OneCompletionInv'
    BY <1>8 DEF SaveStarted, SaveRecorded, SaveCompleted, SaveCount, OneCompletionInv
  <1>9. ASSUME NEW a \in CountCalls, Adjust(a)
        PROVE  OneCompletionInv'
    <2>1. /\ UNCHANGED <<count, ask, seen, overlapped>> /\ at[a] # "done"
          /\ at' = [at EXCEPT ![a] = "adjusting"]
      BY <1>9 DEF Adjust, AtLoop, Admitted
    <2>2. \A b \in CountCalls : Completed(b)' <=> Completed(b)
      BY <1>1, <2>1
    <2>3. QED
      BY <2>1, <2>2 DEF OneCompletionInv
  <1>10. QED
    BY <1>2, <1>3, <1>4, <1>5, <1>6, <1>7, <1>8, <1>9
       DEF CountingNext, CountStep, EngineStep, StartDirect, SnapshotLine, countVars, countOnly

ReconInv == CountingInv /\ StartedInv /\ OneCompletionInv

LEMMA ReconInvariant == CountingSpec => []ReconInv
  <1>1. CountingInit => ReconInv
    <2> SUFFICES ASSUME CountingInit PROVE ReconInv
      OBVIOUS
    <2>1. \A a \in CountCalls, i \in LineNumbers : stage[<<a, i>>] = "new"
      BY LineMovements DEF CountingInit, MovementInit
    <2>2. StartedInv /\ OneCompletionInv
      BY <2>1 DEF CountingInit, StartedInv, OneCompletionInv, Completed
    <2>3. QED
      BY <2>2, InitCountingInv DEF ReconInv
  <1>2. ReconInv /\ [CountingNext]_countVars => ReconInv'
    BY CountingKeepsMovementInv, CountingTypesKept, CallsKept, AdjustKept, StartedKept,
       OneCompletionKept DEF ReconInv, CountingInv
  <1>3. QED
    BY <1>1, <1>2, PTL DEF CountingSpec

\* A count completed by calls that did not overlap, after no completion failed
\* half way, has put on the books of each line what the line varied by: once.
THEOREM CompletedCountsReconcile == CountingSpec => []CompletedIsReconciled
  <1>1. ReconInv => CompletedIsReconciled
    <2> SUFFICES ASSUME ReconInv, count.status = "completed", ~ overlapped,
                        \A a \in CountCalls : at[a] = "failed" => line[a] = 0,
                        NEW i \in LineNumbers
                 PROVE  SumFunctionOnSet([a \in CountCalls |-> request[<<a, i>>].quantity],
                                         Adjustments(i)) = Variance(count, i)
      BY DEF CompletedIsReconciled, Variance
    <2>1. CountingInv /\ CountingTypeOK /\ StartedInv /\ OneCompletionInv
      BY DEF ReconInv, CountingInv
    <2>2. PICK a \in CountCalls : Completed(a)
      BY <2>1 DEF OneCompletionInv
    <2>3. count = [seen[a] EXCEPT !.status = "completed"] /\ seen[a] \in Count
      BY <2>1, <2>2 DEF OneCompletionInv, CountingTypeOK
    <2>4. Variance(count, i) = Variance(seen[a], i)
      BY <2>3 DEF Variance, Count
    <2>5. Variance(seen[a], i) \in Int
      BY <2>3, VarianceIsInt
    <2>6. ASSUME NEW b \in Adjustments(i)
          PROVE  b = a
      <3>1. b \in CountCalls /\ stage[<<b, i>>] = "recorded"
        BY DEF Adjustments
      <3>2. line[b] # 0
        BY <2>1, <3>1, LineNumbersAre DEF StartedInv
      <3>3. ask[b].op = "complete" /\ at[b] \in {"adjusting", "done"}
        BY <2>1, <3>1, <3>2 DEF StartedInv
      <3>4. at[b] # "adjusting"
        BY <2>1, <3>1 DEF StartedInv, CountingInv, CurrentInv, Working
      <3>5. QED
        BY <2>1, <2>2, <3>1, <3>3, <3>4 DEF OneCompletionInv, Completed
    <2> DEFINE f == [b \in CountCalls |-> request[<<b, i>>].quantity]
    <2>7. CASE Variance(seen[a], i) = 0
      <3>1. Adjustments(i) = {}
        BY <2>1, <2>2, <2>6, <2>7 DEF StartedInv, Adjustments
      <3>2. QED
        BY <2>4, <2>7, <3>1, SumOfNone
    <2>8. CASE Variance(seen[a], i) # 0
      <3>1. stage[<<a, i>>] = "recorded"
        BY <2>1, <2>2, <2>8, LineNumbersAre DEF CountingInv, AdjustInv, Adjusted, Completed
      <3>2. Adjustments(i) = {a}
        BY <2>6, <3>1 DEF Adjustments
      <3>3. f[a] = Variance(seen[a], i)
        BY <2>1, <3>1 DEF StartedInv
      <3>4. \A x \in {a} : f[x] \in Int
        BY <2>5, <3>3
      <3> HIDE DEF f
      <3>5. SumFunctionOnSet(f, {a}) = f[a] + SumFunctionOnSet(f, {a} \ {a})
        BY <3>4, FS_Singleton, SumWithout
      <3>6. {a} \ {a} = {}
        OBVIOUS
      <3>7. SumFunctionOnSet(f, {a}) = Variance(seen[a], i)
        BY <2>5, <3>3, <3>5, <3>6, SumOfNone
      <3>8. QED
        BY <2>4, <3>2, <3>7 DEF f
    <2>9. QED
      BY <2>7, <2>8
  <1>2. QED
    BY <1>1, ReconInvariant, PTL
=============================================================================
