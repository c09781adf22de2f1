----------------------------- MODULE StockLevel -----------------------------
(***************************************************************************)
(* The arithmetic of one stock level (one item at one warehouse) of the    *)
(* inventory engine: what each mutation of stock/engine.impl.ts refuses    *)
(* and what it writes.  Quantities are counted in hundredths, the unit the *)
(* engine's decimal strings are rounded to; minimum stock, maximum stock   *)
(* and reorder point, which the engine treats alike, are one `limit`.      *)
(***************************************************************************)
EXTENDS Integers

Kinds == {"getOrCreate", "setThresholds", "increaseOnHand", "decreaseOnHand",
          "increaseReserved", "decreaseReserved",
          "increaseDamaged", "decreaseDamaged"}

Operation == [kind : Kinds, quantity : Nat]

Level == [onHand : Nat, reserved : Nat, damaged : Nat, limit : Nat]

ZeroLevel == [onHand |-> 0, reserved |-> 0, damaged |-> 0, limit |-> 0]

\* computeAvailableQuantity
Available(level) == level.onHand - level.reserved - level.damaged

FloorZero(n) == IF n < 0 THEN 0 ELSE n

\* The operations that start with getOrCreateLevel; the others requireLevel.
Creates(op) == op.kind \in {"getOrCreate", "setThresholds", "increaseOnHand"}

\* All but getOrCreate save an updated level.
Updates(op) == op.kind # "getOrCreate"

\* InsufficientStockError: an issue looks at on-hand, a reservation at what is
\* available.
Refused(level, op) ==
    \/ op.kind = "decreaseOnHand" /\ op.quantity > level.onHand
    \/ op.kind = "increaseReserved" /\ op.quantity > Available(level)

\* The level each operation saves.
Updated(level, op) ==
    CASE op.kind = "increaseOnHand" ->
           [level EXCEPT !.onHand = @ + op.quantity]
      [] op.kind = "decreaseOnHand" ->
           [level EXCEPT !.onHand = @ - op.quantity]
      [] op.kind = "increaseReserved" ->
           [level EXCEPT !.reserved = @ + op.quantity]
      [] op.kind = "decreaseReserved" ->
           [level EXCEPT !.reserved = FloorZero(@ - op.quantity)]
      [] op.kind = "increaseDamaged" ->
           [level EXCEPT !.damaged = @ + op.quantity]
      [] op.kind = "decreaseDamaged" ->
           [level EXCEPT !.damaged = FloorZero(@ - op.quantity)]
      [] op.kind = "setThresholds" ->
           [level EXCEPT !.limit = op.quantity]
      [] OTHER -> level
=============================================================================
