------------------------- MODULE MCInventoryCounting ------------------------
EXTENDS InventoryCounting, TLC

CONSTANTS i1

MCLines == <<1, 2>>
MCMovements == CountCalls \X {1, 2} \cup {i1}
MCCalls == MCMovements \X {1, 2}

Req(type, k, n) == [type |-> type, at |-> k, to |-> k, quantity |-> n]
Asks(op, i, n) == [op |-> op, line |-> i, quantity |-> n]

\* Beside the count: a receipt, or an issue that may take what it adjusts.
MCOthers == {Req("receive", 1, 1), Req("issue", 2, 2)}
MCOperations == {Increase(1)}

\* A seeded line holds 2; the first is counted one over, the second one short.
MCSeedLevels == {[onHand |-> 2, reserved |-> 0, damaged |-> 0, limit |-> 0]}
MCAsks ==
    {Asks("start", 1, 0), Asks("complete", 1, 0),
     Asks("record", 1, 3), Asks("record", 2, 1)}

Symmetric == Permutations(CountCalls)
=============================================================================
