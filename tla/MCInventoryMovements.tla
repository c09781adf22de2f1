------------------------ MODULE MCInventoryMovements ------------------------
EXTENDS InventoryMovements

MCCalls == Movements \X {1, 2}

Req(type, at, to, n) == [type |-> type, at |-> at, to |-> to, quantity |-> n]

\* Two warehouses of one item; movements of 1 and 2 compete for what is there.
MCRequests ==
    {Req("receive", 1, 1, 1), Req("return", 2, 2, 1), Req("issue", 1, 1, 2),
     Req("transfer", 1, 2, 2), Req("transfer", 2, 1, 1),
     Req("adjustment", 1, 1, -1), Req("reservation", 1, 1, 1), Req("release", 2, 2, 1)}

MCOperations == {Increase(1)}

MCSeedLevels == {[onHand |-> 2, reserved |-> 1, damaged |-> 0, limit |-> 0]}

=============================================================================
