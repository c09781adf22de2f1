-------------------------- MODULE MCInventoryStock --------------------------
EXTENDS InventoryStock

Op(kind, n) == [kind |-> kind, quantity |-> n]

\* Every kind of operation; an issue of 2 and a reservation of 1 or 2 compete
\* for the 2 on hand of a seeded level.
MCOperations ==
    {Op("getOrCreate", 0), Op("setThresholds", 1),
     Op("increaseOnHand", 1), Op("decreaseOnHand", 2),
     Op("increaseReserved", 1), Op("increaseReserved", 2), Op("decreaseReserved", 2),
     Op("increaseDamaged", 1), Op("decreaseDamaged", 2)}

MCSeedLevels ==
    {[onHand |-> 2, reserved |-> 0, damaged |-> 1, limit |-> 0],
     [onHand |-> 2, reserved |-> 1, damaged |-> 0, limit |-> 0]}
=============================================================================
