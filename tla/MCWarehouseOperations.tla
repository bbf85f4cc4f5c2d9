----------------------- MODULE MCWarehouseOperations -----------------------
\* One SKU in the two warehouses of a transfer.
EXTENDS WarehouseOperations

CONSTANTS a, b

At(x, y) == [l \in Locations |-> IF l = a THEN x ELSE y]

MCOtherPostings == {At(2, 0), At(0, -1)}
MCPostings == {At(x, 0) : x \in -2..2} \union {At(0, y) : y \in -2..2}
MCOrdered == [l \in OrderLines |-> 2]
=============================================================================
