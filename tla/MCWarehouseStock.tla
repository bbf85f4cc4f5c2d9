-------------------------- MODULE MCWarehouseStock --------------------------
\* Two exact scopes, documents that bring stock in, take it out and move it.
EXTENDS WarehouseStock

CONSTANTS l1, l2

MCPostings == {[l \in Locations |-> IF l = l1 THEN d[1] ELSE d[2]] :
                 d \in {<<2, 0>>, <<0, 1>>, <<-1, 0>>, <<-1, 1>>}}
=============================================================================
