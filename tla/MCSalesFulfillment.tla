------------------------ MODULE MCSalesFulfillment ------------------------
\* Two exact scopes; documents of other parts bring stock in or take it out.
EXTENDS SalesFulfillment, TLC

CONSTANTS o1, o2

Receipts == {[l \in Locations |-> IF l = 1 THEN d[1] ELSE d[2]] : d \in {<<1, 0>>, <<0, 2>>}}
Issues == {[l \in Locations |-> IF l = 1 THEN d[1] ELSE d[2]] : d \in {<<-1, 0>>}}
MCPostings == Receipts \union Issues

\* Orders are told apart only by their places in the queue.
MCSymmetry == Permutations(Orders)
===========================================================================
