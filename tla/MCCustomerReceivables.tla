----------------------- MODULE MCCustomerReceivables -----------------------
\* One order line of four units: two delivered on a trip, two handed over.
EXTENDS CustomerReceivables, TLC

CONSTANTS p1, r1, r2, f1

MCIssued == [i \in Sales |-> 2]

\* Clerks, returns and handovers differ in nothing but their names.
MCSymmetry == Permutations(Clerks) \union Permutations(Returns) \union Permutations(Handovers)
===========================================================================
