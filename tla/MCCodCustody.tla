--------------------------- MODULE MCCodCustody ---------------------------
\* Two deliveries of one trip, one larger than the other.
EXTENDS CodCustody

MCDue == [c \in Collections |-> c]

\* A part of one collection, all of it, and a handover of both.
MCSheets == {[c \in {1} |-> 1], [c \in {1} |-> 2], [c \in {1, 2} |-> c]}
===========================================================================
