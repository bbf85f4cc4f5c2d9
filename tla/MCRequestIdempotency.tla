------------------------ MODULE MCRequestIdempotency ------------------------
(* Small instances of RequestIdempotency for TLC.                          *)
EXTENDS RequestIdempotency, Naturals, Sequences

CONSTANTS a1, a2, a3, u1, p1

(* Requests, actors and payloads differ only in their names.  Liveness rules *)
(* out TLC's symmetry reduction, so the names are given out in one order:  *)
(* requests arrive in turn, and the first one is of u1 with p1.  Every     *)
(* behaviour of RequestIdempotency is one of these with other names.       *)
Arrivals == <<a1, a2, a3>>

InTurn(a) ==
  /\ \A i \in 1..Len(Arrivals) :
       Arrivals[i] = a => \A j \in 1..(i - 1) : pc[Arrivals[j]] # "idle"
  /\ a = a1 => request'[a].actor = u1 /\ request'[a].payload = p1

MCNext ==
  \/ \E a \in Attempts : Submit(a) /\ InTurn(a)
  \/ \E a \in Attempts : Step(a) \/ HandlerError(a) \/ Crash(a)

MCFairSpec == Init /\ [][MCNext]_vars /\ Fairness
=============================================================================
