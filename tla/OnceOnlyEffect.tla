--------------------------- MODULE OnceOnlyEffect ---------------------------
(***************************************************************************)
(* What a client of a mutating NPP endpoint may rely on: under one key one *)
(* payload takes effect at most once and for good, and a success is        *)
(* answered only for the payload that took effect.  Nothing is said of how *)
(* often a request is retried or where it fails.                           *)
(***************************************************************************)
CONSTANTS Attempts, Actors, Keys, Payloads, None

VARIABLES request,  \* what each attempt asks for, None before it is sent
          effect,   \* the payload that took effect under each key
          reply     \* the answer of each attempt, None before it is given

Requests == [actor : Actors, key : Keys, payload : Payloads]

Replies == {"success", "rejected", "unavailable", "mismatch", "inProgress", "error"}

Init == /\ request = [a \in Attempts |-> None]
        /\ effect = [k \in Keys |-> None]
        /\ reply = [a \in Attempts |-> None]

Ask(a, r) == /\ request[a] = None
             /\ request' = [request EXCEPT ![a] = r]
             /\ UNCHANGED <<effect, reply>>

\* The effect happens on behalf of a request that is waiting for its answer.
Apply(a) == /\ request[a] # None
            /\ reply[a] = None
            /\ effect[request[a].key] = None
            /\ effect' = [effect EXCEPT ![request[a].key] = request[a].payload]
            /\ UNCHANGED <<request, reply>>

Give(a, answer) == /\ request[a] # None
                   /\ reply[a] = None
                   /\ answer = "success" => effect[request[a].key] = request[a].payload
                   /\ reply' = [reply EXCEPT ![a] = answer]
                   /\ UNCHANGED <<request, effect>>

Next == \E a \in Attempts :
          \/ \E r \in Requests : Ask(a, r)
          \/ Apply(a)
          \/ \E answer \in Replies : Give(a, answer)

Spec == Init /\ [][Next]_<<request, effect, reply>>
=============================================================================
