---------------------- MODULE SalesFulfillment_proofs ----------------------
(***************************************************************************)
(* The state properties of SalesFulfillment hold for any number of orders, *)
(* scopes, allocations and delivery orders.  They are inductive together:  *)
(* what is reserved is on hand because the reserved column is the sum of   *)
(* what the reservations have left, and a reservation is consumed by what  *)
(* was shipped for it, which was packed before.                            *)
(*                                                                         *)
(* An operation moves through several states of the tables, so everything  *)
(* is stated of such a state s, and every step inside a transaction gets a *)
(* lemma that it keeps Sound(s).                                           *)
(***************************************************************************)
EXTENDS SalesFulfillment, Sums

States == [onHand : [Locations -> Nat], reserved : [Locations -> Nat],
           status : [Orders -> {"draft", "confirmed", "cancelled"}],
           queue : Seq(Orders), demands : [Orders -> Demands],
           allocations : Seq(Allocations), deliveries : Seq(Deliveries)]

\* What the reservations of scope l have left, one by one.
Outstanding(s, l) ==
  [a \in DOMAIN s.allocations |->
     IF s.allocations[a].location = l /\ s.allocations[a].state # "RELEASED"
       THEN s.allocations[a].quantity - s.allocations[a].consumed ELSE 0]

Covered(s) == \A l \in Locations : s.reserved[l] <= s.onHand[l]

Booked(s) ==
  \A l \in Locations :
    s.reserved[l] = SumFunctionOnSet(Outstanding(s, l), DOMAIN s.allocations)

\* The columns of one allocation fit together.
RowsHold(s) ==
  \A a \in DOMAIN s.allocations :
    LET row == s.allocations[a] IN
    /\ row.packed <= row.picked /\ row.picked <= row.quantity
    /\ row.reservation = "RELEASED" <=> row.state = "RELEASED"
    /\ row.state = "RELEASED" => row.packed = 0
    /\ row.reservation = "CONSUMED" => row.consumed = row.quantity
    /\ row.state # "RELEASED" => s.status[row.order] = "confirmed"

\* Delivery orders take from an allocation what was packed for it.
ShipmentsHold(s) ==
  \A a \in DOMAIN s.allocations :
    /\ Claimed(s, a) <= s.allocations[a].packed
    /\ s.allocations[a].consumed = OnDeliveries(s, a, Shipped)

\* A delivery order takes only from allocations of its own sales order.
LinesHold(s) ==
  \A d \in DOMAIN s.deliveries, a \in 1..MaxAllocations :
    s.deliveries[d].lines[a] > 0 =>
      a \in DOMAIN s.allocations /\ s.allocations[a].order = s.deliveries[d].order

DemandsHold(s) ==
  \A o \in Orders :
    s.demands[o].state = "ACTIVE" =>
      /\ s.demands[o].reserved + s.demands[o].backordered = s.demands[o].target
      /\ s.demands[o].target <= s.demands[o].ordered
      /\ Allocated(s, o) <= s.demands[o].reserved

Sound(s) ==
  /\ s \in States /\ Len(s.allocations) <= MaxAllocations
  /\ Covered(s) /\ Booked(s) /\ RowsHold(s) /\ ShipmentsHold(s) /\ LinesHold(s)
  /\ DemandsHold(s)

SInv == Sound(State)

-----------------------------------------------------------------------------
(* The tables.                                                             *)

\* A set of natural numbers that holds 0 and, with every number before n, the
\* next one, holds all of them up to n.
LEMMA UpTo ==
  ASSUME NEW n \in Nat, NEW T, 0 \in T, \A i \in 1..n : i - 1 \in T => i \in T
  PROVE  \A i \in 0..n : i \in T
<1> DEFINE Missing == {i \in 0..n : i \notin T}
           Before(i) == {j \in Missing : j <= i}
           U == {Before(i) : i \in Missing}
<1> SUFFICES ASSUME Missing # {} PROVE FALSE
  OBVIOUS
<1>1. IsFiniteSet(0..n)
  BY FS_Interval
<1>2. U \subseteq SUBSET (0..n) /\ U # {}
  OBVIOUS
<1>3. PICK u \in U : \A w \in U : w \subseteq u => w = u
  <2> HIDE DEF U
  <2>1. PICK S : S = 0..n
    OBVIOUS
  <2>2. IsFiniteSet(S) /\ U \subseteq SUBSET S /\ U # {}
    BY <1>1, <1>2, <2>1
  <2> QED
    BY ONLY <2>2, SmallestSet
<1>4. PICK i \in Missing : u = Before(i)
  BY <1>3
<1>5. i \in 1..n /\ i - 1 \in 0..n
  BY <1>4
<1>6. i - 1 \in Missing
  BY <1>5, <1>4
<1>7. Before(i - 1) \in U /\ Before(i - 1) \subseteq u /\ i \in u
  BY <1>6, <1>4, <1>5
<1>8. i \notin Before(i - 1)
  BY <1>5
<1> HIDE DEF U, Before
<1> QED
  BY <1>3, <1>7, <1>8

\* The columns of the tables.
LEMMA Columns ==
  ASSUME NEW s \in States
  PROVE  /\ s.onHand \in [Locations -> Nat] /\ s.reserved \in [Locations -> Nat]
         /\ s.status \in [Orders -> {"draft", "confirmed", "cancelled"}]
         /\ s.queue \in Seq(Orders) /\ s.demands \in [Orders -> Demands]
         /\ s.allocations \in Seq(Allocations) /\ s.deliveries \in Seq(Deliveries)
  BY DEF States

\* The rows of the allocation and delivery tables.
LEMMA TableRows ==
  ASSUME NEW s \in States
  PROVE  /\ Len(s.allocations) \in Nat
         /\ DOMAIN s.allocations = 1..Len(s.allocations)
         /\ IsFiniteSet(DOMAIN s.allocations)
         /\ \A a \in DOMAIN s.allocations : s.allocations[a] \in Allocations
         /\ Len(s.deliveries) \in Nat
         /\ DOMAIN s.deliveries = 1..Len(s.deliveries)
         /\ IsFiniteSet(DOMAIN s.deliveries)
         /\ \A d \in DOMAIN s.deliveries : s.deliveries[d] \in Deliveries
         /\ Len(s.queue) \in Nat
         /\ \A i \in 1..Len(s.queue) : s.queue[i] \in Orders
         /\ \A o \in Orders : s.demands[o] \in Demands
<1>1. /\ Len(s.allocations) \in Nat /\ DOMAIN s.allocations = 1..Len(s.allocations)
      /\ Len(s.deliveries) \in Nat /\ DOMAIN s.deliveries = 1..Len(s.deliveries)
  BY Columns
<1>2. IsFiniteSet(1..Len(s.allocations)) /\ IsFiniteSet(1..Len(s.deliveries))
  BY <1>1, FS_Interval
<1> QED
  BY <1>1, <1>2, Columns

\* The columns of one allocation, one delivery order and one demand.
LEMMA RowColumns ==
  /\ \A r \in Allocations :
       /\ r.order \in Orders /\ r.location \in Locations /\ r.quantity \in Nat
       /\ r.picked \in Nat /\ r.packed \in Nat /\ r.consumed \in Nat
       /\ r.state \in {"ACTIVE", "COMPLETED", "RELEASED"}
       /\ r.reservation \in {"ACTIVE", "CONSUMED", "RELEASED"}
  /\ \A d \in Deliveries :
       /\ d.order \in Orders /\ d.lines \in [1..MaxAllocations -> Nat]
       /\ d.status \in Claiming \union {"cancelled"}
  /\ \A r \in Demands :
       /\ r.state \in {"NONE", "ACTIVE", "CANCELLED"} /\ r.ordered \in Nat
       /\ r.target \in Nat /\ r.reserved \in Nat /\ r.backordered \in Nat
  BY DEF Allocations, Deliveries, Demands

\* What an order has allocated is a quantity.
LEMMA AllocatedType ==
  ASSUME NEW s \in States, NEW o
  PROVE  /\ Rows(s, o) \subseteq DOMAIN s.allocations /\ IsFiniteSet(Rows(s, o))
         /\ \A a \in Rows(s, o) : s.allocations[a].quantity \in Nat
         /\ Allocated(s, o) \in Nat
<1>1. Rows(s, o) \subseteq DOMAIN s.allocations
  BY DEF Rows
<1>2. IsFiniteSet(Rows(s, o))
  BY <1>1, TableRows, FS_Subset
<1>3. \A a \in Rows(s, o) : s.allocations[a].quantity \in Nat
  BY <1>1, TableRows, RowColumns
<1>4. Allocated(s, o) \in Nat
  BY <1>2, <1>3, SumNat DEF Allocated
<1> QED
  BY <1>1, <1>2, <1>3, <1>4

\* What an order may still allocate of its hold is a number.
LEMMA HoldType ==
  ASSUME NEW s \in States
  PROVE  \A o \in Orders : Hold(s, o) \in Int
<1> SUFFICES ASSUME NEW o \in Orders PROVE Hold(s, o) \in Int
  OBVIOUS
<1>1. s.demands[o].reserved \in Nat /\ Allocated(s, o) \in Nat
  BY TableRows, RowColumns, AllocatedType
<1> QED
  BY <1>1 DEF Hold

\* The stock without a claim on it is a number.
LEMMA UncommittedType ==
  ASSUME NEW s \in States, NEW R, R \subseteq Orders
  PROVE  /\ Total(s.onHand) \in Int /\ Total(s.reserved) \in Int
         /\ HoldsOf(s, R) \in Int /\ Uncommitted(s, R) \in Int
<1>1. Total(s.onHand) \in Int /\ Total(s.reserved) \in Int
  BY Columns, LocationsAssumption, SumType DEF Total
<1>2. IsFiniteSet(R)
  BY FulfillmentAssumption, FS_Subset
<1>3. \A o \in R : [p \in R |-> Hold(s, p)][o] \in Int
  BY HoldType
<1>4. HoldsOf(s, R) \in Int
  BY <1>2, <1>3, SumType DEF HoldsOf
<1> QED
  BY <1>1, <1>4 DEF Uncommitted

\* What is free for an order is a quantity, and it is what nobody has a claim on
\* and what the order holds itself, when that is not negative.
LEMMA FreeIs ==
  ASSUME NEW s \in States, NEW o \in Orders
  PROVE  /\ Free(s, o) \in Nat
         /\ Uncommitted(s, Orders \ {o}) = Uncommitted(s, Orders) + Hold(s, o)
         /\ Free(s, o) = AtLeastZero(Uncommitted(s, Orders) + Hold(s, o))
<1> DEFINE f == [p \in Orders |-> Hold(s, p)]
           g == [p \in Orders \ {o} |-> Hold(s, p)]
<1>1. IsFiniteSet(Orders) /\ IsFiniteSet(Orders \ {o})
  BY FulfillmentAssumption, FS_Subset
<1>2. \A p \in Orders : f[p] \in Int
  BY HoldType
<1>3. SumFunctionOnSet(f, Orders) = f[o] + SumFunctionOnSet(f, Orders \ {o})
  <2> HIDE DEF f
  <2> QED
    BY <1>1, <1>2, SumRemove
<1>4. SumFunctionOnSet(f, Orders \ {o}) = SumFunctionOnSet(g, Orders \ {o})
  <2>1. \A p \in Orders \ {o} : f[p] = g[p]
    OBVIOUS
  <2> HIDE DEF f, g
  <2> QED
    BY <1>1, <2>1, SumCongruence
<1>5. HoldsOf(s, Orders) = Hold(s, o) + HoldsOf(s, Orders \ {o})
  BY <1>3, <1>4 DEF HoldsOf
<1>6. /\ HoldsOf(s, Orders) \in Int /\ HoldsOf(s, Orders \ {o}) \in Int
      /\ Hold(s, o) \in Int /\ Total(s.onHand) \in Int /\ Total(s.reserved) \in Int
  BY UncommittedType, HoldType
<1>7. Uncommitted(s, Orders \ {o}) = Uncommitted(s, Orders) + Hold(s, o)
  BY <1>5, <1>6 DEF Uncommitted
<1>8. Uncommitted(s, Orders) \in Int
  BY UncommittedType
<1> QED
  BY <1>6, <1>7, <1>8 DEF Free, AtLeastZero

-----------------------------------------------------------------------------
(* The hold of one demand, and replenishment.                              *)

\* The tables differ in the demands at most.
SameButDemands(s, t) ==
  /\ t.onHand = s.onHand /\ t.reserved = s.reserved /\ t.status = s.status
  /\ t.queue = s.queue /\ t.allocations = s.allocations /\ t.deliveries = s.deliveries

\* No demand loses what it holds, or is asked for another quantity.
DemandsGrow(s, t) ==
  \A o \in Orders :
    /\ t.demands[o].state = s.demands[o].state
    /\ t.demands[o].ordered = s.demands[o].ordered
    /\ t.demands[o].target = s.demands[o].target
    /\ t.demands[o].reserved >= s.demands[o].reserved

\* What does not look at the demands.
LEMMA DemandsApart ==
  ASSUME NEW s, NEW t, SameButDemands(s, t)
  PROVE  /\ \A o : Rows(t, o) = Rows(s, o) /\ Allocated(t, o) = Allocated(s, o)
         /\ \A a, st : OnDeliveries(t, a, st) = OnDeliveries(s, a, st)
         /\ \A a : Claimed(t, a) = Claimed(s, a)
         /\ \A o : Untouched(t, o) = Untouched(s, o)
         /\ \A l : Outstanding(t, l) = Outstanding(s, l)
         /\ \A d : Load(t, d) = Load(s, d)
<1>1. \A o : Rows(t, o) = Rows(s, o)
  BY DEF SameButDemands, Rows
<1>2. \A o : Allocated(t, o) = Allocated(s, o)
  BY <1>1 DEF SameButDemands, Allocated
<1>3. \A a, st : OnDeliveries(t, a, st) = OnDeliveries(s, a, st)
  BY DEF SameButDemands, OnDeliveries
<1>4. \A a : Claimed(t, a) = Claimed(s, a)
  BY <1>3 DEF Claimed
<1>5. \A o : Untouched(t, o) = Untouched(s, o)
  BY <1>1, <1>3 DEF SameButDemands, Untouched
<1>6. \A l : Outstanding(t, l) = Outstanding(s, l)
  BY DEF SameButDemands, Outstanding
<1>7. \A d : Load(t, d) = Load(s, d)
  BY DEF SameButDemands, Load
<1> QED
  BY <1>1, <1>2, <1>3, <1>4, <1>5, <1>6, <1>7

\* Tables that are sound stay so while only their demands change, if these
\* still add up.
LEMMA OtherDemands ==
  ASSUME NEW s, Sound(s), NEW t \in States, SameButDemands(s, t), DemandsHold(t)
  PROVE  Sound(t)
<1>1. /\ \A a : Claimed(t, a) = Claimed(s, a)
      /\ \A a : OnDeliveries(t, a, Shipped) = OnDeliveries(s, a, Shipped)
      /\ \A l : Outstanding(t, l) = Outstanding(s, l)
  BY DemandsApart
<1>2. Len(t.allocations) <= MaxAllocations /\ Covered(t)
  BY DEF Sound, SameButDemands, Covered
<1>3. Booked(t)
  BY <1>1 DEF Sound, SameButDemands, Booked
<1>4. RowsHold(t)
  BY DEF Sound, SameButDemands, RowsHold
<1>5. ShipmentsHold(t)
  BY <1>1 DEF Sound, SameButDemands, ShipmentsHold
<1>6. LinesHold(t)
  BY DEF Sound, SameButDemands, LinesHold
<1> QED
  BY <1>2, <1>3, <1>4, <1>5, <1>6 DEF Sound

\* What reconcileDemandHold writes into the row of o.
LEMMA ReconciledRow ==
  ASSUME NEW s \in States, NEW o \in Orders, NEW target \in Nat
  PROVE  LET t == Reconciled(s, o, target)
             held == Clamp(Allocated(s, o) + Free(s, o), Allocated(s, o), target)
         IN /\ SameButDemands(s, t)
            /\ \A p \in Orders \ {o} : t.demands[p] = s.demands[p]
            /\ DOMAIN t.demands = Orders
            /\ t.demands[o] = [state |-> s.demands[o].state, ordered |-> s.demands[o].ordered,
                               target |-> target, reserved |-> held,
                               backordered |-> target - held]
            /\ t = [onHand |-> s.onHand, reserved |-> s.reserved, status |-> s.status,
                    queue |-> s.queue, demands |-> t.demands,
                    allocations |-> s.allocations, deliveries |-> s.deliveries]
<1> DEFINE h == Clamp(Allocated(s, o) + Free(s, o), Allocated(s, o), target)
<1>0. PICK held : held = h
  OBVIOUS
<1>1. s = [onHand |-> s.onHand, reserved |-> s.reserved, status |-> s.status,
           queue |-> s.queue, demands |-> s.demands,
           allocations |-> s.allocations, deliveries |-> s.deliveries]
  BY DEF States
<1>2. s.demands[o] = [state |-> s.demands[o].state, ordered |-> s.demands[o].ordered,
                      target |-> s.demands[o].target, reserved |-> s.demands[o].reserved,
                      backordered |-> s.demands[o].backordered]
  BY TableRows DEF Demands
<1>3. DOMAIN s.demands = Orders
  BY Columns
<1>4. Reconciled(s, o, target) =
        [s EXCEPT !.demands[o] = [@ EXCEPT !.target = target, !.reserved = held,
                                           !.backordered = target - held]]
  BY <1>0 DEF Reconciled
<1> HIDE DEF h
<1>5. PICK t : t = [s EXCEPT !.demands[o] = [@ EXCEPT !.target = target, !.reserved = held,
                                           !.backordered = target - held]]
  OBVIOUS
<1>6. /\ SameButDemands(s, t)
      /\ t.demands = [s.demands EXCEPT ![o] = [@ EXCEPT !.target = target, !.reserved = held,
                                           !.backordered = target - held]]
      /\ t = [onHand |-> s.onHand, reserved |-> s.reserved, status |-> s.status,
                    queue |-> s.queue, demands |-> t.demands,
                    allocations |-> s.allocations, deliveries |-> s.deliveries]
  BY <1>1, <1>5 DEF SameButDemands
<1>7. /\ \A p \in Orders \ {o} : t.demands[p] = s.demands[p]
      /\ DOMAIN t.demands = Orders
      /\ t.demands[o] = [s.demands[o] EXCEPT !.target = target, !.reserved = held,
                                           !.backordered = target - held]
  BY <1>3, <1>6
<1>8. t.demands[o] = [state |-> s.demands[o].state, ordered |-> s.demands[o].ordered,
                               target |-> target, reserved |-> held,
                               backordered |-> target - held]
  BY <1>2, <1>7
<1> QED
  BY <1>0, <1>4, <1>5, <1>6, <1>7, <1>8 DEF h

\* A hold that is set anew lies between what is allocated of it and its target.
LEMMA HoldIsClamped ==
  ASSUME NEW s \in States, NEW o \in Orders, NEW target \in Nat,
         Allocated(s, o) <= target
  PROVE  LET held == Clamp(Allocated(s, o) + Free(s, o), Allocated(s, o), target)
         IN held \in Nat /\ Allocated(s, o) <= held /\ held <= target
<1>1. Allocated(s, o) \in Nat /\ Free(s, o) \in Nat
  BY AllocatedType, FreeIs
<1> QED
  BY <1>1 DEF Clamp

\* Setting a hold anew keeps the tables sound, for a target between what is
\* allocated and what is ordered.
LEMMA ReconciledSound ==
  ASSUME NEW s, Sound(s), NEW o \in Orders, NEW target \in Nat,
         Allocated(s, o) <= target, target <= s.demands[o].ordered
  PROVE  Sound(Reconciled(s, o, target)) /\ SameButDemands(s, Reconciled(s, o, target))
<1> DEFINE h == Clamp(Allocated(s, o) + Free(s, o), Allocated(s, o), target)
<1>0. s \in States
  BY DEF Sound
<1>1. PICK held, t : held = h /\ t = Reconciled(s, o, target)
  OBVIOUS
<1>2. /\ SameButDemands(s, t)
      /\ \A p \in Orders \ {o} : t.demands[p] = s.demands[p]
      /\ DOMAIN t.demands = Orders
      /\ t.demands[o] = [state |-> s.demands[o].state, ordered |-> s.demands[o].ordered,
                         target |-> target, reserved |-> held,
                         backordered |-> target - held]
      /\ t = [onHand |-> s.onHand, reserved |-> s.reserved, status |-> s.status,
                    queue |-> s.queue, demands |-> t.demands,
                    allocations |-> s.allocations, deliveries |-> s.deliveries]
  BY <1>0, <1>1, ReconciledRow
<1>3. held \in Nat /\ Allocated(s, o) <= held /\ held <= target
  BY <1>0, <1>1, HoldIsClamped
<1> HIDE DEF h
<1>4. target - held \in Nat /\ held + (target - held) = target
  BY <1>3
<1>5. /\ t.demands[o] \in Demands /\ t.demands[o].state = s.demands[o].state
      /\ t.demands[o].reserved = held /\ t.demands[o].target = target
      /\ t.demands[o].backordered = target - held
      /\ t.demands[o].ordered = s.demands[o].ordered
  <2>1. s.demands[o].state \in {"NONE", "ACTIVE", "CANCELLED"} /\ s.demands[o].ordered \in Nat
    BY <1>0, TableRows, RowColumns
  <2> QED
    BY <1>2, <1>3, <1>4, <2>1 DEF Demands
<1>6. \A p \in Orders : t.demands[p] \in Demands
  BY <1>0, <1>2, <1>5, TableRows
<1>7. t \in States
  <2>1. t.demands \in [Orders -> Demands]
    <3>1. t.demands = [p \in Orders |-> t.demands[p]]
      BY <1>0, <1>1, Columns DEF Reconciled, States
    <3> QED
      BY <3>1, <1>6
  <2> QED
    BY <2>1, <1>0, <1>2, Columns DEF States
<1>8. DemandsHold(t)
  <2>1. \A p : Allocated(t, p) = Allocated(s, p)
    BY <1>2, DemandsApart
  <2> SUFFICES ASSUME NEW p \in Orders, t.demands[p].state = "ACTIVE"
               PROVE  /\ t.demands[p].reserved + t.demands[p].backordered = t.demands[p].target
                      /\ t.demands[p].target <= t.demands[p].ordered
                      /\ Allocated(s, p) <= t.demands[p].reserved
    BY <2>1 DEF DemandsHold
  <2>2. CASE p = o
    BY <2>2, <1>5, <1>4, <1>3
  <2>3. CASE p # o
    BY <2>3, <1>2 DEF Sound, DemandsHold
  <2> QED
    BY <2>2, <2>3
<1>9. Sound(t)
  BY <1>2, <1>7, <1>8, OtherDemands
<1> QED
  BY <1>1, <1>2, <1>9

\* replenishPendingHoldScopes step by step.
IsReplenishing(s, r) ==
  r = [i \in 0..Len(s.queue) |->
         IF i = 0 THEN s
         ELSE IF Pending(s, s.queue[i]) /\ Uncommitted(r[i - 1], Orders) > 0
           THEN Reconciled(r[i - 1], s.queue[i], r[i - 1].demands[s.queue[i]].target)
           ELSE r[i - 1]]

Replenishing(s) == CHOOSE r : IsReplenishing(s, r)

\* The recursion of Replenished, as far as step k.
ReplenishingTo(s, k, r) ==
  r = [i \in 0..k |->
         IF i = 0 THEN s
         ELSE IF Pending(s, s.queue[i]) /\ Uncommitted(r[i - 1], Orders) > 0
           THEN Reconciled(r[i - 1], s.queue[i], r[i - 1].demands[s.queue[i]].target)
           ELSE r[i - 1]]

\* The steps of a replenishment.
LEMMA ReplenishingSteps ==
  ASSUME NEW s, Len(s.queue) \in Nat
  PROVE  /\ Replenished(s) = Replenishing(s)[Len(s.queue)]
         /\ Replenishing(s)[0] = s
         /\ \A i \in 1..Len(s.queue) :
              Replenishing(s)[i] =
                IF Pending(s, s.queue[i]) /\ Uncommitted(Replenishing(s)[i - 1], Orders) > 0
                  THEN Reconciled(Replenishing(s)[i - 1], s.queue[i],
                                  Replenishing(s)[i - 1].demands[s.queue[i]].target)
                  ELSE Replenishing(s)[i - 1]
<1> DEFINE n == Len(s.queue)
           T == {k \in 0..n : \E r : ReplenishingTo(s, k, r)}
<1>1. Replenished(s) = Replenishing(s)[n]
  BY Zenon DEF Replenished, Replenishing, IsReplenishing
<1>2. 0 \in T
  <2>1. ReplenishingTo(s, 0, [i \in 0..0 |-> s])
    <3>1. 0..0 = {0}
      OBVIOUS
    <3> QED
      BY <3>1, Zenon DEF ReplenishingTo
  <2> QED
    BY <2>1
<1>3. ASSUME NEW k \in 1..n, k - 1 \in T PROVE k \in T
  <2>1. PICK q : ReplenishingTo(s, k - 1, q)
    BY <1>3
  <2>2. PICK last : last = IF Pending(s, s.queue[k]) /\ Uncommitted(q[k - 1], Orders) > 0
                      THEN Reconciled(q[k - 1], s.queue[k], q[k - 1].demands[s.queue[k]].target)
                      ELSE q[k - 1]
    OBVIOUS
  <2>3. PICK r : r = [i \in 0..k |-> IF i = k THEN last ELSE q[i]]
    OBVIOUS
  <2>4. \A i \in 0..(k - 1) : i \in 0..k /\ i # k /\ r[i] = q[i]
    BY <2>3
  <2>5. r[k] = last /\ k - 1 \in 0..(k - 1) /\ k \in 0..k /\ k # 0
    BY <2>3
  <2>6. \A i \in 0..k : r[i] =
          IF i = 0 THEN s
          ELSE IF Pending(s, s.queue[i]) /\ Uncommitted(r[i - 1], Orders) > 0
            THEN Reconciled(r[i - 1], s.queue[i], r[i - 1].demands[s.queue[i]].target)
            ELSE r[i - 1]
    <3> SUFFICES ASSUME NEW i \in 0..k
                 PROVE  r[i] =
                   IF i = 0 THEN s
                   ELSE IF Pending(s, s.queue[i]) /\ Uncommitted(r[i - 1], Orders) > 0
                     THEN Reconciled(r[i - 1], s.queue[i], r[i - 1].demands[s.queue[i]].target)
                     ELSE r[i - 1]
      OBVIOUS
    <3>1. CASE i = k
      <4>1. r[k - 1] = q[k - 1]
        BY <2>4, <2>5
      <4> QED
        BY <3>1, <4>1, <2>5, <2>2, Zenon
    <3>2. CASE i # k
      <4>1. i \in 0..(k - 1) /\ r[i] = q[i]
        BY <3>2, <2>4
      <4>2. i # 0 => r[i - 1] = q[i - 1]
        <5>1. i # 0 => i - 1 \in 0..(k - 1)
          BY <4>1
        <5> QED
          BY <5>1, <2>4
      <4>3. q[i] =
              IF i = 0 THEN s
              ELSE IF Pending(s, s.queue[i]) /\ Uncommitted(q[i - 1], Orders) > 0
                THEN Reconciled(q[i - 1], s.queue[i], q[i - 1].demands[s.queue[i]].target)
                ELSE q[i - 1]
        BY <2>1, <4>1, Zenon DEF ReplenishingTo
      <4> QED
        BY <4>1, <4>2, <4>3, Zenon
    <3> QED
      BY <3>1, <3>2
  <2>7. ReplenishingTo(s, k, r)
    <3>1. r = [i \in 0..k |-> r[i]]
      BY <2>3
    <3> QED
      BY <2>6, <3>1, Zenon DEF ReplenishingTo
  <2> QED
    BY <2>7
<1>4. n \in T
  <2>1. n \in 0..n
    OBVIOUS
  <2>2. \A i \in 1..n : i - 1 \in T => i \in T
    BY <1>3
  <2> HIDE DEF T, n
  <2>3. n \in Nat
    BY DEF n
  <2> QED
    BY <1>2, <2>1, <2>2, <2>3, UpTo
<1>5. IsReplenishing(s, Replenishing(s))
  <2>1. \E r : IsReplenishing(s, r)
    BY <1>4, Zenon DEF ReplenishingTo, IsReplenishing
  <2> QED
    BY <2>1, Zenon DEF Replenishing
<1>6. \A i \in 0..n : Replenishing(s)[i] =
         IF i = 0 THEN s
         ELSE IF Pending(s, s.queue[i]) /\ Uncommitted(Replenishing(s)[i - 1], Orders) > 0
           THEN Reconciled(Replenishing(s)[i - 1], s.queue[i],
                           Replenishing(s)[i - 1].demands[s.queue[i]].target)
           ELSE Replenishing(s)[i - 1]
  BY <1>5, Zenon DEF IsReplenishing
<1>7. 0 \in 0..n /\ \A i \in 1..n : i \in 0..n /\ i # 0
  OBVIOUS
<1> QED
  BY <1>1, <1>6, <1>7, Zenon

\* While only the demand of o changes, what is uncommitted falls by what o
\* holds more.
LEMMA OneHoldChanges ==
  ASSUME NEW s \in States, NEW t \in States, NEW o \in Orders, SameButDemands(s, t),
         \A p \in Orders \ {o} : t.demands[p] = s.demands[p]
  PROVE  Uncommitted(t, Orders) = Uncommitted(s, Orders) + Hold(s, o) - Hold(t, o)
<1> DEFINE f == [p \in Orders |-> Hold(s, p)]
           g == [p \in Orders |-> Hold(t, p)]
<1>1. IsFiniteSet(Orders)
  BY FulfillmentAssumption
<1>2. \A p \in Orders : f[p] \in Int /\ g[p] \in Int
  BY HoldType
<1>3. \A p \in Orders \ {o} : g[p] = f[p]
  <2>1. \A p : Allocated(t, p) = Allocated(s, p)
    BY DemandsApart
  <2> QED
    BY <2>1 DEF Hold
<1>4. SumFunctionOnSet(g, Orders) = SumFunctionOnSet(f, Orders) + g[o] - f[o]
  <2> HIDE DEF f, g
  <2> QED
    BY <1>1, <1>2, <1>3, SumUpdate
<1>5. HoldsOf(t, Orders) = HoldsOf(s, Orders) + Hold(t, o) - Hold(s, o)
  BY <1>4 DEF HoldsOf
<1>6. Total(t.onHand) = Total(s.onHand) /\ Total(t.reserved) = Total(s.reserved)
  BY DEF SameButDemands
<1>7. /\ HoldsOf(s, Orders) \in Int /\ HoldsOf(t, Orders) \in Int
      /\ Total(s.onHand) \in Int /\ Total(s.reserved) \in Int
      /\ Hold(s, o) \in Int /\ Hold(t, o) \in Int
  BY UncommittedType, HoldType
<1> QED
  BY <1>5, <1>6, <1>7 DEF Uncommitted

\* Serving one waiting order from stock that nobody has a claim on: it loses
\* nothing, the stock is not promised twice, and what is left over is left only
\* when the order waits no longer.
LEMMA ServingOne ==
  ASSUME NEW t, Sound(t), NEW o \in Orders, t.demands[o].state = "ACTIVE",
         Uncommitted(t, Orders) > 0
  PROVE  LET u == Reconciled(t, o, t.demands[o].target)
         IN /\ Sound(u) /\ SameButDemands(t, u) /\ DemandsGrow(t, u)
            /\ \A p \in Orders \ {o} : u.demands[p] = t.demands[p]
            /\ Uncommitted(u, Orders) >= 0
            /\ Uncommitted(u, Orders) <= Uncommitted(t, Orders)
            /\ Uncommitted(u, Orders) > 0 => u.demands[o].backordered = 0
<1>0. t \in States
  BY DEF Sound
<1>1. PICK target, u, held, alloc, free :
        /\ target = t.demands[o].target /\ u = Reconciled(t, o, target)
        /\ alloc = Allocated(t, o) /\ free = Free(t, o)
        /\ held = Clamp(alloc + free, alloc, target)
  OBVIOUS
<1>2. PICK rest, hold, kept : /\ rest = Uncommitted(t, Orders) /\ hold = Hold(t, o)
                              /\ kept = t.demands[o].reserved
  OBVIOUS
<1>3. /\ target \in Nat /\ kept \in Nat /\ alloc \in Nat /\ rest \in Int /\ rest > 0
      /\ alloc <= kept /\ kept <= target /\ target <= t.demands[o].ordered
      /\ hold = kept - alloc
  <2>1. target \in Nat /\ kept \in Nat /\ t.demands[o].backordered \in Nat
    BY <1>0, <1>1, <1>2, TableRows, RowColumns
  <2>2. alloc \in Nat /\ rest \in Int
    BY <1>0, <1>1, <1>2, AllocatedType, UncommittedType
  <2>3. /\ kept + t.demands[o].backordered = target
        /\ target <= t.demands[o].ordered /\ alloc <= kept
    BY <1>1, <1>2 DEF Sound, DemandsHold
  <2>4. hold = kept - alloc
    BY <1>1, <1>2 DEF Hold
  <2>5. kept <= target
    <3>1. PICK b \in Nat : b = t.demands[o].backordered
      BY <2>1
    <3> QED
      BY <2>1, <2>3, <3>1
  <2> QED
    BY <1>2, <2>1, <2>2, <2>3, <2>4, <2>5
<1>4. free = rest + hold
  <2>1. free = AtLeastZero(rest + hold)
    BY <1>0, <1>1, <1>2, FreeIs
  <2> QED
    BY <1>3, <2>1 DEF AtLeastZero
<1>5. /\ held \in Nat /\ held >= kept /\ held <= target /\ held - kept <= rest
      /\ held - kept < rest => held = target
  BY <1>1, <1>3, <1>4 DEF Clamp
<1>6. Sound(u) /\ SameButDemands(t, u)
  <2>1. alloc <= target
    BY <1>3
  <2> QED
    BY <1>1, <1>3, <2>1, ReconciledSound
<1>7. /\ \A p \in Orders \ {o} : u.demands[p] = t.demands[p]
      /\ u.demands[o].state = t.demands[o].state
      /\ u.demands[o].ordered = t.demands[o].ordered
      /\ u.demands[o].target = target /\ u.demands[o].reserved = held
      /\ u.demands[o].backordered = target - held
  <2>1. /\ \A p \in Orders \ {o} : u.demands[p] = t.demands[p]
        /\ u.demands[o] = [state |-> t.demands[o].state, ordered |-> t.demands[o].ordered,
                           target |-> target, reserved |-> held,
                           backordered |-> target - held]
    BY <1>0, <1>1, <1>3, ReconciledRow
  <2> QED
    BY <2>1
<1>8. DemandsGrow(t, u)
  <2> SUFFICES ASSUME NEW p \in Orders
               PROVE  /\ u.demands[p].state = t.demands[p].state
                      /\ u.demands[p].ordered = t.demands[p].ordered
                      /\ u.demands[p].target = t.demands[p].target
                      /\ u.demands[p].reserved >= t.demands[p].reserved
    BY DEF DemandsGrow
  <2>1. CASE p = o
    BY <2>1, <1>1, <1>2, <1>5, <1>7
  <2>2. CASE p # o
    <3>1. u.demands[p] = t.demands[p]
      BY <2>2, <1>7
    <3>2. t.demands[p].reserved \in Nat
      BY <1>0, TableRows, RowColumns
    <3> QED
      BY <3>1, <3>2
  <2> QED
    BY <2>1, <2>2
<1>9. Uncommitted(u, Orders) = rest - (held - kept)
  <2>1. Hold(u, o) = held - alloc
    <3>1. Allocated(u, o) = alloc
      BY <1>1, <1>6, DemandsApart
    <3> QED
      BY <1>7, <3>1 DEF Hold
  <2>2. u \in States
    BY <1>6 DEF Sound
  <2>3. Uncommitted(u, Orders) = rest + hold - Hold(u, o)
    BY <1>0, <1>2, <1>6, <1>7, <2>2, OneHoldChanges
  <2> QED
    BY <1>3, <1>5, <2>1, <2>3
<1>10. /\ Uncommitted(u, Orders) >= 0 /\ Uncommitted(u, Orders) <= rest
       /\ Uncommitted(u, Orders) > 0 => u.demands[o].backordered = 0
  <2>1. /\ rest - (held - kept) >= 0 /\ rest - (held - kept) <= rest
        /\ rest - (held - kept) > 0 => target - held = 0
    BY <1>3, <1>5
  <2> QED
    BY <1>7, <1>9, <2>1
<1> QED
  BY <1>1, <1>2, <1>6, <1>7, <1>8, <1>10

\* Growing is transitive.
LEMMA DemandsGrowOn ==
  ASSUME NEW s \in States, NEW t \in States, NEW u \in States,
         DemandsGrow(s, t), DemandsGrow(t, u)
  PROVE  DemandsGrow(s, u)
<1> SUFFICES ASSUME NEW o \in Orders
             PROVE  /\ u.demands[o].state = s.demands[o].state
                    /\ u.demands[o].ordered = s.demands[o].ordered
                    /\ u.demands[o].target = s.demands[o].target
                    /\ u.demands[o].reserved >= s.demands[o].reserved
  BY DEF DemandsGrow
<1>1. /\ s.demands[o].reserved \in Nat /\ t.demands[o].reserved \in Nat
      /\ u.demands[o].reserved \in Nat
  BY TableRows, RowColumns
<1> QED
  BY <1>1 DEF DemandsGrow

\* Replenishing keeps the tables sound and takes no hold from anybody.
LEMMA ReplenishedSound ==
  ASSUME NEW s, Sound(s)
  PROVE  /\ Sound(Replenished(s)) /\ SameButDemands(s, Replenished(s))
         /\ DemandsGrow(s, Replenished(s))
<1> DEFINE n == Len(s.queue)
           r == Replenishing(s)
           T == {i \in 0..n : Sound(r[i]) /\ SameButDemands(s, r[i]) /\ DemandsGrow(s, r[i])}
<1>0. s \in States /\ n \in Nat /\ \A i \in 1..n : s.queue[i] \in Orders
  BY TableRows DEF Sound
<1>1. /\ Replenished(s) = r[n] /\ r[0] = s
      /\ \A i \in 1..n :
           r[i] = IF Pending(s, s.queue[i]) /\ Uncommitted(r[i - 1], Orders) > 0
                    THEN Reconciled(r[i - 1], s.queue[i], r[i - 1].demands[s.queue[i]].target)
                    ELSE r[i - 1]
  BY <1>0, ReplenishingSteps
<1>2. 0 \in T
  <2>1. SameButDemands(s, s)
    BY DEF SameButDemands
  <2>2. DemandsGrow(s, s)
    <3>1. \A o \in Orders : s.demands[o].reserved \in Nat
      BY <1>0, TableRows, RowColumns
    <3> QED
      BY <3>1 DEF DemandsGrow
  <2> QED
    BY <1>0, <1>1, <2>1, <2>2
<1>3. ASSUME NEW i \in 1..n, i - 1 \in T PROVE i \in T
  <2>1. PICK t, o : t = r[i - 1] /\ o = s.queue[i]
    OBVIOUS
  <2>2. Sound(t) /\ SameButDemands(s, t) /\ DemandsGrow(s, t) /\ o \in Orders
    BY <1>0, <1>3, <2>1
  <2>3. r[i] = IF Pending(s, o) /\ Uncommitted(t, Orders) > 0
                 THEN Reconciled(t, o, t.demands[o].target) ELSE t
    BY <1>1, <2>1
  <2>4. CASE Pending(s, o) /\ Uncommitted(t, Orders) > 0
    <3>1. PICK u : u = Reconciled(t, o, t.demands[o].target)
      OBVIOUS
    <3>2. t.demands[o].state = "ACTIVE"
      BY <2>2, <2>4 DEF Pending, DemandsGrow
    <3>3. Sound(u) /\ SameButDemands(t, u) /\ DemandsGrow(t, u)
      BY <2>2, <2>4, <3>1, <3>2, ServingOne
    <3>4. SameButDemands(s, u)
      BY <2>2, <3>3 DEF SameButDemands
    <3>5. DemandsGrow(s, u)
      <4>1. t \in States /\ u \in States
        BY <2>2, <3>3 DEF Sound
      <4> QED
        BY <1>0, <2>2, <3>3, <4>1, DemandsGrowOn
    <3>6. r[i] = u /\ i \in 0..n
      BY <2>3, <2>4, <3>1
    <3> QED
      BY <3>3, <3>4, <3>5, <3>6
  <2>5. CASE ~(Pending(s, o) /\ Uncommitted(t, Orders) > 0)
    <3>1. r[i] = t /\ i \in 0..n
      BY <2>3, <2>5
    <3> QED
      BY <2>2, <3>1
  <2> QED
    BY <2>4, <2>5
<1>4. n \in T
  <2>1. n \in 0..n
    BY <1>0
  <2>2. \A i \in 1..n : i - 1 \in T => i \in T
    BY <1>3
  <2> HIDE DEF T, n
  <2> QED
    BY <1>0, <1>2, <2>1, <2>2, UpTo
<1> QED
  BY <1>1, <1>4

-----------------------------------------------------------------------------
(* Delivery orders and what they take from the allocations.                *)

\* What delivery order d takes from scope l, allocation by allocation.
Loaded(s, d, l) ==
  [a \in DOMAIN s.allocations |->
     IF s.allocations[a].location = l THEN s.deliveries[d].lines[a] ELSE 0]

\* The quantities on the lines of a delivery order.
LEMMA LineType ==
  ASSUME NEW s, Sound(s)
  PROVE  /\ \A a \in DOMAIN s.allocations : a \in 1..MaxAllocations
         /\ \A d \in DOMAIN s.deliveries, a \in 1..MaxAllocations :
              s.deliveries[d].lines[a] \in Nat
<1>1. s \in States /\ Len(s.allocations) <= MaxAllocations /\ MaxAllocations \in Nat
  BY FulfillmentAssumption DEF Sound
<1>2. \A a \in DOMAIN s.allocations : a \in 1..MaxAllocations
  BY <1>1, TableRows
<1>3. \A d \in DOMAIN s.deliveries : s.deliveries[d].lines \in [1..MaxAllocations -> Nat]
  BY <1>1, TableRows, RowColumns
<1> QED
  BY <1>2, <1>3

\* The load of a delivery order adds up its lines.
LEMMA LoadIsSum ==
  ASSUME NEW s, Sound(s), NEW d \in DOMAIN s.deliveries, NEW l \in Locations
  PROVE  /\ \A a \in DOMAIN s.allocations : Loaded(s, d, l)[a] \in Nat
         /\ Load(s, d)[l] = SumFunctionOnSet(Loaded(s, d, l), DOMAIN s.allocations)
         /\ Load(s, d)[l] \in Nat
<1> DEFINE here == {a \in DOMAIN s.allocations : s.allocations[a].location = l}
           f == [a \in here |-> s.deliveries[d].lines[a]]
<1>1. IsFiniteSet(DOMAIN s.allocations) /\ here \subseteq DOMAIN s.allocations
  BY TableRows DEF Sound
<1>2. \A a \in DOMAIN s.allocations : s.deliveries[d].lines[a] \in Nat
  BY LineType
<1>3. \A a \in DOMAIN s.allocations : Loaded(s, d, l)[a] \in Nat
  BY <1>2 DEF Loaded
<1>4. \A a \in (DOMAIN s.allocations) \ here : Loaded(s, d, l)[a] = 0
  BY DEF Loaded
<1>5. \A a \in here : Loaded(s, d, l)[a] = f[a]
  BY <1>1 DEF Loaded
<1>6. Load(s, d)[l] = SumFunctionOnSet(f, here)
  BY DEF Load
<1>7. IsFiniteSet(here)
  BY <1>1, FS_Subset
<1> HIDE DEF here, f
<1>8. SumFunctionOnSet(Loaded(s, d, l), DOMAIN s.allocations)
        = SumFunctionOnSet(Loaded(s, d, l), here)
  <2>1. \A a \in DOMAIN s.allocations : Loaded(s, d, l)[a] \in Int
    BY <1>3
  <2> QED
    BY <1>1, <1>4, <2>1, SumSupport
<1>9. SumFunctionOnSet(Loaded(s, d, l), here) = SumFunctionOnSet(f, here)
  BY <1>5, <1>7, SumCongruence
<1>10. SumFunctionOnSet(Loaded(s, d, l), DOMAIN s.allocations) \in Nat
  BY <1>1, <1>3, SumNat
<1> QED
  BY <1>3, <1>6, <1>8, <1>9, <1>10

\* What delivery orders take from one allocation is a quantity, no less than
\* what any of them takes, and what was shipped is claimed.
LEMMA OnDeliveriesType ==
  ASSUME NEW s, Sound(s), NEW a \in 1..MaxAllocations
  PROVE  /\ \A st : OnDeliveries(s, a, st) \in Nat
         /\ \A st : \A d \in DOMAIN s.deliveries :
              s.deliveries[d].status \in st => s.deliveries[d].lines[a] <= OnDeliveries(s, a, st)
         /\ OnDeliveries(s, a, Shipped) <= Claimed(s, a)
<1> DEFINE D == DOMAIN s.deliveries
           f(st) == [d \in D |-> IF s.deliveries[d].status \in st
                                   THEN s.deliveries[d].lines[a] ELSE 0]
<1>1. IsFiniteSet(D)
  BY TableRows DEF Sound
<1>2. \A st : \A d \in D : f(st)[d] \in Nat
  BY LineType
<1>3. \A st : OnDeliveries(s, a, st) = SumFunctionOnSet(f(st), D)
  BY DEF OnDeliveries
<1>4. \A d \in D : f(Shipped)[d] <= f(Claiming)[d]
  BY LineType DEF Claiming
<1>5. \A st : \A d \in D : s.deliveries[d].status \in st => f(st)[d] = s.deliveries[d].lines[a]
  OBVIOUS
<1> HIDE DEF f
<1>6. \A st : SumFunctionOnSet(f(st), D) \in Nat
  <2> SUFFICES ASSUME NEW st PROVE SumFunctionOnSet(f(st), D) \in Nat
    OBVIOUS
  <2> QED
    BY <1>1, <1>2, SumNat
<1>7. \A st : \A d \in D : f(st)[d] <= SumFunctionOnSet(f(st), D)
  <2> SUFFICES ASSUME NEW st, NEW d \in D PROVE f(st)[d] <= SumFunctionOnSet(f(st), D)
    OBVIOUS
  <2>1. f(st)[d] \in Int
    BY <1>2
  <2>2. SumFunctionOnSet(f(st), {d}) = f(st)[d]
    BY <2>1, SumSingle
  <2>3. PICK R : R = {d}
    OBVIOUS
  <2>4. R \subseteq D
    BY <2>3
  <2>5. SumFunctionOnSet(f(st), R) <= SumFunctionOnSet(f(st), D)
    BY <1>1, <1>2, <2>4, SumSubset
  <2> QED
    BY <2>2, <2>3, <2>5
<1>8. SumFunctionOnSet(f(Shipped), D) <= SumFunctionOnSet(f(Claiming), D)
  <2>1. \A d \in D : f(Shipped)[d] \in Int /\ f(Claiming)[d] \in Int
    BY <1>2
  <2> QED
    BY <1>1, <1>4, <2>1, SumMonotone
<1> QED
  BY <1>3, <1>5, <1>6, <1>7, <1>8 DEF Claimed

\* When one delivery order changes its status, its lines leave the sums over its
\* old status and enter those over the new one.
LEMMA OneDeliveryMoves ==
  ASSUME NEW s, Sound(s), NEW d \in DOMAIN s.deliveries, NEW to, NEW t,
         t.deliveries = [s.deliveries EXCEPT ![d].status = to],
         NEW a \in 1..MaxAllocations, NEW st
  PROVE  OnDeliveries(t, a, st) =
           OnDeliveries(s, a, st)
             + (IF to \in st THEN s.deliveries[d].lines[a] ELSE 0)
             - (IF s.deliveries[d].status \in st THEN s.deliveries[d].lines[a] ELSE 0)
<1> DEFINE D == DOMAIN s.deliveries
           f == [e \in D |-> IF s.deliveries[e].status \in st
                               THEN s.deliveries[e].lines[a] ELSE 0]
           g == [e \in D |-> IF t.deliveries[e].status \in st
                               THEN t.deliveries[e].lines[a] ELSE 0]
<1>1. IsFiniteSet(D) /\ DOMAIN t.deliveries = D
  BY TableRows DEF Sound
<1>2. \A e \in D : s.deliveries[e].lines[a] \in Nat /\ s.deliveries[e] \in Deliveries
  BY LineType, TableRows DEF Sound
<1>3. /\ \A e \in D \ {d} : t.deliveries[e] = s.deliveries[e]
      /\ t.deliveries[d] = [s.deliveries[d] EXCEPT !.status = to]
  OBVIOUS
<1>4. t.deliveries[d].status = to /\ t.deliveries[d].lines = s.deliveries[d].lines
  BY <1>2, <1>3 DEF Deliveries
<1>5. \A e \in D : f[e] \in Int
  BY <1>2
<1>6. /\ g[d] = (IF to \in st THEN s.deliveries[d].lines[a] ELSE 0) /\ g[d] \in Int
      /\ f[d] = (IF s.deliveries[d].status \in st THEN s.deliveries[d].lines[a] ELSE 0)
  BY <1>2, <1>4
<1>7. \A e \in D \ {d} : g[e] = f[e]
  BY <1>3
<1>8. OnDeliveries(s, a, st) = SumFunctionOnSet(f, D) /\ OnDeliveries(t, a, st) = SumFunctionOnSet(g, D)
  BY <1>1 DEF OnDeliveries
<1> HIDE DEF f, g
<1>9. SumFunctionOnSet(g, D) = SumFunctionOnSet(f, D) + g[d] - f[d]
  BY <1>1, <1>5, <1>6, <1>7, SumUpdate
<1> QED
  BY <1>6, <1>8, <1>9

\* The allocations keep their orders and quantities and are released or not.
SameQuantities(s, t) ==
  /\ DOMAIN t.allocations = DOMAIN s.allocations
  /\ \A a \in DOMAIN s.allocations :
       /\ t.allocations[a].order = s.allocations[a].order
       /\ t.allocations[a].location = s.allocations[a].location
       /\ t.allocations[a].quantity = s.allocations[a].quantity
       /\ t.allocations[a].state = "RELEASED" <=> s.allocations[a].state = "RELEASED"

\* Then every order has allocated what it had allocated.
LEMMA SameAllocated ==
  ASSUME NEW s \in States, NEW t, SameQuantities(s, t)
  PROVE  \A o : Rows(t, o) = Rows(s, o) /\ Allocated(t, o) = Allocated(s, o)
<1> SUFFICES ASSUME NEW o PROVE Rows(t, o) = Rows(s, o) /\ Allocated(t, o) = Allocated(s, o)
  OBVIOUS
<1>1. Rows(t, o) = Rows(s, o)
  BY DEF Rows, SameQuantities
<1>2. PICK R : R = Rows(s, o) /\ R \subseteq DOMAIN s.allocations /\ IsFiniteSet(R)
  BY AllocatedType
<1> DEFINE f == [a \in R |-> s.allocations[a].quantity]
           g == [a \in R |-> t.allocations[a].quantity]
<1>3. \A a \in R : f[a] = g[a]
  BY <1>2 DEF SameQuantities
<1>4. Allocated(s, o) = SumFunctionOnSet(f, R) /\ Allocated(t, o) = SumFunctionOnSet(g, R)
  BY <1>1, <1>2 DEF Allocated
<1> HIDE DEF f, g
<1> QED
  BY <1>1, <1>2, <1>3, <1>4, SumCongruence

\* What is shipped, or comes back, for a row that stands: it never consumes less
\* than nothing or more than it reserved.
LEMMA AdjustedRowHolds ==
  ASSUME NEW s, Sound(s), NEW d \in DOMAIN s.deliveries, NEW sign \in {1, -1},
         NEW a \in DOMAIN s.allocations,
         sign = 1 /\ s.deliveries[d].lines[a] > 0 =>
           /\ s.allocations[a].consumed + s.deliveries[d].lines[a] <= s.allocations[a].quantity
           /\ s.allocations[a].reservation # "RELEASED",
         sign = -1 => s.deliveries[d].status \in Shipped
  PROVE  LET row == s.allocations[a]
             new == AdjustedRow(s, d, sign, a)
             lines == s.deliveries[d].lines[a]
         IN /\ new \in Allocations
            /\ new.order = row.order /\ new.location = row.location
            /\ new.quantity = row.quantity /\ new.picked = row.picked
            /\ new.packed = row.packed /\ new.state = row.state
            /\ new.consumed = row.consumed + sign * lines
            /\ lines > 0 => row.state # "RELEASED"
            /\ lines \in Nat /\ new.consumed <= new.quantity
            /\ new.reservation = "RELEASED" <=> new.state = "RELEASED"
            /\ new.reservation = "CONSUMED" => new.consumed = new.quantity
<1>1. /\ s \in States /\ a \in 1..MaxAllocations /\ s.deliveries[d].lines[a] \in Nat
      /\ s.allocations[a] \in Allocations
  BY LineType, TableRows DEF Sound
<1>2. PICK row, lines, consumed, new :
        /\ row = s.allocations[a] /\ lines = s.deliveries[d].lines[a]
        /\ consumed = row.consumed + sign * lines /\ new = AdjustedRow(s, d, sign, a)
  OBVIOUS
<1>3. /\ row \in Allocations /\ row.quantity \in Nat /\ row.consumed \in Nat
      /\ row.packed \in Nat /\ row.picked \in Nat /\ lines \in Nat
  BY <1>1, <1>2, RowColumns
<1>4. /\ row.packed <= row.picked /\ row.picked <= row.quantity
      /\ row.reservation = "RELEASED" <=> row.state = "RELEASED"
      /\ row.state = "RELEASED" => row.packed = 0
      /\ row.reservation = "CONSUMED" => row.consumed = row.quantity
  BY <1>2 DEF Sound, RowsHold
<1>5. /\ Claimed(s, a) \in Nat /\ Claimed(s, a) <= row.packed
      /\ OnDeliveries(s, a, Shipped) \in Nat /\ row.consumed = OnDeliveries(s, a, Shipped)
      /\ OnDeliveries(s, a, Shipped) <= Claimed(s, a)
      /\ s.deliveries[d].status \in Shipped => lines <= OnDeliveries(s, a, Shipped)
  BY <1>1, <1>2, OnDeliveriesType DEF Sound, ShipmentsHold, Claimed
<1>6. PICK quantity, used, packed, picked :
        /\ quantity = row.quantity /\ used = row.consumed /\ packed = row.packed
        /\ picked = row.picked
  OBVIOUS
<1>7. /\ quantity \in Nat /\ used \in Nat /\ packed \in Nat /\ picked \in Nat
      /\ used <= packed /\ packed <= picked /\ picked <= quantity
  BY <1>3, <1>4, <1>5, <1>6
<1>8. lines > 0 => row.state # "RELEASED"
  <2>1. CASE sign = 1
    BY <1>2, <1>4, <2>1
  <2>2. CASE sign = -1
    <3>1. lines <= packed
      <4>1. lines <= used
        BY <1>2, <1>5, <1>6, <2>2
      <4> QED
        BY <1>3, <1>7, <4>1
    <3>2. row.state = "RELEASED" => packed = 0
      BY <1>4, <1>6
    <3> QED
      BY <1>3, <1>7, <3>1, <3>2
  <2> QED
    BY <2>1, <2>2
<1>9. consumed \in Nat /\ consumed <= quantity /\ (lines = 0 => consumed = used)
  <2>1. CASE sign = 1
    <3>1. consumed = used + lines
      BY <1>2, <1>3, <1>6, <1>7, <2>1
    <3>2. lines > 0 => used + lines <= quantity
      BY <1>2, <1>6, <2>1
    <3> QED
      BY <1>3, <1>7, <3>1, <3>2
  <2>2. CASE sign = -1
    <3>1. consumed = used - lines
      BY <1>2, <1>3, <1>6, <1>7, <2>2
    <3>2. lines <= used
      BY <1>2, <1>5, <1>6, <2>2
    <3> QED
      BY <1>3, <1>7, <3>1, <3>2
  <2> QED
    BY <2>1, <2>2
<1>10. PICK mark : mark = IF lines = 0 THEN row.reservation
                          ELSE IF consumed < quantity THEN "ACTIVE" ELSE "CONSUMED"
  OBVIOUS
<1>11. /\ mark \in {"ACTIVE", "CONSUMED", "RELEASED"}
       /\ mark = "RELEASED" <=> row.state = "RELEASED"
       /\ mark = "CONSUMED" => consumed = quantity
  <2>1. CASE lines = 0
    <3>1. mark = row.reservation /\ consumed = used
      BY <1>9, <1>10, <2>1
    <3>2. row.reservation \in {"ACTIVE", "CONSUMED", "RELEASED"}
      BY <1>3, RowColumns
    <3> QED
      BY <1>4, <1>6, <3>1, <3>2
  <2>2. CASE lines # 0
    <3>1. lines > 0 /\ row.state # "RELEASED"
      BY <1>3, <1>8, <2>2
    <3>2. mark = IF consumed < quantity THEN "ACTIVE" ELSE "CONSUMED"
      BY <1>10, <2>2
    <3>3. ~(consumed < quantity) => consumed = quantity
      BY <1>7, <1>9
    <3> QED
      BY <3>1, <3>2, <3>3
  <2> QED
    BY <2>1, <2>2
<1>12. new = [row EXCEPT !.consumed = consumed, !.reservation = mark]
  BY <1>2, <1>6, <1>10 DEF AdjustedRow
<1>13. /\ new \in Allocations
       /\ new.order = row.order /\ new.location = row.location
       /\ new.quantity = row.quantity /\ new.picked = row.picked
       /\ new.packed = row.packed /\ new.state = row.state
       /\ new.consumed = consumed /\ new.reservation = mark
  BY <1>3, <1>9, <1>11, <1>12 DEF Allocations
<1> QED
  BY <1>2, <1>3, <1>6, <1>8, <1>9, <1>11, <1>13

\* Issuing a delivery order, or undoing its issue, keeps the tables sound: what
\* leaves the reservations is what leaves with it.
LEMMA ShipmentSound ==
  ASSUME NEW s, Sound(s), NEW d \in DOMAIN s.deliveries, NEW sign \in {1, -1}, NEW to, NEW t,
         t = [onHand |-> t.onHand, reserved |-> t.reserved, status |-> s.status,
              queue |-> s.queue, demands |-> s.demands, allocations |-> t.allocations,
              deliveries |-> t.deliveries],
         t.onHand \in [Locations -> Nat], Covered(t),
         t.reserved = [l \in Locations |-> s.reserved[l] - sign * Load(s, d)[l]],
         t.allocations = [a \in DOMAIN s.allocations |-> AdjustedRow(s, d, sign, a)],
         t.deliveries = [s.deliveries EXCEPT ![d].status = to],
         sign = 1 =>
           /\ s.deliveries[d].status \in Claiming \ Shipped /\ to \in Shipped
           /\ \A a \in DOMAIN s.allocations :
                s.deliveries[d].lines[a] > 0 =>
                  /\ s.allocations[a].consumed + s.deliveries[d].lines[a]
                       <= s.allocations[a].quantity
                  /\ s.allocations[a].reservation # "RELEASED",
         sign = -1 => s.deliveries[d].status \in Shipped /\ to \in Claiming \ Shipped
  PROVE  Sound(t)
<1> DEFINE A == DOMAIN s.allocations
<1>0. /\ s \in States /\ IsFiniteSet(A) /\ A = 1..Len(s.allocations)
      /\ Len(s.allocations) \in Nat /\ Len(s.allocations) <= MaxAllocations
      /\ \A a \in A : a \in 1..MaxAllocations
      /\ \A a \in A : s.deliveries[d].lines[a] \in Nat
  BY TableRows, LineType DEF Sound
<1>1. /\ t.status = s.status /\ t.queue = s.queue /\ t.demands = s.demands
  OBVIOUS
<1>2. \A a \in A :
        /\ t.allocations[a] \in Allocations
        /\ t.allocations[a].order = s.allocations[a].order
        /\ t.allocations[a].location = s.allocations[a].location
        /\ t.allocations[a].quantity = s.allocations[a].quantity
        /\ t.allocations[a].picked = s.allocations[a].picked
        /\ t.allocations[a].packed = s.allocations[a].packed
        /\ t.allocations[a].state = s.allocations[a].state
        /\ t.allocations[a].consumed
             = s.allocations[a].consumed + sign * s.deliveries[d].lines[a]
        /\ s.deliveries[d].lines[a] > 0 => s.allocations[a].state # "RELEASED"
        /\ t.allocations[a].consumed <= t.allocations[a].quantity
        /\ t.allocations[a].reservation = "RELEASED" <=> t.allocations[a].state = "RELEASED"
        /\ t.allocations[a].reservation = "CONSUMED" =>
             t.allocations[a].consumed = t.allocations[a].quantity
  <2> SUFFICES ASSUME NEW a \in A
               PROVE  LET row == s.allocations[a]
                          new == AdjustedRow(s, d, sign, a)
                          lines == s.deliveries[d].lines[a]
                      IN /\ new \in Allocations
                         /\ new.order = row.order /\ new.location = row.location
                         /\ new.quantity = row.quantity /\ new.picked = row.picked
                         /\ new.packed = row.packed /\ new.state = row.state
                         /\ new.consumed = row.consumed + sign * lines
                         /\ lines > 0 => row.state # "RELEASED"
                         /\ lines \in Nat /\ new.consumed <= new.quantity
                         /\ new.reservation = "RELEASED" <=> new.state = "RELEASED"
                         /\ new.reservation = "CONSUMED" => new.consumed = new.quantity
    OBVIOUS
  <2> QED
    BY AdjustedRowHolds
<1>3. DOMAIN t.allocations = A /\ SameQuantities(s, t)
  BY <1>2 DEF SameQuantities
<1>4. t.allocations \in Seq(Allocations) /\ Len(t.allocations) = Len(s.allocations)
  <2>1. t.allocations \in [1..Len(s.allocations) -> Allocations]
    BY <1>0, <1>2
  <2> QED
    BY <1>0, <2>1
<1>5. /\ t.deliveries \in Seq(Deliveries) /\ DOMAIN t.deliveries = DOMAIN s.deliveries
      /\ \A e \in DOMAIN s.deliveries :
           /\ t.deliveries[e].order = s.deliveries[e].order
           /\ t.deliveries[e].lines = s.deliveries[e].lines
  <2>1. to \in Claiming
    BY DEF Claiming
  <2>2. s.deliveries[d] \in Deliveries /\ s.deliveries \in Seq(Deliveries)
    BY <1>0, TableRows, Columns
  <2>3. [s.deliveries[d] EXCEPT !.status = to] \in Deliveries
    BY <2>1, <2>2 DEF Deliveries
  <2>4. t.deliveries = [s.deliveries EXCEPT ![d] = [s.deliveries[d] EXCEPT !.status = to]]
    OBVIOUS
  <2>5. t.deliveries \in Seq(Deliveries)
    BY <2>2, <2>3, <2>4
  <2>6. /\ [s.deliveries[d] EXCEPT !.status = to].order = s.deliveries[d].order
        /\ [s.deliveries[d] EXCEPT !.status = to].lines = s.deliveries[d].lines
    BY <2>2 DEF Deliveries
  <2> QED
    BY <2>4, <2>5, <2>6
<1>6. \A l \in Locations : t.reserved[l] = SumFunctionOnSet(Outstanding(t, l), A) /\ t.reserved[l] \in Nat
  <2> SUFFICES ASSUME NEW l \in Locations
               PROVE  t.reserved[l] = SumFunctionOnSet(Outstanding(t, l), A) /\ t.reserved[l] \in Nat
    OBVIOUS
  <2>1. PICK f, g, h : f = Outstanding(s, l) /\ g = Outstanding(t, l) /\ h = Loaded(s, d, l)
    OBVIOUS
  <2>2. /\ \A a \in A : h[a] \in Nat
        /\ Load(s, d)[l] = SumFunctionOnSet(h, A) /\ Load(s, d)[l] \in Nat
    BY <2>1, LoadIsSum
  <2>3. \A a \in A : f[a] \in Int /\ g[a] \in Nat /\ g[a] = f[a] - sign * h[a]
    <3> SUFFICES ASSUME NEW a \in A
                 PROVE  f[a] \in Int /\ g[a] \in Nat /\ g[a] = f[a] - sign * h[a]
      OBVIOUS
    <3>1. PICK q, c, c2, m : /\ q = s.allocations[a].quantity /\ c = s.allocations[a].consumed
                             /\ c2 = t.allocations[a].consumed /\ m = s.deliveries[d].lines[a]
      OBVIOUS
    <3>2. /\ q \in Nat /\ c \in Nat /\ c2 \in Nat /\ m \in Nat /\ c2 <= q
          /\ c2 = c + sign * m /\ t.allocations[a].quantity = q
      BY <1>0, <1>2, <3>1, TableRows, RowColumns
    <3>3. CASE s.allocations[a].location = l /\ s.allocations[a].state # "RELEASED"
      <4>1. f[a] = q - c /\ g[a] = q - c2 /\ h[a] = m
        BY <1>2, <1>3, <2>1, <3>1, <3>2, <3>3 DEF Outstanding, Loaded
      <4> QED
        BY <3>2, <4>1
    <3>4. CASE ~(s.allocations[a].location = l /\ s.allocations[a].state # "RELEASED")
      <4>1. f[a] = 0 /\ g[a] = 0
        BY <1>2, <1>3, <2>1, <3>4 DEF Outstanding
      <4>2. h[a] = 0
        <5>1. s.allocations[a].location = l => m = 0
          <6>1. m > 0 => s.allocations[a].state # "RELEASED"
            BY <1>2, <3>1
          <6>2. s.allocations[a].location = l => ~(m > 0)
            BY <3>4, <6>1
          <6> QED
            BY <3>2, <6>2
        <5> QED
          BY <2>1, <3>1, <5>1 DEF Loaded
      <4> QED
        BY <4>1, <4>2
    <3> QED
      BY <3>3, <3>4
  <2>4. s.reserved[l] = SumFunctionOnSet(f, A)
    BY <2>1 DEF Sound, Booked
  <2>5. t.reserved[l] = s.reserved[l] - sign * Load(s, d)[l]
    OBVIOUS
  <2>6. SumFunctionOnSet(f, A) \in Int /\ SumFunctionOnSet(g, A) \in Nat
    <3>1. \A a \in A : f[a] \in Int
      BY <2>3
    <3>2. \A a \in A : g[a] \in Nat
      BY <2>3
    <3> QED
      BY <1>0, <3>1, <3>2, SumType, SumNat
  <2>7. CASE sign = 1
    <3>1. \A a \in A : g[a] \in Int /\ h[a] \in Int /\ f[a] = g[a] + h[a]
      BY <2>2, <2>3, <2>7
    <3>2. SumFunctionOnSet(f, A) = SumFunctionOnSet(g, A) + SumFunctionOnSet(h, A)
      <4>1. IsFiniteSet(A)
        BY <1>0
      <4> QED
        BY ONLY <3>1, <4>1, SumOfTwo
    <3>3. t.reserved[l] = s.reserved[l] - Load(s, d)[l]
      BY <2>2, <2>5, <2>7
    <3> QED
      BY <2>1, <2>2, <2>4, <2>6, <3>2, <3>3
  <2>8. CASE sign = -1
    <3>1. \A a \in A : f[a] \in Int /\ h[a] \in Int /\ g[a] = f[a] + h[a]
      BY <2>2, <2>3, <2>8
    <3>2. SumFunctionOnSet(g, A) = SumFunctionOnSet(f, A) + SumFunctionOnSet(h, A)
      <4>1. IsFiniteSet(A)
        BY <1>0
      <4> QED
        BY ONLY <3>1, <4>1, SumOfTwo
    <3>3. t.reserved[l] = s.reserved[l] + Load(s, d)[l]
      <4>1. s.reserved[l] \in Nat
        BY <1>0, Columns
      <4> QED
        BY <2>2, <2>5, <2>8, <4>1
    <3> QED
      BY <2>1, <2>2, <2>4, <2>6, <3>2, <3>3
  <2> QED
    BY <2>7, <2>8
<1>7. t \in States
  <2>1. t.reserved \in [Locations -> Nat]
    BY <1>6
  <2> QED
    BY <1>0, <1>4, <1>5, <2>1, Columns DEF States
<1>8. Booked(t)
  BY <1>3, <1>6 DEF Booked
<1>9. RowsHold(t)
  <2> SUFFICES ASSUME NEW a \in A
               PROVE  LET row == t.allocations[a] IN
                      /\ row.packed <= row.picked /\ row.picked <= row.quantity
                      /\ row.reservation = "RELEASED" <=> row.state = "RELEASED"
                      /\ row.state = "RELEASED" => row.packed = 0
                      /\ row.reservation = "CONSUMED" => row.consumed = row.quantity
                      /\ row.state # "RELEASED" => t.status[row.order] = "confirmed"
    BY <1>3 DEF RowsHold
  <2>1. LET row == s.allocations[a] IN
        /\ row.packed <= row.picked /\ row.picked <= row.quantity
        /\ row.state = "RELEASED" => row.packed = 0
        /\ row.state # "RELEASED" => s.status[row.order] = "confirmed"
    BY DEF Sound, RowsHold
  <2> QED
    BY <1>1, <1>2, <2>1
<1>10. ShipmentsHold(t)
  <2> SUFFICES ASSUME NEW a \in A
               PROVE  /\ Claimed(t, a) <= t.allocations[a].packed
                      /\ t.allocations[a].consumed = OnDeliveries(t, a, Shipped)
    BY <1>3 DEF ShipmentsHold
  <2>1. a \in 1..MaxAllocations
    BY <1>0
  <2>2. PICK m \in Nat : m = s.deliveries[d].lines[a]
    BY <1>0
  <2>3. /\ OnDeliveries(s, a, Shipped) \in Nat /\ Claimed(s, a) \in Nat
        /\ Claimed(s, a) <= s.allocations[a].packed
        /\ s.allocations[a].consumed = OnDeliveries(s, a, Shipped)
    BY <2>1, OnDeliveriesType DEF Sound, ShipmentsHold, Claimed
  <2>4. Claimed(t, a) = Claimed(s, a)
    <3>1. to \in Claiming /\ s.deliveries[d].status \in Claiming
      BY DEF Claiming
    <3>2. OnDeliveries(t, a, Claiming) = OnDeliveries(s, a, Claiming) + m - m
      BY <2>1, <2>2, <3>1, OneDeliveryMoves
    <3> QED
      BY <2>2, <2>3, <3>2 DEF Claimed
  <2>5. OnDeliveries(t, a, Shipped) = OnDeliveries(s, a, Shipped) + sign * m
    <3>1. OnDeliveries(t, a, Shipped) =
            OnDeliveries(s, a, Shipped) + (IF to \in Shipped THEN m ELSE 0)
              - (IF s.deliveries[d].status \in Shipped THEN m ELSE 0)
      BY <2>1, <2>2, OneDeliveryMoves
    <3>2. CASE sign = 1
      BY <2>2, <2>3, <3>1, <3>2
    <3>3. CASE sign = -1
      BY <2>2, <2>3, <3>1, <3>3
    <3> QED
      BY <3>2, <3>3
  <2> QED
    BY <1>2, <2>2, <2>3, <2>4, <2>5
<1>11. LinesHold(t)
  <2> SUFFICES ASSUME NEW e \in DOMAIN t.deliveries, NEW a \in 1..MaxAllocations,
                      t.deliveries[e].lines[a] > 0
               PROVE  /\ a \in DOMAIN t.allocations
                      /\ t.allocations[a].order = t.deliveries[e].order
    BY DEF LinesHold
  <2>1. e \in DOMAIN s.deliveries /\ s.deliveries[e].lines[a] > 0
    BY <1>5
  <2>2. a \in A /\ s.allocations[a].order = s.deliveries[e].order
    BY <2>1 DEF Sound, LinesHold
  <2> QED
    BY <1>2, <1>3, <1>5, <2>1, <2>2
<1>12. DemandsHold(t)
  <2>1. \A o : Allocated(t, o) = Allocated(s, o)
    BY <1>0, <1>3, SameAllocated
  <2> QED
    BY <1>1, <2>1 DEF Sound, DemandsHold
<1> QED
  BY <1>0, <1>4, <1>7, <1>8, <1>9, <1>10, <1>11, <1>12 DEF Sound

\* What a posting, a delivery's status and an adjustment write.
LEMMA MovedFields ==
  ASSUME NEW s \in States, NEW delta
  PROVE  Moved(s, delta) =
           [onHand |-> Posted(s.onHand, delta), reserved |-> s.reserved, status |-> s.status,
            queue |-> s.queue, demands |-> s.demands, allocations |-> s.allocations,
            deliveries |-> s.deliveries]
<1>1. s = [onHand |-> s.onHand, reserved |-> s.reserved, status |-> s.status,
           queue |-> s.queue, demands |-> s.demands,
           allocations |-> s.allocations, deliveries |-> s.deliveries]
  BY DEF States
<1>2. PICK H : H = Posted(s.onHand, delta)
  OBVIOUS
<1>3. Moved(s, delta) = [s EXCEPT !.onHand = H]
  BY <1>2 DEF Moved
<1> QED
  BY <1>1, <1>2, <1>3

\* An issue, or its reversal with sign -1, changes the reserved column, the
\* rows its delivery order takes from and the status of that order.
LEMMA AdjustedFields ==
  ASSUME NEW s \in States, NEW d, NEW sign, NEW to
  PROVE  WithDelivery(Adjusted(s, d, sign), d, to) =
           [onHand |-> s.onHand,
            reserved |-> [l \in Locations |-> s.reserved[l] - sign * Load(s, d)[l]],
            status |-> s.status, queue |-> s.queue, demands |-> s.demands,
            allocations |-> [a \in DOMAIN s.allocations |-> AdjustedRow(s, d, sign, a)],
            deliveries |-> [s.deliveries EXCEPT ![d].status = to]]
<1>1. s = [onHand |-> s.onHand, reserved |-> s.reserved, status |-> s.status,
           queue |-> s.queue, demands |-> s.demands,
           allocations |-> s.allocations, deliveries |-> s.deliveries]
  BY DEF States
<1>2. PICK R, A : /\ R = [l \in Locations |-> s.reserved[l] - sign * Load(s, d)[l]]
                  /\ A = [a \in DOMAIN s.allocations |-> AdjustedRow(s, d, sign, a)]
  OBVIOUS
<1>3. Adjusted(s, d, sign) = [s EXCEPT !.reserved = R, !.allocations = A]
  <2>1. Adjusted(s, d, sign) =
          [s EXCEPT !.reserved = [l \in Locations |-> s.reserved[l] - sign * Load(s, d)[l]],
                    !.allocations = [a \in DOMAIN s.allocations |-> AdjustedRow(s, d, sign, a)]]
    BY Zenon DEF Adjusted
  <2> QED
    BY <1>2, <2>1
<1>4. Adjusted(s, d, sign) =
        [onHand |-> s.onHand, reserved |-> R, status |-> s.status, queue |-> s.queue,
         demands |-> s.demands, allocations |-> A, deliveries |-> s.deliveries]
  BY <1>1, <1>3
<1> QED
  BY <1>2, <1>4 DEF WithDelivery

\* A change of status changes one column of one delivery order.
LEMMA WithDeliveryFields ==
  ASSUME NEW s \in States, NEW d, NEW to
  PROVE  WithDelivery(s, d, to) =
           [onHand |-> s.onHand, reserved |-> s.reserved, status |-> s.status,
            queue |-> s.queue, demands |-> s.demands, allocations |-> s.allocations,
            deliveries |-> [s.deliveries EXCEPT ![d].status = to]]
<1>1. s = [onHand |-> s.onHand, reserved |-> s.reserved, status |-> s.status,
           queue |-> s.queue, demands |-> s.demands,
           allocations |-> s.allocations, deliveries |-> s.deliveries]
  BY DEF States
<1>2. WithDelivery(s, d, to) = [s EXCEPT !.deliveries = [s.deliveries EXCEPT ![d].status = to]]
  BY <1>1 DEF WithDelivery
<1> QED
  BY <1>1, <1>2

\* The tables differ in the stock on hand at most.
SameButStock(s, t) ==
  /\ t.reserved = s.reserved /\ t.status = s.status /\ t.queue = s.queue
  /\ t.demands = s.demands /\ t.allocations = s.allocations /\ t.deliveries = s.deliveries

\* What is counted of reservations and deliveries does not look at the stock.
LEMMA StockApart ==
  ASSUME NEW s, NEW t, SameButStock(s, t)
  PROVE  /\ \A o : Rows(t, o) = Rows(s, o) /\ Allocated(t, o) = Allocated(s, o)
         /\ \A a, st : OnDeliveries(t, a, st) = OnDeliveries(s, a, st)
         /\ \A a : Claimed(t, a) = Claimed(s, a)
         /\ \A l : Outstanding(t, l) = Outstanding(s, l)
         /\ \A d : Load(t, d) = Load(s, d)
<1>1. \A o : Rows(t, o) = Rows(s, o)
  BY DEF SameButStock, Rows
<1>2. \A o : Allocated(t, o) = Allocated(s, o)
  BY <1>1 DEF SameButStock, Allocated
<1>3. \A a, st : OnDeliveries(t, a, st) = OnDeliveries(s, a, st)
  BY DEF SameButStock, OnDeliveries
<1>4. \A a : Claimed(t, a) = Claimed(s, a)
  BY <1>3 DEF Claimed
<1>6. \A l : Outstanding(t, l) = Outstanding(s, l)
  BY DEF SameButStock, Outstanding
<1>7. \A d : Load(t, d) = Load(s, d)
  BY DEF SameButStock, Load
<1> QED
  BY <1>1, <1>2, <1>3, <1>4, <1>6, <1>7

\* A posting that leaves the reserved stock of every scope keeps the tables sound.
LEMMA MovedSound ==
  ASSUME NEW s, Sound(s), NEW delta,
         \A l \in Locations : delta[l] \in Int /\ s.onHand[l] + delta[l] >= s.reserved[l]
  PROVE  Sound(Moved(s, delta)) /\ SameButStock(s, Moved(s, delta))
<1>0. s \in States
  BY DEF Sound
<1>1. PICK t : t = Moved(s, delta)
  OBVIOUS
<1>2. t = [onHand |-> Posted(s.onHand, delta), reserved |-> s.reserved, status |-> s.status,
           queue |-> s.queue, demands |-> s.demands, allocations |-> s.allocations,
           deliveries |-> s.deliveries]
  BY <1>0, <1>1, MovedFields
<1>3. SameButStock(s, t) /\ t.onHand = [l \in Locations |-> s.onHand[l] + delta[l]]
  BY <1>2 DEF SameButStock, Posted
<1>4. \A l \in Locations : t.onHand[l] \in Nat /\ t.reserved[l] <= t.onHand[l]
  <2> SUFFICES ASSUME NEW l \in Locations PROVE t.onHand[l] \in Nat /\ t.reserved[l] <= t.onHand[l]
    OBVIOUS
  <2>1. s.onHand[l] \in Nat /\ s.reserved[l] \in Nat /\ delta[l] \in Int
    BY <1>0, Columns
  <2>2. t.onHand[l] = s.onHand[l] + delta[l] /\ t.reserved[l] = s.reserved[l]
    BY <1>3 DEF SameButStock
  <2> QED
    BY <2>1, <2>2
<1>5. t \in States
  <2>1. t.onHand \in [Locations -> Nat]
    BY <1>3, <1>4
  <2> QED
    BY <1>0, <1>2, <2>1, Columns DEF States
<1>6. /\ \A o : Allocated(t, o) = Allocated(s, o)
      /\ \A a : Claimed(t, a) = Claimed(s, a)
      /\ \A a : OnDeliveries(t, a, Shipped) = OnDeliveries(s, a, Shipped)
      /\ \A l : Outstanding(t, l) = Outstanding(s, l)
  BY <1>3, StockApart
<1>7. Covered(t)
  BY <1>4 DEF Covered
<1>8. Booked(t)
  BY <1>3, <1>6 DEF Sound, SameButStock, Booked
<1>9. RowsHold(t) /\ LinesHold(t) /\ Len(t.allocations) <= MaxAllocations
  BY <1>3 DEF Sound, SameButStock, RowsHold, LinesHold
<1>10. ShipmentsHold(t)
  BY <1>3, <1>6 DEF Sound, SameButStock, ShipmentsHold
<1>11. DemandsHold(t)
  BY <1>3, <1>6 DEF Sound, SameButStock, DemandsHold
<1> QED
  BY <1>1, <1>3, <1>5, <1>7, <1>8, <1>9, <1>10, <1>11 DEF Sound

\* The tables before and after the work of a delivery order is undone: orders
\* stay, no hold is lost, allocations keep their quantities, and d has status to.
Unshipped(s, t, d, to) ==
  /\ t.status = s.status /\ t.queue = s.queue /\ DemandsGrow(s, t)
  /\ SameQuantities(s, t)
  /\ t.deliveries = [s.deliveries EXCEPT ![d].status = to]

\* Undoing the issue of a delivery order keeps the tables sound, although the
\* stock that comes back is offered to the orders that wait before the
\* reservations it belongs to are restored.
LEMMA IssueReversedSound ==
  ASSUME NEW s, Sound(s), NEW d \in DOMAIN s.deliveries, s.deliveries[d].status \in Shipped
  PROVE  /\ Sound(IssueReversed(s, d))
         /\ Unshipped(s, IssueReversed(s, d), d, "ready_to_dispatch")
<1>1. PICK m, r, t : /\ m = Moved(s, Load(s, d)) /\ r = Replenished(m)
                     /\ t = WithDelivery(Adjusted(r, d, -1), d, "ready_to_dispatch")
  OBVIOUS
<1>2. t = IssueReversed(s, d)
  BY <1>1 DEF IssueReversed
<1>3. s \in States /\ \A l \in Locations : Load(s, d)[l] \in Nat
  BY LoadIsSum DEF Sound
<1>4. Sound(m) /\ SameButStock(s, m)
  <2>1. \A l \in Locations : Load(s, d)[l] \in Int /\ s.onHand[l] + Load(s, d)[l] >= s.reserved[l]
    <3> SUFFICES ASSUME NEW l \in Locations
                 PROVE  Load(s, d)[l] \in Int /\ s.onHand[l] + Load(s, d)[l] >= s.reserved[l]
      OBVIOUS
    <3>1. s.onHand[l] \in Nat /\ s.reserved[l] \in Nat /\ s.reserved[l] <= s.onHand[l]
      BY <1>3, Columns DEF Sound, Covered
    <3> QED
      BY <1>3, <3>1
  <2> QED
    BY <1>1, <2>1, MovedSound
<1>5. Sound(r) /\ SameButDemands(m, r) /\ DemandsGrow(m, r)
  BY <1>1, <1>4, ReplenishedSound
<1>6. r \in States /\ m \in States
  BY <1>4, <1>5 DEF Sound
<1>7. t = [onHand |-> r.onHand,
           reserved |-> [l \in Locations |-> r.reserved[l] - (-1) * Load(r, d)[l]],
           status |-> r.status, queue |-> r.queue, demands |-> r.demands,
           allocations |-> [a \in DOMAIN r.allocations |-> AdjustedRow(r, d, -1, a)],
           deliveries |-> [r.deliveries EXCEPT ![d].status = "ready_to_dispatch"]]
  BY <1>1, <1>6, AdjustedFields
<1>8. /\ r.allocations = s.allocations /\ r.deliveries = s.deliveries
      /\ r.status = s.status /\ r.queue = s.queue /\ r.reserved = s.reserved
      /\ r.onHand = m.onHand /\ m.demands = s.demands
  BY <1>4, <1>5 DEF SameButStock, SameButDemands
<1>9. Load(r, d) = Load(s, d)
  <2>1. Load(r, d) = Load(m, d)
    BY <1>5, DemandsApart
  <2>2. Load(m, d) = Load(s, d)
    BY <1>4, StockApart
  <2> QED
    BY <2>1, <2>2
<1>10. Covered(t)
  <2> SUFFICES ASSUME NEW l \in Locations PROVE t.reserved[l] <= t.onHand[l]
    BY DEF Covered
  <2>1. PICK k \in Nat : k = Load(s, d)[l]
    BY <1>3
  <2>2. s.onHand[l] \in Nat /\ s.reserved[l] \in Nat /\ s.reserved[l] <= s.onHand[l]
    BY <1>3, Columns DEF Sound, Covered
  <2>3. m.onHand[l] = s.onHand[l] + k
    BY <1>1, <1>3, <2>1, MovedFields DEF Posted
  <2>4. t.onHand[l] = s.onHand[l] + k /\ t.reserved[l] = s.reserved[l] - (-1) * k
    BY <1>7, <1>8, <1>9, <2>1, <2>3
  <2> QED
    BY <2>1, <2>2, <2>4
<1>11. Sound(t)
  <2>1. d \in DOMAIN r.deliveries /\ r.deliveries[d].status \in Shipped
    BY <1>8
  <2>2. /\ t = [onHand |-> t.onHand, reserved |-> t.reserved, status |-> r.status,
                queue |-> r.queue, demands |-> r.demands, allocations |-> t.allocations,
                deliveries |-> t.deliveries]
        /\ t.onHand \in [Locations -> Nat]
        /\ t.reserved = [l \in Locations |-> r.reserved[l] - (-1) * Load(r, d)[l]]
        /\ t.allocations = [a \in DOMAIN r.allocations |-> AdjustedRow(r, d, -1, a)]
        /\ t.deliveries = [r.deliveries EXCEPT ![d].status = "ready_to_dispatch"]
    BY <1>6, <1>7, Columns
  <2>3. -1 \in {1, -1} /\ -1 # 1 /\ "ready_to_dispatch" \in Claiming \ Shipped
    BY DEF Claiming, Shipped
  <2> QED
    BY ONLY <1>5, <1>10, <2>1, <2>2, <2>3, ShipmentSound
<1>12. SameQuantities(s, t)
  <2>1. DOMAIN t.allocations = DOMAIN s.allocations
    BY <1>7, <1>8
  <2>2. ASSUME NEW a \in DOMAIN s.allocations
        PROVE  /\ t.allocations[a].order = s.allocations[a].order
               /\ t.allocations[a].location = s.allocations[a].location
               /\ t.allocations[a].quantity = s.allocations[a].quantity
               /\ t.allocations[a].state = s.allocations[a].state
    <3>1. t.allocations[a] = AdjustedRow(r, d, -1, a)
      BY <1>7, <1>8
    <3>2. s.allocations[a] \in Allocations /\ r.allocations[a] = s.allocations[a]
      BY <1>3, <1>8, TableRows
    <3> QED
      BY <3>1, <3>2 DEF AdjustedRow, Allocations
  <2> QED
    BY <2>1, <2>2 DEF SameQuantities
<1>13. Unshipped(s, t, d, "ready_to_dispatch")
  <2>1. /\ t.status = r.status /\ t.queue = r.queue /\ t.demands = r.demands
        /\ t.deliveries = [r.deliveries EXCEPT ![d].status = "ready_to_dispatch"]
    BY <1>7
  <2>2. DemandsGrow(s, t)
    BY <1>5, <1>8, <2>1 DEF DemandsGrow
  <2> QED
    BY <1>8, <1>12, <2>1, <2>2 DEF Unshipped
<1> QED
  BY <1>2, <1>11, <1>13

\* A delivery order that has not left moves on to another status in which it has
\* not left either, and gains no claim: the tables stay sound.
LEMMA WithDeliverySound ==
  ASSUME NEW s, Sound(s), NEW d \in DOMAIN s.deliveries, s.deliveries[d].status \notin Shipped,
         NEW to, to \in (Claiming \union {"cancelled"}) \ Shipped,
         to \in Claiming => s.deliveries[d].status \in Claiming
  PROVE  LET t == WithDelivery(s, d, to)
         IN /\ Sound(t)
            /\ t.onHand = s.onHand /\ t.reserved = s.reserved /\ t.status = s.status
            /\ t.queue = s.queue /\ t.demands = s.demands /\ t.allocations = s.allocations
            /\ t.deliveries = [s.deliveries EXCEPT ![d].status = to]
<1>0. s \in States
  BY DEF Sound
<1>1. PICK t : t = WithDelivery(s, d, to)
  OBVIOUS
<1>2. t = [onHand |-> s.onHand, reserved |-> s.reserved, status |-> s.status,
            queue |-> s.queue, demands |-> s.demands, allocations |-> s.allocations,
            deliveries |-> [s.deliveries EXCEPT ![d].status = to]]
  BY <1>0, <1>1, WithDeliveryFields
<1>3. /\ t.onHand = s.onHand /\ t.reserved = s.reserved /\ t.status = s.status
      /\ t.queue = s.queue /\ t.demands = s.demands /\ t.allocations = s.allocations
      /\ t.deliveries = [s.deliveries EXCEPT ![d].status = to]
  BY <1>2
<1>4. /\ t.deliveries \in Seq(Deliveries) /\ DOMAIN t.deliveries = DOMAIN s.deliveries
      /\ \A e \in DOMAIN s.deliveries :
           /\ t.deliveries[e].order = s.deliveries[e].order
           /\ t.deliveries[e].lines = s.deliveries[e].lines
  <2>2. s.deliveries[d] \in Deliveries /\ s.deliveries \in Seq(Deliveries)
    BY <1>0, TableRows, Columns
  <2>3. [s.deliveries[d] EXCEPT !.status = to] \in Deliveries
    BY <2>2 DEF Deliveries
  <2>4. t.deliveries = [s.deliveries EXCEPT ![d] = [s.deliveries[d] EXCEPT !.status = to]]
    BY <1>3
  <2>5. t.deliveries \in Seq(Deliveries)
    BY <2>2, <2>3, <2>4
  <2>6. /\ [s.deliveries[d] EXCEPT !.status = to].order = s.deliveries[d].order
        /\ [s.deliveries[d] EXCEPT !.status = to].lines = s.deliveries[d].lines
    BY <2>2 DEF Deliveries
  <2> QED
    BY <2>4, <2>5, <2>6
<1>5. t \in States
  BY <1>0, <1>2, <1>4, Columns DEF States
<1>6. \A a \in DOMAIN s.allocations :
        /\ Claimed(t, a) <= s.allocations[a].packed
        /\ OnDeliveries(t, a, Shipped) = OnDeliveries(s, a, Shipped)
  <2> SUFFICES ASSUME NEW a \in DOMAIN s.allocations
               PROVE  /\ Claimed(t, a) <= s.allocations[a].packed
                      /\ OnDeliveries(t, a, Shipped) = OnDeliveries(s, a, Shipped)
    OBVIOUS
  <2>1. a \in 1..MaxAllocations /\ s.deliveries[d].lines[a] \in Nat
    BY LineType
  <2>2. PICK m \in Nat : m = s.deliveries[d].lines[a]
    BY <2>1
  <2>3. /\ OnDeliveries(s, a, Shipped) \in Nat /\ OnDeliveries(s, a, Claiming) \in Nat
        /\ OnDeliveries(s, a, Claiming) <= s.allocations[a].packed
        /\ s.allocations[a].packed \in Nat
    BY <1>0, <2>1, OnDeliveriesType, TableRows, RowColumns DEF Sound, ShipmentsHold, Claimed
  <2>4. OnDeliveries(t, a, Shipped) = OnDeliveries(s, a, Shipped)
    <3>1. OnDeliveries(t, a, Shipped) = OnDeliveries(s, a, Shipped) + 0 - 0
      BY <1>3, <2>1, OneDeliveryMoves
    <3> QED
      BY <2>3, <3>1
  <2>5. OnDeliveries(t, a, Claiming) <= OnDeliveries(s, a, Claiming)
    <3>1. OnDeliveries(t, a, Claiming) =
            OnDeliveries(s, a, Claiming) + (IF to \in Claiming THEN m ELSE 0)
              - (IF s.deliveries[d].status \in Claiming THEN m ELSE 0)
      BY <1>3, <2>1, <2>2, OneDeliveryMoves
    <3>2. CASE to \in Claiming
      <4>1. OnDeliveries(t, a, Claiming) = OnDeliveries(s, a, Claiming) + m - m
        BY <3>1, <3>2
      <4> QED
        BY <2>2, <2>3, <4>1
    <3>3. CASE to \notin Claiming
      BY <2>2, <2>3, <3>1, <3>3
    <3> QED
      BY <3>2, <3>3
  <2>6. OnDeliveries(t, a, Claiming) \in Int
    <3>1. OnDeliveries(t, a, Claiming) =
            OnDeliveries(s, a, Claiming) + (IF to \in Claiming THEN m ELSE 0)
              - (IF s.deliveries[d].status \in Claiming THEN m ELSE 0)
      BY <1>3, <2>1, <2>2, OneDeliveryMoves
    <3> QED
      BY <2>2, <2>3, <3>1
  <2> QED
    BY <2>3, <2>4, <2>5, <2>6 DEF Claimed
<1>7. ShipmentsHold(t)
  BY <1>3, <1>6 DEF Sound, ShipmentsHold
<1>8. LinesHold(t)
  BY <1>3, <1>4 DEF Sound, LinesHold
<1>9. Covered(t) /\ RowsHold(t) /\ Len(t.allocations) <= MaxAllocations
  BY <1>3 DEF Sound, Covered, RowsHold
<1>10. Booked(t)
  BY <1>3 DEF Sound, Booked, Outstanding
<1>11. DemandsHold(t)
  <2>1. SameQuantities(s, t)
    BY <1>3 DEF SameQuantities
  <2>2. \A o : Allocated(t, o) = Allocated(s, o)
    BY <1>0, <2>1, SameAllocated
  <2> QED
    BY <1>3, <2>2 DEF Sound, DemandsHold
<1> QED
  BY <1>1, <1>3, <1>5, <1>7, <1>8, <1>9, <1>10, <1>11 DEF Sound

-----------------------------------------------------------------------------
(* Unwinding the execution of an order.                                    *)

IsUnwinding(s, o, r) ==
  r = [d \in 0..Len(s.deliveries) |->
         IF d = 0 THEN s
         ELSE IF s.deliveries[d].order # o \/ s.deliveries[d].status = "cancelled"
           THEN r[d - 1]
           ELSE WithDelivery(IF s.deliveries[d].status = "dispatched"
                               THEN IssueReversed(r[d - 1], d) ELSE r[d - 1],
                             d, "cancelled")]

Unwinding(s, o) == CHOOSE r : IsUnwinding(s, o, r)

\* The delivery order d in the state t of an unwinding that began in s.
UnwoundStep(s, o, t, d) ==
  IF s.deliveries[d].order # o \/ s.deliveries[d].status = "cancelled"
    THEN t
    ELSE WithDelivery(IF s.deliveries[d].status = "dispatched"
                        THEN IssueReversed(t, d) ELSE t,
                      d, "cancelled")

UnwindingTo(s, o, k, r) ==
  r = [d \in 0..k |-> IF d = 0 THEN s ELSE UnwoundStep(s, o, r[d - 1], d)]

\* The steps of an unwinding.
LEMMA UnwindingSteps ==
  ASSUME NEW s, NEW o, Len(s.deliveries) \in Nat
  PROVE  /\ DeliveriesUnwound(s, o) = Unwinding(s, o)[Len(s.deliveries)]
         /\ Unwinding(s, o)[0] = s
         /\ \A d \in 1..Len(s.deliveries) :
              Unwinding(s, o)[d] = UnwoundStep(s, o, Unwinding(s, o)[d - 1], d)
<1> DEFINE n == Len(s.deliveries)
           T == {k \in 0..n : \E r : UnwindingTo(s, o, k, r)}
<1>1. DeliveriesUnwound(s, o) = Unwinding(s, o)[n]
  BY Zenon DEF DeliveriesUnwound, Unwinding, IsUnwinding
<1>2. 0 \in T
  <2>1. UnwindingTo(s, o, 0, [i \in 0..0 |-> s])
    <3>1. 0..0 = {0}
      OBVIOUS
    <3> QED
      BY <3>1, Zenon DEF UnwindingTo
  <2> QED
    BY <2>1
<1>3. ASSUME NEW k \in 1..n, k - 1 \in T PROVE k \in T
  <2>1. PICK q : UnwindingTo(s, o, k - 1, q)
    BY <1>3
  <2>2. PICK r : r = [i \in 0..k |-> IF i = k THEN UnwoundStep(s, o, q[k - 1], k) ELSE q[i]]
    OBVIOUS
  <2>3. \A i \in 0..(k - 1) : i \in 0..k /\ i # k /\ r[i] = q[i]
    BY <2>2
  <2>4. /\ r[k] = UnwoundStep(s, o, q[k - 1], k)
        /\ k - 1 \in 0..(k - 1) /\ k \in 0..k /\ k # 0
    BY <2>2
  <2>5. \A i \in 0..k : r[i] = IF i = 0 THEN s ELSE UnwoundStep(s, o, r[i - 1], i)
    <3> SUFFICES ASSUME NEW i \in 0..k
                 PROVE  r[i] = IF i = 0 THEN s ELSE UnwoundStep(s, o, r[i - 1], i)
      OBVIOUS
    <3>1. CASE i = k
      <4>1. r[k - 1] = q[k - 1]
        BY <2>3, <2>4
      <4> QED
        BY <3>1, <4>1, <2>4, Zenon
    <3>2. CASE i # k
      <4>1. i \in 0..(k - 1) /\ r[i] = q[i]
        BY <3>2, <2>3
      <4>2. i # 0 => r[i - 1] = q[i - 1]
        <5>1. i # 0 => i - 1 \in 0..(k - 1)
          BY <4>1
        <5> QED
          BY <5>1, <2>3
      <4>3. q[i] = IF i = 0 THEN s ELSE UnwoundStep(s, o, q[i - 1], i)
        BY <2>1, <4>1, Zenon DEF UnwindingTo
      <4> QED
        BY <4>1, <4>2, <4>3, Zenon
    <3> QED
      BY <3>1, <3>2
  <2>6. UnwindingTo(s, o, k, r)
    <3>1. r = [i \in 0..k |-> r[i]]
      BY <2>2
    <3> QED
      BY <2>5, <3>1, Zenon DEF UnwindingTo
  <2> QED
    BY <2>6
<1>4. n \in T
  <2>1. n \in 0..n
    OBVIOUS
  <2>2. \A i \in 1..n : i - 1 \in T => i \in T
    BY <1>3
  <2> HIDE DEF T, n
  <2>3. n \in Nat
    BY DEF n
  <2> QED
    BY <1>2, <2>1, <2>2, <2>3, UpTo
<1>5. UnwindingTo(s, o, n, Unwinding(s, o))
  <2>1. PICK r : UnwindingTo(s, o, n, r)
    BY <1>4
  <2>2. IsUnwinding(s, o, r)
    BY <2>1, Zenon DEF UnwindingTo, UnwoundStep, IsUnwinding
  <2>3. IsUnwinding(s, o, Unwinding(s, o))
    BY <2>2, Zenon DEF Unwinding
  <2> QED
    BY <2>3, Zenon DEF UnwindingTo, UnwoundStep, IsUnwinding
<1>6. \A i \in 0..n : Unwinding(s, o)[i] =
         IF i = 0 THEN s ELSE UnwoundStep(s, o, Unwinding(s, o)[i - 1], i)
  BY <1>5, Zenon DEF UnwindingTo
<1>7. 0 \in 0..n /\ \A i \in 1..n : i \in 0..n /\ i # 0
  OBVIOUS
<1> QED
  BY <1>1, <1>6, <1>7, Zenon

\* How far the delivery orders of o are undone in t, up to number k.
UnwoundTo(s, o, t, k) ==
  /\ t.status = s.status /\ t.queue = s.queue /\ DemandsGrow(s, t)
  /\ SameQuantities(s, t) /\ DOMAIN t.deliveries = DOMAIN s.deliveries
  /\ \A e \in DOMAIN s.deliveries :
       /\ t.deliveries[e].order = s.deliveries[e].order
       /\ e > k \/ s.deliveries[e].order # o => t.deliveries[e] = s.deliveries[e]
       /\ e <= k /\ s.deliveries[e].order = o => t.deliveries[e].status = "cancelled"

\* One delivery order more.
LEMMA UnwindingOne ==
  ASSUME NEW s, Sound(s), NEW o, NEW d \in DOMAIN s.deliveries,
         s.deliveries[d].order = o => s.deliveries[d].status # "handed_over",
         NEW t, Sound(t), UnwoundTo(s, o, t, d - 1)
  PROVE  Sound(UnwoundStep(s, o, t, d)) /\ UnwoundTo(s, o, UnwoundStep(s, o, t, d), d)
<1>0. /\ s \in States /\ t \in States /\ DOMAIN s.deliveries \subseteq Nat
      /\ d \in Nat /\ t.deliveries[d] = s.deliveries[d] /\ d \in DOMAIN t.deliveries
      /\ s.deliveries[d] \in Deliveries
      /\ s.deliveries[d].status \in Claiming \union {"cancelled"}
      /\ DOMAIN t.deliveries = DOMAIN s.deliveries
  <2>1. s \in States /\ t \in States
    BY DEF Sound
  <2>2. DOMAIN s.deliveries \subseteq Nat /\ d \in Nat /\ d > d - 1
        /\ s.deliveries[d] \in Deliveries
    BY <2>1, TableRows
  <2> QED
    BY <2>1, <2>2, RowColumns DEF UnwoundTo
<1>1. PICK u : u = UnwoundStep(s, o, t, d)
  OBVIOUS
<1>2. CASE s.deliveries[d].order # o \/ s.deliveries[d].status = "cancelled"
  <2>1. u = t
    BY <1>1, <1>2 DEF UnwoundStep
  <2>2. UnwoundTo(s, o, t, d)
    <3> SUFFICES ASSUME NEW e \in DOMAIN s.deliveries
                 PROVE  /\ t.deliveries[e].order = s.deliveries[e].order
                        /\ e > d \/ s.deliveries[e].order # o =>
                             t.deliveries[e] = s.deliveries[e]
                        /\ e <= d /\ s.deliveries[e].order = o =>
                             t.deliveries[e].status = "cancelled"
      BY DEF UnwoundTo
    <3>1. e \in Nat /\ (e > d => e > d - 1) /\ (e <= d => e <= d - 1 \/ e = d)
      BY <1>0
    <3> QED
      BY <1>0, <1>2, <3>1 DEF UnwoundTo
  <2> QED
    BY <1>1, <2>1, <2>2
<1>3. CASE s.deliveries[d].order = o /\ s.deliveries[d].status # "cancelled"
  <2>1. PICK v : v = IF s.deliveries[d].status = "dispatched" THEN IssueReversed(t, d) ELSE t
    OBVIOUS
  <2>2. u = WithDelivery(v, d, "cancelled")
    BY <1>1, <1>3, <2>1 DEF UnwoundStep
  <2>3. /\ Sound(v) /\ v.status = s.status /\ v.queue = s.queue /\ DemandsGrow(s, v)
        /\ SameQuantities(s, v) /\ DOMAIN v.deliveries = DOMAIN s.deliveries
        /\ \A e \in DOMAIN s.deliveries \ {d} : v.deliveries[e] = t.deliveries[e]
        /\ v.deliveries[d].order = o /\ v.deliveries[d].status \notin Shipped
    <3>1. CASE s.deliveries[d].status = "dispatched"
      <4>1. v = IssueReversed(t, d) /\ t.deliveries[d].status \in Shipped
        BY <1>0, <2>1, <3>1 DEF Shipped
      <4>2. Sound(v) /\ Unshipped(t, v, d, "ready_to_dispatch")
        BY <1>0, <4>1, IssueReversedSound
      <4>3. DemandsGrow(s, v)
        <5>1. DemandsGrow(s, t) /\ DemandsGrow(t, v)
          BY <4>2 DEF Unshipped, UnwoundTo
        <5>2. v \in States
          BY <4>2 DEF Sound
        <5> QED
          BY <1>0, <5>1, <5>2, DemandsGrowOn
      <4>4. SameQuantities(s, v)
        BY <4>2 DEF Unshipped, UnwoundTo, SameQuantities
      <4>5. v.deliveries = [t.deliveries EXCEPT ![d].status = "ready_to_dispatch"]
        BY <4>2 DEF Unshipped
      <4>6. /\ v.deliveries[d] = [s.deliveries[d] EXCEPT !.status = "ready_to_dispatch"]
            /\ \A e \in DOMAIN s.deliveries \ {d} : v.deliveries[e] = t.deliveries[e]
            /\ DOMAIN v.deliveries = DOMAIN s.deliveries
        BY <1>0, <4>5
      <4>7. v.deliveries[d].order = o /\ v.deliveries[d].status = "ready_to_dispatch"
        BY <1>0, <1>3, <4>6 DEF Deliveries
      <4> QED
        BY <4>2, <4>3, <4>4, <4>6, <4>7 DEF Unshipped, UnwoundTo, Shipped
    <3>2. CASE s.deliveries[d].status # "dispatched"
      <4>1. v = t /\ s.deliveries[d].status \notin Shipped
        BY <1>3, <2>1, <3>2 DEF Shipped
      <4> QED
        BY <1>0, <1>3, <4>1 DEF UnwoundTo
    <3> QED
      BY <3>1, <3>2
  <2>4. /\ Sound(u) /\ u.status = v.status /\ u.queue = v.queue /\ u.demands = v.demands
        /\ u.allocations = v.allocations
        /\ u.deliveries = [v.deliveries EXCEPT ![d].status = "cancelled"]
    <3>1. d \in DOMAIN v.deliveries /\ "cancelled" \in (Claiming \union {"cancelled"}) \ Shipped
          /\ "cancelled" \notin Claiming
      BY <2>3 DEF Claiming, Shipped
    <3> QED
      BY <2>2, <2>3, <3>1, WithDeliverySound
  <2>5. v.deliveries[d] \in Deliveries
    <3>1. v \in States
      BY <2>3 DEF Sound
    <3> QED
      BY <2>3, <3>1, TableRows
  <2>6. /\ u.deliveries[d] = [v.deliveries[d] EXCEPT !.status = "cancelled"]
        /\ \A e \in DOMAIN s.deliveries \ {d} : u.deliveries[e] = t.deliveries[e]
        /\ DOMAIN u.deliveries = DOMAIN s.deliveries
    BY <2>3, <2>4
  <2>7. u.deliveries[d].order = o /\ u.deliveries[d].status = "cancelled"
    BY <2>3, <2>5, <2>6 DEF Deliveries
  <2>8. DemandsGrow(s, u) /\ SameQuantities(s, u)
    BY <2>3, <2>4 DEF DemandsGrow, SameQuantities
  <2>9. UnwoundTo(s, o, u, d)
    <3> SUFFICES ASSUME NEW e \in DOMAIN s.deliveries
                 PROVE  /\ u.deliveries[e].order = s.deliveries[e].order
                        /\ e > d \/ s.deliveries[e].order # o =>
                             u.deliveries[e] = s.deliveries[e]
                        /\ e <= d /\ s.deliveries[e].order = o =>
                             u.deliveries[e].status = "cancelled"
      BY <2>3, <2>4, <2>6, <2>8 DEF UnwoundTo
    <3>1. CASE e = d
      BY <1>0, <1>3, <2>7, <3>1
    <3>2. CASE e # d
      <4>1. e \in Nat /\ (e > d => e > d - 1) /\ (e <= d => e <= d - 1)
        BY <1>0, <3>2
      <4>2. u.deliveries[e] = t.deliveries[e]
        BY <2>6, <3>2
      <4> QED
        BY <4>1, <4>2 DEF UnwoundTo
    <3> QED
      BY <3>1, <3>2
  <2> QED
    BY <1>1, <2>4, <2>9
<1> QED
  BY <1>2, <1>3

\* With every delivery order of o undone the tables are still sound.
LEMMA DeliveriesUnwoundSound ==
  ASSUME NEW s, Sound(s), NEW o,
         \A d \in DOMAIN s.deliveries :
           s.deliveries[d].order = o => s.deliveries[d].status # "handed_over"
  PROVE  /\ Sound(DeliveriesUnwound(s, o))
         /\ UnwoundTo(s, o, DeliveriesUnwound(s, o), Len(s.deliveries))
<1> DEFINE n == Len(s.deliveries)
           r == Unwinding(s, o)
           T == {k \in 0..n : Sound(r[k]) /\ UnwoundTo(s, o, r[k], k)}
<1>0. s \in States /\ n \in Nat /\ DOMAIN s.deliveries = 1..n
  BY TableRows DEF Sound
<1>1. /\ DeliveriesUnwound(s, o) = r[n] /\ r[0] = s
      /\ \A d \in 1..n : r[d] = UnwoundStep(s, o, r[d - 1], d)
  BY <1>0, UnwindingSteps
<1>2. 0 \in T
  <2>1. DemandsGrow(s, s)
    <3>1. \A p \in Orders : s.demands[p].reserved \in Nat
      BY <1>0, TableRows, RowColumns
    <3> QED
      BY <3>1 DEF DemandsGrow
  <2>2. SameQuantities(s, s)
    BY DEF SameQuantities
  <2>3. \A e \in DOMAIN s.deliveries : e \in Nat /\ e > 0
    BY <1>0
  <2>4. UnwoundTo(s, o, s, 0)
    BY <2>1, <2>2, <2>3 DEF UnwoundTo
  <2> QED
    BY <1>0, <1>1, <2>4
<1>3. ASSUME NEW d \in 1..n, d - 1 \in T PROVE d \in T
  <2>1. PICK t, u : t = r[d - 1] /\ u = UnwoundStep(s, o, t, d)
    OBVIOUS
  <2>2. Sound(t) /\ UnwoundTo(s, o, t, d - 1) /\ d \in DOMAIN s.deliveries /\ r[d] = u
    BY <1>0, <1>1, <1>3, <2>1
  <2>3. Sound(u) /\ UnwoundTo(s, o, u, d)
    BY <2>1, <2>2, UnwindingOne
  <2>4. d \in 0..n
    BY <1>0
  <2> QED
    BY <2>2, <2>3, <2>4
<1>4. n \in T
  <2>1. n \in 0..n
    BY <1>0
  <2>2. \A i \in 1..n : i - 1 \in T => i \in T
    BY <1>3
  <2> HIDE DEF T, n
  <2> QED
    BY <1>0, <1>2, <2>1, <2>2, UpTo
<1> QED
  BY <1>1, <1>4

\* An allocation has consumed no more than was packed, and packed no more than
\* it reserves.
LEMMA RowColumnsFit ==
  ASSUME NEW s, Sound(s), NEW a \in DOMAIN s.allocations
  PROVE  LET row == s.allocations[a] IN
         /\ row \in Allocations /\ a \in 1..MaxAllocations
         /\ row.consumed <= row.packed /\ row.packed <= row.picked
         /\ row.picked <= row.quantity /\ row.consumed <= row.quantity
<1>1. s.allocations[a] \in Allocations /\ a \in 1..MaxAllocations
  BY TableRows, LineType DEF Sound
<1>2. /\ s.allocations[a].consumed \in Nat /\ s.allocations[a].packed \in Nat
      /\ s.allocations[a].picked \in Nat /\ s.allocations[a].quantity \in Nat
  BY <1>1, RowColumns
<1>3. /\ OnDeliveries(s, a, Shipped) <= Claimed(s, a)
      /\ s.allocations[a].consumed = OnDeliveries(s, a, Shipped)
      /\ Claimed(s, a) <= s.allocations[a].packed
      /\ s.allocations[a].packed <= s.allocations[a].picked
      /\ s.allocations[a].picked <= s.allocations[a].quantity
      /\ Claimed(s, a) \in Nat
  BY <1>1, OnDeliveriesType DEF Sound, ShipmentsHold, RowsHold, Claimed
<1>4. PICK x, y, z, c, q : /\ x = s.allocations[a].consumed /\ y = s.allocations[a].packed
                           /\ z = s.allocations[a].picked /\ q = s.allocations[a].quantity
                           /\ c = Claimed(s, a)
  OBVIOUS
<1>5. x \in Nat /\ y \in Nat /\ z \in Nat /\ c \in Nat /\ q \in Nat
      /\ x <= c /\ c <= y /\ y <= z /\ z <= q
  BY <1>2, <1>3, <1>4
<1>6. x <= y /\ x <= q
  BY ONLY <1>5
<1> QED
  BY <1>1, <1>4, <1>5, <1>6

\* What is left of a reservation is a quantity.
LEMMA OutstandingType ==
  ASSUME NEW s, Sound(s), NEW l
  PROVE  \A a \in DOMAIN s.allocations : Outstanding(s, l)[a] \in Nat
<1> SUFFICES ASSUME NEW a \in DOMAIN s.allocations PROVE Outstanding(s, l)[a] \in Nat
  OBVIOUS
<1>1. /\ s.allocations[a].consumed \in Nat /\ s.allocations[a].quantity \in Nat
      /\ s.allocations[a].consumed <= s.allocations[a].quantity
  BY RowColumnsFit, RowColumns
<1> QED
  BY <1>1 DEF Outstanding

\* The allocation a when what is left of the allocations of o is released.
ReleasedRow(s, o, a) ==
  IF a \notin Rows(s, o) THEN s.allocations[a]
  ELSE [s.allocations[a] EXCEPT !.picked = 0, !.packed = 0,
                                !.state = "RELEASED", !.reservation = "RELEASED"]

\* The allocations of o in scope l, and what is left of them.
RowsAt(s, o, l) == {a \in Rows(s, o) : s.allocations[a].location = l}

GivenBack(s, o, l) ==
  SumFunctionOnSet([a \in RowsAt(s, o, l) |-> s.allocations[a].quantity - s.allocations[a].consumed],
                   RowsAt(s, o, l))

\* The tables after the allocations of an order are released.
LEMMA ReleasedFields ==
  ASSUME NEW s \in States, NEW o
  PROVE  AllocationsReleased(s, o) =
           [onHand |-> s.onHand,
            reserved |-> [l \in Locations |-> s.reserved[l] - GivenBack(s, o, l)],
            status |-> s.status, queue |-> s.queue, demands |-> s.demands,
            allocations |-> [a \in DOMAIN s.allocations |-> ReleasedRow(s, o, a)],
            deliveries |-> s.deliveries]
<1>1. s = [onHand |-> s.onHand, reserved |-> s.reserved, status |-> s.status,
           queue |-> s.queue, demands |-> s.demands,
           allocations |-> s.allocations, deliveries |-> s.deliveries]
  BY DEF States
<1>2. PICK R, A : /\ R = [l \in Locations |-> s.reserved[l] - GivenBack(s, o, l)]
                  /\ A = [a \in DOMAIN s.allocations |-> ReleasedRow(s, o, a)]
  OBVIOUS
<1>3. AllocationsReleased(s, o) = [s EXCEPT !.reserved = R, !.allocations = A]
  <2>1. AllocationsReleased(s, o) =
          [s EXCEPT !.reserved = [l \in Locations |-> s.reserved[l] - GivenBack(s, o, l)],
                    !.allocations = [a \in DOMAIN s.allocations |-> ReleasedRow(s, o, a)]]
    BY Zenon DEF AllocationsReleased, GivenBack, RowsAt, ReleasedRow
  <2> QED
    BY <1>2, <2>1
<1>4. AllocationsReleased(s, o) =
        [onHand |-> s.onHand, reserved |-> R, status |-> s.status, queue |-> s.queue,
         demands |-> s.demands, allocations |-> A, deliveries |-> s.deliveries]
  BY <1>1, <1>3
<1> QED
  BY <1>2, <1>4

\* Nothing of an order is claimed when all its delivery orders are cancelled.
LEMMA NothingClaimed ==
  ASSUME NEW s, Sound(s), NEW o, NEW a \in DOMAIN s.allocations, s.allocations[a].order = o,
         \A d \in DOMAIN s.deliveries :
           s.deliveries[d].order = o => s.deliveries[d].status = "cancelled"
  PROVE  Claimed(s, a) = 0 /\ OnDeliveries(s, a, Shipped) = 0 /\ s.allocations[a].consumed = 0
<1>1. s \in States /\ IsFiniteSet(DOMAIN s.deliveries) /\ a \in 1..MaxAllocations
  BY TableRows, LineType DEF Sound
<1> DEFINE f(st) == [d \in DOMAIN s.deliveries |->
                       IF s.deliveries[d].status \in st THEN s.deliveries[d].lines[a] ELSE 0]
<1>2. ASSUME NEW st, "cancelled" \notin st PROVE OnDeliveries(s, a, st) = 0
  <2>1. \A d \in DOMAIN s.deliveries : f(st)[d] = 0
    <3> SUFFICES ASSUME NEW d \in DOMAIN s.deliveries, s.deliveries[d].status \in st
                 PROVE  s.deliveries[d].lines[a] = 0
      OBVIOUS
    <3>1. s.deliveries[d].order # o
      BY <1>2
    <3>2. ~(s.deliveries[d].lines[a] > 0)
      BY <1>1, <3>1 DEF Sound, LinesHold
    <3>3. s.deliveries[d].lines[a] \in Nat
      BY <1>1, LineType
    <3> QED
      BY <3>2, <3>3
  <2>2. PICK F, D : F = f(st) /\ D = DOMAIN s.deliveries
    OBVIOUS
  <2>3. IsFiniteSet(D) /\ {} \subseteq D /\ \A d \in D : F[d] \in Int /\ F[d] = 0
    BY <1>1, <2>1, <2>2
  <2>4. SumFunctionOnSet(F, D) = SumFunctionOnSet(F, {})
    BY ONLY <2>3, SumSupport
  <2>5. SumFunctionOnSet(F, D) = 0
    BY <2>4, SumEmpty
  <2> QED
    BY <2>2, <2>5 DEF OnDeliveries
<1>3. "cancelled" \notin Claiming /\ "cancelled" \notin Shipped
  BY DEF Claiming, Shipped
<1>4. OnDeliveries(s, a, Claiming) = 0 /\ OnDeliveries(s, a, Shipped) = 0
  BY <1>2, <1>3
<1> QED
  BY <1>4 DEF Claimed, Sound, ShipmentsHold

\* The row of an allocation after it is released, or left alone.
LEMMA ReleasedRowHolds ==
  ASSUME NEW s, Sound(s), NEW o, NEW a \in DOMAIN s.allocations
  PROVE  LET row == s.allocations[a]
             new == ReleasedRow(s, o, a)
         IN /\ new \in Allocations
            /\ new.order = row.order /\ new.location = row.location
            /\ new.quantity = row.quantity /\ new.consumed = row.consumed
            /\ a \in Rows(s, o) =>
                 /\ new.state = "RELEASED" /\ new.reservation = "RELEASED"
                 /\ new.picked = 0 /\ new.packed = 0
            /\ a \notin Rows(s, o) => new = row
<1>1. s.allocations[a] \in Allocations
  BY RowColumnsFit
<1>2. CASE a \notin Rows(s, o)
  BY <1>1, <1>2 DEF ReleasedRow
<1>3. CASE a \in Rows(s, o)
  <2>1. PICK row : row = s.allocations[a]
    OBVIOUS
  <2>2. row \in Allocations
    BY <1>1, <2>1
  <2>3. ReleasedRow(s, o, a) = [row EXCEPT !.picked = 0, !.packed = 0,
                                   !.state = "RELEASED", !.reservation = "RELEASED"]
    BY <1>3, <2>1 DEF ReleasedRow
  <2>4. PICK new : new = [row EXCEPT !.picked = 0, !.packed = 0,
                                   !.state = "RELEASED", !.reservation = "RELEASED"]
    OBVIOUS
  <2>5. /\ new \in Allocations /\ new.order = row.order /\ new.location = row.location
        /\ new.quantity = row.quantity /\ new.consumed = row.consumed
        /\ new.state = "RELEASED" /\ new.reservation = "RELEASED"
        /\ new.picked = 0 /\ new.packed = 0
    BY ONLY <2>2, <2>4 DEF Allocations
  <2> QED
    BY <1>3, <2>1, <2>3, <2>4, <2>5
<1> QED
  BY <1>2, <1>3

\* A scope has reserved what the allocations of an order have left there, and
\* keeps reserved what the others have left.
LEMMA GivenBackIs ==
  ASSUME NEW s, Sound(s), NEW o, NEW l \in Locations
  PROVE  LET A == DOMAIN s.allocations
             rest == A \ RowsAt(s, o, l)
         IN /\ GivenBack(s, o, l) \in Nat
            /\ GivenBack(s, o, l) <= s.reserved[l]
            /\ s.reserved[l] - GivenBack(s, o, l) = SumFunctionOnSet(Outstanding(s, l), rest)
<1> DEFINE A == DOMAIN s.allocations
           at == RowsAt(s, o, l)
           rest == A \ at
           f == Outstanding(s, l)
           g == [a \in at |-> s.allocations[a].quantity - s.allocations[a].consumed]
<1>1. s \in States /\ IsFiniteSet(A) /\ at \subseteq A /\ \A a \in A : f[a] \in Nat
  BY TableRows, OutstandingType DEF Sound, RowsAt, Rows
<1>2. IsFiniteSet(at) /\ IsFiniteSet(rest)
  BY <1>1, FS_Subset
<1>3. \A a \in at : g[a] = f[a]
  BY <1>1 DEF RowsAt, Rows, Outstanding
<1>4. SumFunctionOnSet(f, at) = GivenBack(s, o, l)
  <2>1. GivenBack(s, o, l) = SumFunctionOnSet(g, at)
    BY DEF GivenBack
  <2> HIDE DEF f, g, at, A
  <2>2. SumFunctionOnSet(g, at) = SumFunctionOnSet(f, at)
    BY ONLY <1>2, <1>3, SumCongruence
  <2> QED
    BY <2>1, <2>2
<1>5. s.reserved[l] = SumFunctionOnSet(f, A) /\ s.reserved[l] \in Nat
  BY <1>1, Columns DEF Sound, Booked
<1> HIDE DEF f, g, at, A
<1>6. SumFunctionOnSet(f, A) = SumFunctionOnSet(f, at) + SumFunctionOnSet(f, A \ at)
  <2>1. \A a \in A : f[a] \in Int
    BY <1>1
  <2> QED
    BY ONLY <1>1, <2>1, SumSplit
<1>7. SumFunctionOnSet(f, at) \in Nat /\ SumFunctionOnSet(f, rest) \in Nat
  <2>1. (\A a \in at : f[a] \in Nat) /\ (\A a \in rest : f[a] \in Nat)
    BY <1>1
  <2> QED
    BY <1>2, <2>1, SumNat
<1>8. PICK x, y, z : x = s.reserved[l] /\ y = SumFunctionOnSet(f, at) /\ z = SumFunctionOnSet(f, rest)
  OBVIOUS
<1>9. x = y + z /\ y \in Nat /\ z \in Nat
  BY <1>5, <1>6, <1>7, <1>8
<1>10. y <= x /\ x - y = z
  BY ONLY <1>9
<1> QED
  BY <1>4, <1>8, <1>9, <1>10 DEF f, at, A

\* Releasing the allocations of an order whose delivery orders are all cancelled
\* keeps the tables sound and leaves the order without allocations.
LEMMA AllocationsReleasedSound ==
  ASSUME NEW s, Sound(s), NEW o,
         \A d \in DOMAIN s.deliveries :
           s.deliveries[d].order = o => s.deliveries[d].status = "cancelled"
  PROVE  LET t == AllocationsReleased(s, o)
         IN /\ Sound(t) /\ Rows(t, o) = {}
            /\ t.onHand = s.onHand /\ t.status = s.status /\ t.queue = s.queue
            /\ t.demands = s.demands /\ t.deliveries = s.deliveries
<1>0. /\ s \in States /\ IsFiniteSet(DOMAIN s.allocations)
      /\ DOMAIN s.allocations = 1..Len(s.allocations) /\ Len(s.allocations) \in Nat
      /\ Len(s.allocations) <= MaxAllocations
      /\ \A a \in DOMAIN s.allocations : a \in 1..MaxAllocations
  BY TableRows, LineType DEF Sound
<1>1. PICK t : t = AllocationsReleased(s, o)
  OBVIOUS
<1>2. t = [onHand |-> s.onHand,
           reserved |-> [l \in Locations |-> s.reserved[l] - GivenBack(s, o, l)],
           status |-> s.status, queue |-> s.queue, demands |-> s.demands,
           allocations |-> [a \in DOMAIN s.allocations |-> ReleasedRow(s, o, a)],
           deliveries |-> s.deliveries]
  BY <1>0, <1>1, ReleasedFields
<1>3. /\ t.onHand = s.onHand /\ t.status = s.status /\ t.queue = s.queue
      /\ t.demands = s.demands /\ t.deliveries = s.deliveries
      /\ t.reserved = [l \in Locations |-> s.reserved[l] - GivenBack(s, o, l)]
      /\ t.allocations = [a \in DOMAIN s.allocations |-> ReleasedRow(s, o, a)]
  BY <1>2
<1>4. /\ DOMAIN t.allocations = DOMAIN s.allocations
      /\ \A a \in DOMAIN s.allocations :
           /\ t.allocations[a] = ReleasedRow(s, o, a)
           /\ t.allocations[a] \in Allocations
           /\ t.allocations[a].order = s.allocations[a].order
           /\ t.allocations[a].location = s.allocations[a].location
           /\ t.allocations[a].quantity = s.allocations[a].quantity
           /\ t.allocations[a].consumed = s.allocations[a].consumed
           /\ a \in Rows(s, o) =>
                /\ t.allocations[a].state = "RELEASED" /\ t.allocations[a].reservation = "RELEASED"
                /\ t.allocations[a].picked = 0 /\ t.allocations[a].packed = 0
           /\ a \notin Rows(s, o) => t.allocations[a] = s.allocations[a]
  BY <1>3, ReleasedRowHolds
<1>5. /\ t.allocations \in Seq(Allocations) /\ Len(t.allocations) = Len(s.allocations)
  <2>1. t.allocations = [a \in 1..Len(s.allocations) |-> t.allocations[a]]
    BY <1>0, <1>3
  <2>2. \A a \in 1..Len(s.allocations) : t.allocations[a] \in Allocations
    BY <1>0, <1>4
  <2> QED
    BY <1>0, <2>1, <2>2
<1>6. \A l \in Locations :
        /\ t.reserved[l] \in Nat /\ t.reserved[l] <= s.reserved[l]
        /\ t.reserved[l] = SumFunctionOnSet(Outstanding(s, l), DOMAIN s.allocations \ RowsAt(s, o, l))
  <2> SUFFICES ASSUME NEW l \in Locations
               PROVE  /\ t.reserved[l] \in Nat /\ t.reserved[l] <= s.reserved[l]
                      /\ t.reserved[l] = SumFunctionOnSet(Outstanding(s, l),
                                           DOMAIN s.allocations \ RowsAt(s, o, l))
    OBVIOUS
  <2>1. PICK x, y, z : /\ x = s.reserved[l] /\ y = GivenBack(s, o, l)
                       /\ z = SumFunctionOnSet(Outstanding(s, l),
                                           DOMAIN s.allocations \ RowsAt(s, o, l))
    OBVIOUS
  <2>2. x \in Nat /\ y \in Nat /\ y <= x /\ x - y = z
    BY <1>0, <2>1, GivenBackIs, Columns
  <2>3. x - y \in Nat /\ x - y <= x
    BY ONLY <2>2
  <2>4. t.reserved[l] = x - y
    BY <1>3, <2>1
  <2> QED
    BY <2>1, <2>2, <2>3, <2>4
<1>7. t \in States
  <2>1. t.reserved \in [Locations -> Nat]
    BY <1>3, <1>6
  <2> QED
    BY <1>0, <1>2, <1>3, <1>5, <2>1, Columns DEF States
<1>8. Covered(t)
  <2> SUFFICES ASSUME NEW l \in Locations PROVE t.reserved[l] <= t.onHand[l]
    BY DEF Covered
  <2>1. PICK x, y, z : x = t.reserved[l] /\ y = s.reserved[l] /\ z = s.onHand[l]
    OBVIOUS
  <2>2. x \in Nat /\ y \in Nat /\ z \in Nat /\ x <= y /\ y <= z
    BY <1>0, <1>6, <2>1, Columns DEF Sound, Covered
  <2>3. x <= z
    BY ONLY <2>2
  <2> QED
    BY <1>3, <2>1, <2>3
<1>9. Booked(t)
  <2> SUFFICES ASSUME NEW l \in Locations
               PROVE  t.reserved[l] = SumFunctionOnSet(Outstanding(t, l), DOMAIN t.allocations)
    BY DEF Booked
  <2> DEFINE A == DOMAIN s.allocations
             at == RowsAt(s, o, l)
             f == Outstanding(s, l)
             g == Outstanding(t, l)
  <2>1. \A a \in A \ at : g[a] = f[a]
    <3> SUFFICES ASSUME NEW a \in A \ at PROVE g[a] = f[a]
      OBVIOUS
    <3>1. CASE a \in Rows(s, o)
      BY <1>4, <3>1 DEF RowsAt, Outstanding
    <3>2. CASE a \notin Rows(s, o)
      BY <1>4, <3>2 DEF Outstanding
    <3> QED
      BY <3>1, <3>2
  <2>2. \A a \in at : g[a] = 0
    BY <1>4 DEF RowsAt, Rows, Outstanding
  <2>3. IsFiniteSet(A) /\ IsFiniteSet(A \ at) /\ A \ at \subseteq A
        /\ \A a \in A : f[a] \in Nat
    BY <1>0, FS_Subset, OutstandingType
  <2>4. t.reserved[l] = SumFunctionOnSet(f, A \ at) /\ DOMAIN t.allocations = A
    BY <1>4, <1>6
  <2> HIDE DEF A, at, f, g
  <2>5. \A a \in A : g[a] \in Int
    BY <2>1, <2>2, <2>3
  <2>6. \A a \in A \ (A \ at) : g[a] = 0
    BY <2>2
  <2>7. SumFunctionOnSet(g, A) = SumFunctionOnSet(g, A \ at)
    BY ONLY <2>3, <2>5, <2>6, SumSupport
  <2>8. SumFunctionOnSet(g, A \ at) = SumFunctionOnSet(f, A \ at)
    BY ONLY <2>1, <2>3, SumCongruence
  <2> QED
    BY <2>4, <2>7, <2>8 DEF g
<1>10. RowsHold(t)
  <2> SUFFICES ASSUME NEW a \in DOMAIN s.allocations, NEW row, row = t.allocations[a]
               PROVE  /\ row.packed <= row.picked /\ row.picked <= row.quantity
                      /\ row.reservation = "RELEASED" <=> row.state = "RELEASED"
                      /\ row.state = "RELEASED" => row.packed = 0
                      /\ row.reservation = "CONSUMED" => row.consumed = row.quantity
                      /\ row.state # "RELEASED" => t.status[row.order] = "confirmed"
    BY <1>4 DEF RowsHold
  <2>1. CASE a \in Rows(s, o)
    <3>1. /\ row.packed = 0 /\ row.picked = 0 /\ row.state = "RELEASED"
          /\ row.reservation = "RELEASED"
      BY <1>4, <2>1
    <3>2. row.quantity \in Nat
      BY <1>4, RowColumns
    <3> QED
      BY <3>1, <3>2
  <2>2. CASE a \notin Rows(s, o)
    <3>1. row = s.allocations[a] /\ t.status = s.status
      BY <1>3, <1>4, <2>2
    <3>2. RowsHold(s)
      BY DEF Sound
    <3> QED
      BY ONLY a \in DOMAIN s.allocations, <3>1, <3>2 DEF RowsHold
  <2> QED
    BY <2>1, <2>2
<1>11. \A a, st : OnDeliveries(t, a, st) = OnDeliveries(s, a, st)
  BY <1>3 DEF OnDeliveries
<1>12. ShipmentsHold(t)
  <2> SUFFICES ASSUME NEW a \in DOMAIN s.allocations
               PROVE  /\ Claimed(t, a) <= t.allocations[a].packed
                      /\ t.allocations[a].consumed = OnDeliveries(t, a, Shipped)
    BY <1>4 DEF ShipmentsHold
  <2>1. CASE a \in Rows(s, o)
    <3>1. s.allocations[a].order = o
      BY <2>1 DEF Rows
    <3>2. Claimed(t, a) = 0 /\ OnDeliveries(t, a, Shipped) = 0 /\ s.allocations[a].consumed = 0
      BY <1>11, <3>1, NothingClaimed DEF Claimed
    <3> QED
      BY <1>4, <2>1, <3>2
  <2>2. CASE a \notin Rows(s, o)
    BY <1>4, <1>11, <2>2 DEF Sound, ShipmentsHold, Claimed
  <2> QED
    BY <2>1, <2>2
<1>13. LinesHold(t)
  <2>1. LinesHold(s) /\ t.deliveries = s.deliveries
        /\ DOMAIN t.allocations = DOMAIN s.allocations
        /\ \A a \in DOMAIN s.allocations : t.allocations[a].order = s.allocations[a].order
    BY <1>3, <1>4 DEF Sound
  <2> QED
    BY ONLY <2>1 DEF LinesHold
<1>14. /\ Rows(t, o) = {}
       /\ \A p : p # o => Rows(t, p) = Rows(s, p)
  <2>1. \A a \in DOMAIN s.allocations : s.allocations[a].order = o => t.allocations[a].state = "RELEASED"
    BY <1>4 DEF Rows
  <2>2. \A a \in DOMAIN s.allocations : s.allocations[a].order # o => t.allocations[a] = s.allocations[a]
    BY <1>4 DEF Rows
  <2> QED
    BY <1>4, <2>1, <2>2 DEF Rows
<1>15. DemandsHold(t)
  <2> SUFFICES ASSUME NEW p \in Orders, t.demands[p].state = "ACTIVE"
               PROVE  Allocated(t, p) <= t.demands[p].reserved
    BY <1>3 DEF Sound, DemandsHold
  <2>1. CASE p = o
    <3>1. Allocated(t, p) = 0
      BY <1>14, <2>1, SumEmpty DEF Allocated
    <3>2. t.demands[p].reserved \in Nat
      BY <1>7, TableRows, RowColumns
    <3> QED
      BY <3>1, <3>2
  <2>2. CASE p # o
    <3>1. Rows(t, p) = Rows(s, p)
      BY <1>14, <2>2
    <3>2. [a \in Rows(t, p) |-> t.allocations[a].quantity] =
            [a \in Rows(s, p) |-> s.allocations[a].quantity]
      BY <1>4, <3>1 DEF Rows
    <3>3. Allocated(t, p) = Allocated(s, p)
      BY <3>1, <3>2 DEF Allocated
    <3> QED
      BY <1>3, <3>3 DEF Sound, DemandsHold
  <2> QED
    BY <2>1, <2>2
<1> QED
  BY <1>0, <1>1, <1>3, <1>5, <1>7, <1>8, <1>9, <1>10, <1>12, <1>13, <1>14, <1>15 DEF Sound

\* Unwinding the execution of an order that has handed nothing over keeps the
\* tables sound and leaves the order without allocations.
LEMMA ReleasedSound ==
  ASSUME NEW s, Sound(s), NEW o,
         \A d \in DOMAIN s.deliveries :
           s.deliveries[d].order = o => s.deliveries[d].status # "handed_over"
  PROVE  LET t == Released(s, o)
         IN /\ Sound(t) /\ Rows(t, o) = {} /\ DemandsGrow(s, t)
            /\ t.status = s.status /\ t.queue = s.queue
<1>1. PICK u, t : u = DeliveriesUnwound(s, o) /\ t = AllocationsReleased(u, o)
  OBVIOUS
<1>2. Sound(u) /\ UnwoundTo(s, o, u, Len(s.deliveries))
  BY <1>1, DeliveriesUnwoundSound
<1>3. \A d \in DOMAIN u.deliveries : u.deliveries[d].order = o => u.deliveries[d].status = "cancelled"
  <2>1. \A d \in DOMAIN s.deliveries : d <= Len(s.deliveries)
    <3>1. Len(s.deliveries) \in Nat /\ DOMAIN s.deliveries = 1..Len(s.deliveries)
      BY TableRows DEF Sound
    <3> QED
      BY <3>1
  <2> QED
    BY <1>2, <2>1 DEF UnwoundTo
<1>4. /\ Sound(t) /\ Rows(t, o) = {} /\ t.status = u.status /\ t.queue = u.queue
      /\ t.demands = u.demands
  BY <1>1, <1>2, <1>3, AllocationsReleasedSound
<1>5. DemandsGrow(s, t)
  BY <1>2, <1>4 DEF UnwoundTo, DemandsGrow
<1> QED
  BY <1>1, <1>2, <1>4, <1>5 DEF Released, UnwoundTo

-----------------------------------------------------------------------------
(* Sales orders.                                                           *)

\* The demand row of an order adds up, for what the order has allocated.
AddsUp(row, allocated) ==
  row.state = "ACTIVE" =>
    /\ row.reserved + row.backordered = row.target
    /\ row.target <= row.ordered
    /\ allocated <= row.reserved

\* An order without allocations may get any status and any demand that adds up.
LEMMA OrderSound ==
  ASSUME NEW s, Sound(s), NEW o \in Orders, Rows(s, o) = {},
         NEW st \in {"draft", "confirmed", "cancelled"}, NEW q \in Seq(Orders),
         NEW row \in Demands, AddsUp(row, 0), NEW t,
         t = [onHand |-> s.onHand, reserved |-> s.reserved,
              status |-> [s.status EXCEPT ![o] = st], queue |-> q,
              demands |-> [s.demands EXCEPT ![o] = row],
              allocations |-> s.allocations, deliveries |-> s.deliveries]
  PROVE  Sound(t) /\ Rows(t, o) = {}
<1>0. s \in States
  BY DEF Sound
<1>1. /\ t.onHand = s.onHand /\ t.reserved = s.reserved /\ t.queue = q
      /\ t.allocations = s.allocations /\ t.deliveries = s.deliveries
      /\ t.status = [s.status EXCEPT ![o] = st] /\ t.demands = [s.demands EXCEPT ![o] = row]
  OBVIOUS
<1>2. t \in States
  <2>1. t.status \in [Orders -> {"draft", "confirmed", "cancelled"}]
    BY <1>0, <1>1, Columns
  <2>2. t.demands \in [Orders -> Demands]
    BY <1>0, <1>1, Columns
  <2> QED
    BY <1>0, <1>1, <2>1, <2>2, Columns DEF States
<1>3. /\ \A p : Rows(t, p) = Rows(s, p) /\ Allocated(t, p) = Allocated(s, p)
      /\ \A a, x : OnDeliveries(t, a, x) = OnDeliveries(s, a, x)
      /\ \A a : Claimed(t, a) = Claimed(s, a)
      /\ \A l : Outstanding(t, l) = Outstanding(s, l)
  <2>1. \A p : Rows(t, p) = Rows(s, p)
    BY <1>1 DEF Rows
  <2>2. \A a, x : OnDeliveries(t, a, x) = OnDeliveries(s, a, x)
    BY <1>1 DEF OnDeliveries
  <2> QED
    BY <1>1, <2>1, <2>2 DEF Allocated, Claimed, Outstanding
<1>4. Covered(t) /\ Len(t.allocations) <= MaxAllocations
  BY <1>1 DEF Sound, Covered
<1>5. Booked(t)
  <2>1. Booked(s)
    BY DEF Sound
  <2> QED
    BY <1>1, <1>3, <2>1, Zenon DEF Booked
<1>6. RowsHold(t)
  <2> SUFFICES ASSUME NEW a \in DOMAIN s.allocations, s.allocations[a].state # "RELEASED"
               PROVE  t.status[s.allocations[a].order] = "confirmed"
    <3>1. RowsHold(s)
      BY DEF Sound
    <3> QED
      BY <1>1, <3>1 DEF RowsHold
  <2>1. s.allocations[a].order # o
    BY DEF Rows
  <2>2. s.status[s.allocations[a].order] = "confirmed"
    <3>1. RowsHold(s)
      BY DEF Sound
    <3> QED
      BY <3>1 DEF RowsHold
  <2>3. s.allocations[a].order \in Orders
    BY RowColumnsFit, RowColumns
  <2> QED
    BY <1>0, <1>1, <2>1, <2>2, <2>3, Columns
<1>7. ShipmentsHold(t)
  BY <1>1, <1>3 DEF Sound, ShipmentsHold
<1>8. LinesHold(t)
  BY <1>1 DEF Sound, LinesHold
<1>9. DemandsHold(t)
  <2> SUFFICES ASSUME NEW p \in Orders PROVE AddsUp(t.demands[p], Allocated(t, p))
    BY DEF DemandsHold, AddsUp
  <2>1. CASE p = o
    <3>1. Allocated(s, o) = 0
      BY SumEmpty DEF Allocated
    <3>2. t.demands[p] = row
      BY <1>0, <1>1, <2>1, Columns
    <3> QED
      BY <1>3, <2>1, <3>1, <3>2
  <2>2. CASE p # o
    <3>1. t.demands[p] = s.demands[p]
      BY <1>0, <1>1, <2>2, Columns
    <3>2. AddsUp(s.demands[p], Allocated(s, p))
      BY DEF Sound, DemandsHold, AddsUp
    <3> QED
      BY <1>3, <3>1, <3>2
  <2> QED
    BY <2>1, <2>2
<1> QED
  BY <1>2, <1>3, <1>4, <1>5, <1>6, <1>7, <1>8, <1>9 DEF Sound

\* Writing the demand of an order without allocations keeps the tables sound.
LEMMA WithDemandSound ==
  ASSUME NEW s, Sound(s), NEW o \in Orders, Rows(s, o) = {}, NEW ordered \in Nat
  PROVE  Sound(WithDemand(s, o, ordered))
<1>0. s \in States
  BY DEF Sound
<1>1. PICK held, t : /\ held = IF ordered < Free(s, o) THEN ordered ELSE Free(s, o)
                     /\ t = WithDemand(s, o, ordered)
  OBVIOUS
<1>2. PICK row : row = [state |-> "ACTIVE", ordered |-> ordered, target |-> ordered,
                        reserved |-> held, backordered |-> ordered - held]
  OBVIOUS
<1>3. held \in Nat /\ held <= ordered
  <2>1. Free(s, o) \in Nat
    BY <1>0, FreeIs
  <2> QED
    BY <1>1, <2>1
<1>4. ordered - held \in Nat /\ held + (ordered - held) = ordered /\ 0 <= held /\ ordered <= ordered
  BY ONLY <1>3, ordered \in Nat
<1>5. row \in Demands /\ AddsUp(row, 0)
  BY <1>2, <1>3, <1>4 DEF Demands, AddsUp
<1>6. t = [s EXCEPT !.demands[o] = row]
  BY <1>1, <1>2 DEF WithDemand
<1>7. s = [onHand |-> s.onHand, reserved |-> s.reserved, status |-> s.status,
           queue |-> s.queue, demands |-> s.demands,
           allocations |-> s.allocations, deliveries |-> s.deliveries]
  BY <1>0 DEF States
<1>8. PICK st : st = s.status[o]
  OBVIOUS
<1>9. s.status = [s.status EXCEPT ![o] = st] /\ st \in {"draft", "confirmed", "cancelled"}
  BY <1>0, <1>8, Columns
<1>10. t = [onHand |-> s.onHand, reserved |-> s.reserved,
            status |-> s.status, queue |-> s.queue,
            demands |-> [s.demands EXCEPT ![o] = row],
            allocations |-> s.allocations, deliveries |-> s.deliveries]
  BY <1>6, <1>7
<1>11. t = [onHand |-> s.onHand, reserved |-> s.reserved,
            status |-> [s.status EXCEPT ![o] = st], queue |-> s.queue,
            demands |-> [s.demands EXCEPT ![o] = row],
            allocations |-> s.allocations, deliveries |-> s.deliveries]
  BY <1>9, <1>10
<1>12. Sound(t)
  <2>1. s.queue \in Seq(Orders)
    BY <1>0, Columns
  <2> QED
    BY <1>5, <1>9, <1>11, <2>1, OrderSound
<1> QED
  BY <1>1, <1>12

\* The tables as they stand.
LEMMA Tables ==
  /\ State.onHand = onHand /\ State.reserved = reserved /\ State.status = status
  /\ State.queue = queue /\ State.demands = demands
  /\ State.allocations = allocations /\ State.deliveries = deliveries
  BY DEF State

\* A transaction that commits sound tables leaves them sound.
LEMMA Committed ==
  ASSUME NEW s, Sound(s), Commit(s)
  PROVE  SInv'
<1>1. s = [onHand |-> s.onHand, reserved |-> s.reserved, status |-> s.status,
           queue |-> s.queue, demands |-> s.demands,
           allocations |-> s.allocations, deliveries |-> s.deliveries]
  BY DEF Sound, States
<1>2. State' = s
  BY <1>1 DEF State, Commit
<1> QED
  BY <1>2 DEF SInv

\* A draft that is confirmed joins the queue, and has allocated nothing.
Queued(s, o) == [s EXCEPT !.status[o] = "confirmed", !.queue = Append(@, o)]

LEMMA QueuedSound ==
  ASSUME NEW s, Sound(s), NEW o \in Orders, s.status[o] = "draft", NEW u, u = Queued(s, o)
  PROVE  /\ Sound(u) /\ Rows(u, o) = {}
         /\ u.onHand = s.onHand /\ u.reserved = s.reserved /\ u.demands = s.demands
         /\ u.allocations = s.allocations /\ u.deliveries = s.deliveries
         /\ u.queue = Append(s.queue, o)
         /\ u.status = [s.status EXCEPT ![o] = "confirmed"]
<1>1. s \in States
  BY DEF Sound
<1>2. s = [onHand |-> s.onHand, reserved |-> s.reserved, status |-> s.status,
           queue |-> s.queue, demands |-> s.demands,
           allocations |-> s.allocations, deliveries |-> s.deliveries]
  BY <1>1 DEF States
<1>3. u = [onHand |-> s.onHand, reserved |-> s.reserved,
           status |-> [s.status EXCEPT ![o] = "confirmed"], queue |-> Append(s.queue, o),
           demands |-> s.demands,
           allocations |-> s.allocations, deliveries |-> s.deliveries]
  BY <1>2 DEF Queued
<1>4. PICK row : row = s.demands[o]
  OBVIOUS
<1>5. /\ s.demands = [s.demands EXCEPT ![o] = row] /\ row \in Demands
      /\ Append(s.queue, o) \in Seq(Orders)
  <2>1. s.demands = [s.demands EXCEPT ![o] = row] /\ row \in Demands
    BY <1>1, <1>4, Columns
  <2>2. s.queue \in Seq(Orders)
    BY <1>1, Columns
  <2>3. Append(s.queue, o) \in Seq(Orders)
    BY ONLY <2>2, o \in Orders
  <2> QED
    BY <2>1, <2>3
<1>6. Rows(s, o) = {}
  BY <1>1 DEF Rows, Sound, RowsHold
<1>7. AddsUp(row, 0)
  <2>1. Allocated(s, o) = 0
    BY <1>6, SumEmpty DEF Allocated
  <2> QED
    BY <1>1, <1>4, <2>1 DEF Sound, DemandsHold, AddsUp
<1>8. u = [onHand |-> s.onHand, reserved |-> s.reserved,
           status |-> [s.status EXCEPT ![o] = "confirmed"], queue |-> Append(s.queue, o),
           demands |-> [s.demands EXCEPT ![o] = row],
           allocations |-> s.allocations, deliveries |-> s.deliveries]
  BY <1>3, <1>5
<1>9. Sound(u) /\ Rows(u, o) = {}
  <2>1. "confirmed" \in {"draft", "confirmed", "cancelled"} /\ Sound(s)
    OBVIOUS
  <2> QED
    BY ONLY <1>1, <1>5, <1>6, <1>7, <1>8, <2>1, o \in Orders, OrderSound
<1>10. /\ u.onHand = s.onHand /\ u.reserved = s.reserved /\ u.demands = s.demands
       /\ u.allocations = s.allocations /\ u.deliveries = s.deliveries
       /\ u.queue = Append(s.queue, o)
       /\ u.status = [s.status EXCEPT ![o] = "confirmed"]
  BY ONLY <1>3
<1> QED
  BY <1>9, <1>10

\* Confirming an order keeps the tables sound.
LEMMA ConfirmSound ==
  ASSUME SInv, NEW o \in Orders, NEW q \in Quantities, Confirm(o, q)
  PROVE  SInv'
<1>1. PICK s, u, v, w : /\ s = State /\ u = Queued(s, o)
                        /\ v = Replenished(u) /\ w = WithDemand(v, o, q)
  OBVIOUS
<1>2. Sound(s) /\ s.status[o] = "draft" /\ Commit(w)
  BY <1>1, Tables DEF SInv, Confirm, Queued
<1>3. q \in Nat
  BY FulfillmentAssumption
<1>4. Sound(u) /\ Rows(u, o) = {}
  BY <1>1, <1>2, QueuedSound
<1>5. Sound(v) /\ Rows(v, o) = {}
  BY <1>1, <1>4, ReplenishedSound, DemandsApart
<1>6. Sound(w)
  BY <1>1, <1>3, <1>5, WithDemandSound
<1> QED
  BY <1>2, <1>6, Committed

\* What has not been handed over can be released.
LEMMA ReleasableOrder ==
  ASSUME NEW o, Releasable(o), NEW s, s = State
  PROVE  \A d \in DOMAIN s.deliveries :
           s.deliveries[d].order = o => s.deliveries[d].status # "handed_over"
  BY Tables DEF Releasable

\* Amending an order keeps the tables sound.
LEMMA AmendSound ==
  ASSUME SInv, NEW o \in Orders, NEW q \in Quantities, Amend(o, q)
  PROVE  SInv'
<1>1. PICK s, u, v, w : /\ s = State /\ u = Released(s, o)
                        /\ v = WithDemand(u, o, q) /\ w = Replenished(v)
  OBVIOUS
<1>2. Sound(s) /\ Releasable(o) /\ Commit(w)
  BY <1>1 DEF SInv, Amend
<1>3. q \in Nat
  BY FulfillmentAssumption
<1>4. Sound(u) /\ Rows(u, o) = {}
  BY <1>1, <1>2, ReleasableOrder, ReleasedSound
<1>5. Sound(v)
  BY <1>1, <1>3, <1>4, WithDemandSound
<1>6. Sound(w)
  BY <1>1, <1>5, ReplenishedSound
<1> QED
  BY <1>2, <1>6, Committed

\* An order without allocations is called off.
CalledOff(u, o) == [u EXCEPT !.status[o] = "cancelled", !.demands[o].state = "CANCELLED"]

LEMMA CalledOffSound ==
  ASSUME NEW u, Sound(u), NEW o \in Orders, Rows(u, o) = {}, NEW v, v = CalledOff(u, o)
  PROVE  /\ Sound(v)
         /\ v.onHand = u.onHand /\ v.reserved = u.reserved /\ v.queue = u.queue
         /\ v.allocations = u.allocations /\ v.deliveries = u.deliveries
         /\ v.status = [u.status EXCEPT ![o] = "cancelled"]
         /\ v.demands = [u.demands EXCEPT ![o].state = "CANCELLED"]
<1>1. u \in States
  BY DEF Sound
<1>2. u = [onHand |-> u.onHand, reserved |-> u.reserved, status |-> u.status,
           queue |-> u.queue, demands |-> u.demands,
           allocations |-> u.allocations, deliveries |-> u.deliveries]
  BY <1>1 DEF States
<1>3. PICK row : row = [u.demands[o] EXCEPT !.state = "CANCELLED"]
  OBVIOUS
<1>4. v = [onHand |-> u.onHand, reserved |-> u.reserved,
           status |-> [u.status EXCEPT ![o] = "cancelled"], queue |-> u.queue,
           demands |-> [u.demands EXCEPT ![o] = row],
           allocations |-> u.allocations, deliveries |-> u.deliveries]
  BY <1>2, <1>3 DEF CalledOff
<1>5. row \in Demands /\ AddsUp(row, 0)
  <2>1. u.demands[o] \in Demands
    BY <1>1, TableRows
  <2> QED
    BY <1>3, <2>1 DEF Demands, AddsUp
<1>6. Sound(v)
  <2>1. u.queue \in Seq(Orders) /\ "cancelled" \in {"draft", "confirmed", "cancelled"}
    BY <1>1, Columns
  <2>2. Sound(u) /\ Rows(u, o) = {}
    OBVIOUS
  <2> QED
    BY ONLY <1>1, <1>4, <1>5, <2>1, <2>2, o \in Orders, OrderSound
<1>7. /\ v.onHand = u.onHand /\ v.reserved = u.reserved /\ v.queue = u.queue
      /\ v.allocations = u.allocations /\ v.deliveries = u.deliveries
      /\ v.status = [u.status EXCEPT ![o] = "cancelled"]
      /\ v.demands = [u.demands EXCEPT ![o] = row]
  BY ONLY <1>4
<1> QED
  BY <1>3, <1>6, <1>7

\* Cancelling a confirmed order keeps the tables sound.
LEMMA CancelConfirmedSound ==
  ASSUME SInv, NEW o \in Orders, CancelConfirmed(o)
  PROVE  SInv'
<1>1. PICK s, u, v, w : /\ s = State /\ u = Released(s, o)
                        /\ v = CalledOff(u, o) /\ w = Replenished(v)
  OBVIOUS
<1>2. Sound(s) /\ Releasable(o) /\ Commit(w)
  BY <1>1 DEF SInv, CancelConfirmed, CalledOff
<1>3. Sound(u) /\ Rows(u, o) = {}
  BY <1>1, <1>2, ReleasableOrder, ReleasedSound
<1>4. Sound(v)
  BY <1>1, <1>3, CalledOffSound
<1>5. Sound(w)
  BY <1>1, <1>4, ReplenishedSound
<1> QED
  BY <1>2, <1>5, Committed

\* Cancelling a draft keeps the tables sound.
LEMMA CancelDraftSound ==
  ASSUME SInv, NEW o \in Orders, CancelDraft(o)
  PROVE  SInv'
<1>1. PICK s : s = State
  OBVIOUS
<1>2. Sound(s) /\ s \in States /\ s.status[o] = "draft"
  BY <1>1, Tables DEF SInv, Sound, CancelDraft
<1>3. PICK row, q : row = s.demands[o] /\ q = s.queue
  OBVIOUS
<1>4. s.demands = [s.demands EXCEPT ![o] = row] /\ row \in Demands /\ q \in Seq(Orders)
  BY <1>2, <1>3, Columns
<1>5. Rows(s, o) = {}
  BY <1>2 DEF Rows, Sound, RowsHold
<1>6. AddsUp(row, 0)
  <2>1. Allocated(s, o) = 0
    BY <1>5, SumEmpty DEF Allocated
  <2> QED
    BY <1>2, <1>3, <2>1 DEF Sound, DemandsHold, AddsUp
<1>7. PICK t : t = [onHand |-> s.onHand, reserved |-> s.reserved,
           status |-> [s.status EXCEPT ![o] = "cancelled"], queue |-> q,
           demands |-> s.demands,
           allocations |-> s.allocations, deliveries |-> s.deliveries]
  OBVIOUS
<1>8. t = [onHand |-> s.onHand, reserved |-> s.reserved,
           status |-> [s.status EXCEPT ![o] = "cancelled"], queue |-> q,
           demands |-> [s.demands EXCEPT ![o] = row],
           allocations |-> s.allocations, deliveries |-> s.deliveries]
  BY <1>4, <1>7
<1>9. Sound(t)
  <2>1. "cancelled" \in {"draft", "confirmed", "cancelled"}
    OBVIOUS
  <2> QED
    BY ONLY <1>2, <1>4, <1>5, <1>6, <1>8, <2>1, o \in Orders, OrderSound
<1>10. Commit(t)
  BY <1>1, <1>3, <1>7, Tables DEF CancelDraft, Commit
<1> QED
  BY <1>9, <1>10, Committed

-----------------------------------------------------------------------------
(* Postings of other documents, and warehouse work.                        *)

\* A document that moves stock keeps the tables sound.
LEMMA PostStockSound ==
  ASSUME SInv, NEW delta \in Postings, PostStock(delta)
  PROVE  SInv'
<1>1. PICK s, u, v : s = State /\ u = Moved(s, delta) /\ v = Replenished(u)
  OBVIOUS
<1>2. Sound(s) /\ s \in States
  BY <1>1 DEF SInv, Sound
<1>3. MayPost(s.onHand, s.reserved, delta) /\ (Commit(v) \/ Commit(u))
  BY <1>1, Tables DEF PostStock
<1>4. \A l \in Locations : delta[l] \in Int /\ s.onHand[l] + delta[l] >= s.reserved[l]
  <2> SUFFICES ASSUME NEW l \in Locations
               PROVE  delta[l] \in Int /\ s.onHand[l] + delta[l] >= s.reserved[l]
    OBVIOUS
  <2>1. delta[l] \in Int
    BY FulfillmentAssumption
  <2>2. PICK x, y, z : x = s.onHand[l] /\ y = s.reserved[l] /\ z = delta[l]
    OBVIOUS
  <2>3. x \in Nat /\ y \in Nat /\ y <= x /\ z \in Int /\ (z < 0 => x + z >= y)
    BY <1>2, <1>3, <2>1, <2>2, Columns DEF Sound, Covered, MayPost
  <2>4. x + z >= y
    BY ONLY <2>3
  <2> QED
    BY <2>1, <2>2, <2>4
<1>5. Sound(u)
  BY <1>1, <1>2, <1>4, MovedSound
<1>6. Sound(v)
  BY <1>1, <1>5, ReplenishedSound
<1> QED
  BY <1>3, <1>5, <1>6, Committed

\* Progress of one allocation keeps the tables sound while what is claimed stays
\* packed, and what is packed, picked.
LEMMA ProgressSound ==
  ASSUME SInv, NEW a \in DOMAIN allocations, NEW row \in Allocations, Progress(a, row),
         row.order = allocations[a].order, row.location = allocations[a].location,
         row.quantity = allocations[a].quantity, row.consumed = allocations[a].consumed,
         row.reservation = allocations[a].reservation,
         row.state = "RELEASED" <=> allocations[a].state = "RELEASED",
         row.state = "RELEASED" => row.packed = 0,
         row.packed <= row.picked, row.picked <= row.quantity,
         Claimed(State, a) <= row.packed
  PROVE  SInv'
<1>1. PICK s : s = State
  OBVIOUS
<1>2. PICK old : old = s.allocations[a]
  OBVIOUS
<1>3. /\ Sound(s) /\ s \in States /\ a \in DOMAIN s.allocations
      /\ row.order = old.order /\ row.location = old.location
      /\ row.quantity = old.quantity /\ row.consumed = old.consumed
      /\ row.reservation = old.reservation
      /\ (row.state = "RELEASED" <=> old.state = "RELEASED")
      /\ Claimed(s, a) <= row.packed
  BY <1>1, <1>2, Tables DEF SInv, Sound
<1>4. PICK t : t = [onHand |-> s.onHand, reserved |-> s.reserved, status |-> s.status,
           queue |-> s.queue, demands |-> s.demands,
           allocations |-> [s.allocations EXCEPT ![a] = row], deliveries |-> s.deliveries]
  OBVIOUS
<1>5. Commit(t)
  BY <1>1, <1>4, Tables DEF Progress, Commit
<1>6. /\ t.onHand = s.onHand /\ t.reserved = s.reserved /\ t.status = s.status
      /\ t.queue = s.queue /\ t.demands = s.demands /\ t.deliveries = s.deliveries
      /\ t.allocations = [s.allocations EXCEPT ![a] = row]
  BY <1>4
<1>7. /\ DOMAIN t.allocations = DOMAIN s.allocations
      /\ t.allocations[a] = row
      /\ \A b \in DOMAIN s.allocations \ {a} : t.allocations[b] = s.allocations[b]
  BY <1>3, <1>6
<1>8. t.allocations \in Seq(Allocations) /\ Len(t.allocations) = Len(s.allocations)
  <2>1. s.allocations \in Seq(Allocations)
    BY <1>3, Columns
  <2> QED
    BY ONLY <1>3, <1>6, <2>1, row \in Allocations
<1>9. t \in States
  BY <1>3, <1>4, <1>8, Columns DEF States
<1>10. SameQuantities(s, t)
  BY <1>2, <1>3, <1>7 DEF SameQuantities
<1>11. \A o : Rows(t, o) = Rows(s, o) /\ Allocated(t, o) = Allocated(s, o)
  BY <1>3, <1>10, SameAllocated
<1>12. /\ \A b, x : OnDeliveries(t, b, x) = OnDeliveries(s, b, x)
       /\ \A b : Claimed(t, b) = Claimed(s, b)
  BY <1>6 DEF OnDeliveries, Claimed
<1>13. \A l : Outstanding(t, l) = Outstanding(s, l)
  <2> SUFFICES ASSUME NEW l PROVE Outstanding(t, l) = Outstanding(s, l)
    OBVIOUS
  <2>1. \A b \in DOMAIN s.allocations :
          /\ t.allocations[b].location = s.allocations[b].location
          /\ t.allocations[b].quantity = s.allocations[b].quantity
          /\ t.allocations[b].consumed = s.allocations[b].consumed
          /\ t.allocations[b].state = "RELEASED" <=> s.allocations[b].state = "RELEASED"
    BY <1>2, <1>3, <1>7
  <2> QED
    BY <1>7, <2>1 DEF Outstanding
<1>14. Covered(t) /\ Len(t.allocations) <= MaxAllocations
  BY <1>3, <1>6, <1>8 DEF Sound, Covered
<1>15. Booked(t)
  <2>1. Booked(s)
    BY <1>3 DEF Sound
  <2> SUFFICES ASSUME NEW l \in Locations
               PROVE  t.reserved[l] = SumFunctionOnSet(Outstanding(t, l), DOMAIN t.allocations)
    BY DEF Booked
  <2>2. s.reserved[l] = SumFunctionOnSet(Outstanding(s, l), DOMAIN s.allocations)
    BY <2>1 DEF Booked
  <2> QED
    BY <1>6, <1>7, <1>13, <2>2
<1>16. RowsHold(t)
  <2> SUFFICES ASSUME NEW b \in DOMAIN s.allocations, NEW r, r = t.allocations[b]
               PROVE  /\ r.packed <= r.picked /\ r.picked <= r.quantity
                      /\ r.reservation = "RELEASED" <=> r.state = "RELEASED"
                      /\ r.state = "RELEASED" => r.packed = 0
                      /\ r.reservation = "CONSUMED" => r.consumed = r.quantity
                      /\ r.state # "RELEASED" => t.status[r.order] = "confirmed"
    BY <1>7 DEF RowsHold
  <2>0. RowsHold(s)
    BY <1>3 DEF Sound
  <2>1. CASE b = a
    <3>1. r = row
      BY <1>7, <2>1
    <3>2. /\ old.reservation = "RELEASED" <=> old.state = "RELEASED"
          /\ old.reservation = "CONSUMED" => old.consumed = old.quantity
          /\ old.state # "RELEASED" => s.status[old.order] = "confirmed"
      BY ONLY <1>2, <1>3, <2>0 DEF RowsHold
    <3> QED
      BY <1>3, <1>6, <3>1, <3>2
  <2>2. CASE b # a
    <3>1. r = s.allocations[b] /\ t.status = s.status
      BY <1>6, <1>7, <2>2
    <3> QED
      BY ONLY b \in DOMAIN s.allocations, <2>0, <3>1 DEF RowsHold
  <2> QED
    BY <2>1, <2>2
<1>17. ShipmentsHold(t)
  <2> SUFFICES ASSUME NEW b \in DOMAIN s.allocations
               PROVE  /\ Claimed(s, b) <= t.allocations[b].packed
                      /\ t.allocations[b].consumed = OnDeliveries(s, b, Shipped)
    BY <1>7, <1>12 DEF ShipmentsHold
  <2>0. ShipmentsHold(s)
    BY <1>3 DEF Sound
  <2> QED
    BY <1>2, <1>3, <1>7, <2>0 DEF ShipmentsHold
<1>18. LinesHold(t)
  <2>1. LinesHold(s) /\ t.deliveries = s.deliveries
        /\ DOMAIN t.allocations = DOMAIN s.allocations
        /\ \A b \in DOMAIN s.allocations : t.allocations[b].order = s.allocations[b].order
    BY <1>2, <1>3, <1>6, <1>7 DEF Sound
  <2> QED
    BY ONLY <2>1 DEF LinesHold
<1>19. DemandsHold(t)
  BY <1>3, <1>6, <1>11 DEF Sound, DemandsHold
<1>20. Sound(t)
  BY <1>9, <1>14, <1>15, <1>16, <1>17, <1>18, <1>19 DEF Sound
<1> QED
  BY <1>5, <1>20, Committed

\* The four kinds of progress.
LEMMA AllocationStepSound ==
  ASSUME SInv, NEW a \in DOMAIN allocations, NEW q \in Quantities, AllocationStep(a, q)
  PROVE  SInv'
<1>1. PICK s, row : s = State /\ row = allocations[a]
  OBVIOUS
<1>2. Sound(s) /\ a \in DOMAIN s.allocations /\ row = s.allocations[a]
  BY <1>1, Tables DEF SInv
<1>3. /\ row \in Allocations /\ row.packed <= row.picked /\ row.picked <= row.quantity
      /\ Claimed(s, a) <= row.packed /\ Claimed(s, a) \in Nat
      /\ (row.state = "RELEASED" => row.packed = 0)
  <2>1. row \in Allocations /\ a \in 1..MaxAllocations
    BY <1>2, RowColumnsFit
  <2> QED
    BY <1>2, <2>1, OnDeliveriesType DEF Sound, RowsHold, ShipmentsHold, Claimed
<1>4. q \in Nat /\ q > 0
  BY FulfillmentAssumption
<1>5. row.picked \in Nat /\ row.packed \in Nat /\ row.quantity \in Nat
  BY <1>3, RowColumns
<1>6. PICK picked, packed, quantity, c : /\ picked = row.picked /\ packed = row.packed
                                         /\ quantity = row.quantity /\ c = Claimed(s, a)
  OBVIOUS
<1>7. /\ picked \in Nat /\ packed \in Nat /\ quantity \in Nat /\ c \in Nat
      /\ packed <= picked /\ picked <= quantity /\ c <= packed
  BY <1>3, <1>5, <1>6
<1>8. CASE Pick(a, q)
  <2>1. PICK new : new = [row EXCEPT !.picked = @ + q]
    OBVIOUS
  <2>2. picked + q <= quantity /\ row.state = "ACTIVE" /\ Progress(a, new)
    BY <1>1, <1>6, <1>8, <2>1 DEF Pick
  <2>3. picked + q \in Nat /\ packed <= picked + q
    BY ONLY <1>4, <1>7
  <2>4. /\ new \in Allocations /\ new.order = row.order /\ new.location = row.location
        /\ new.quantity = row.quantity /\ new.consumed = row.consumed
        /\ new.reservation = row.reservation /\ new.state = row.state
        /\ new.packed = row.packed /\ new.picked = picked + q
    BY ONLY <1>3, <1>6, <2>1, <2>3 DEF Allocations
  <2> QED
    BY <1>1, <1>3, <1>6, <1>7, <2>2, <2>3, <2>4, ProgressSound
<1>9. CASE Pack(a, q)
  <2>1. PICK state : state = IF row.packed + q = row.quantity THEN "COMPLETED" ELSE row.state
    OBVIOUS
  <2>2. PICK new : new = [row EXCEPT !.packed = @ + q, !.state = state]
    OBVIOUS
  <2>3. /\ packed + q <= picked /\ row.state = "ACTIVE" /\ state \in {"ACTIVE", "COMPLETED"}
        /\ Progress(a, new)
    BY <1>1, <1>6, <1>9, <2>1, <2>2 DEF Pack
  <2>4. packed + q \in Nat /\ c <= packed + q
    BY ONLY <1>4, <1>7
  <2>5. /\ new \in Allocations /\ new.order = row.order /\ new.location = row.location
        /\ new.quantity = row.quantity /\ new.consumed = row.consumed
        /\ new.reservation = row.reservation /\ new.state = state
        /\ new.packed = packed + q /\ new.picked = row.picked
    BY ONLY <1>3, <1>6, <2>2, <2>3, <2>4 DEF Allocations
  <2> QED
    BY <1>1, <1>3, <1>6, <1>7, <2>3, <2>4, <2>5, ProgressSound
<1>10. CASE ReversePick(a, q)
  <2>1. PICK new : new = [row EXCEPT !.picked = @ - q]
    OBVIOUS
  <2>2. picked - q >= packed /\ Progress(a, new)
    BY <1>1, <1>6, <1>10, <2>1 DEF ReversePick
  <2>3. picked - q \in Nat /\ packed <= picked - q /\ picked - q <= quantity
    BY ONLY <1>4, <1>7, <2>2
  <2>4. /\ new \in Allocations /\ new.order = row.order /\ new.location = row.location
        /\ new.quantity = row.quantity /\ new.consumed = row.consumed
        /\ new.reservation = row.reservation /\ new.state = row.state
        /\ new.packed = row.packed /\ new.picked = picked - q
    BY ONLY <1>3, <1>6, <2>1, <2>3 DEF Allocations
  <2> QED
    BY <1>1, <1>3, <1>6, <1>7, <2>2, <2>3, <2>4, ProgressSound
<1>11. CASE ReversePack(a, q)
  <2>1. PICK state : state = IF row.state = "COMPLETED" THEN "ACTIVE" ELSE row.state
    OBVIOUS
  <2>2. PICK new : new = [row EXCEPT !.packed = @ - q, !.state = state]
    OBVIOUS
  <2>3. packed - q >= c /\ Progress(a, new)
    BY <1>1, <1>6, <1>11, <2>1, <2>2 DEF ReversePack
  <2>4. packed - q \in Nat /\ c <= packed - q /\ packed - q <= picked /\ packed # 0
    BY ONLY <1>4, <1>7, <2>3
  <2>5. state \in {"ACTIVE", "COMPLETED"} /\ row.state # "RELEASED"
    BY <1>3, <1>6, <2>1, <2>4 DEF Allocations
  <2>6. /\ new \in Allocations /\ new.order = row.order /\ new.location = row.location
        /\ new.quantity = row.quantity /\ new.consumed = row.consumed
        /\ new.reservation = row.reservation /\ new.state = state
        /\ new.packed = packed - q /\ new.picked = row.picked
    BY ONLY <1>3, <1>6, <2>2, <2>4, <2>5 DEF Allocations
  <2> QED
    BY <1>1, <1>3, <1>6, <1>7, <2>3, <2>4, <2>5, <2>6, ProgressSound
<1> QED
  BY <1>8, <1>9, <1>10, <1>11 DEF AllocationStep

-----------------------------------------------------------------------------
(* Delivery orders.                                                        *)

\* A new delivery order adds its lines to what is claimed, and to nothing else.
LEMMA OneDeliveryAdded ==
  ASSUME NEW s, Sound(s), NEW new \in Deliveries, NEW t,
         t.deliveries = Append(s.deliveries, new), NEW a \in 1..MaxAllocations, NEW st
  PROVE  OnDeliveries(t, a, st) =
           OnDeliveries(s, a, st) + (IF new.status \in st THEN new.lines[a] ELSE 0)
<1> DEFINE f == [d \in DOMAIN s.deliveries |-> IF s.deliveries[d].status \in st
                                                 THEN s.deliveries[d].lines[a] ELSE 0]
           g == [d \in DOMAIN t.deliveries |-> IF t.deliveries[d].status \in st
                                                 THEN t.deliveries[d].lines[a] ELSE 0]
<1>1. PICK n : n = Len(s.deliveries)
  OBVIOUS
<1>2. /\ s.deliveries \in Seq(Deliveries) /\ n \in Nat /\ DOMAIN s.deliveries = 1..n
      /\ \A d \in 1..n : s.deliveries[d].lines[a] \in Nat
  BY <1>1, Columns, TableRows, LineType DEF Sound
<1>3. /\ DOMAIN t.deliveries = 1..(n + 1) /\ t.deliveries[n + 1] = new
      /\ \A d \in 1..n : t.deliveries[d] = s.deliveries[d]
  BY <1>1, <1>2
<1>4. new.lines[a] \in Nat
  BY RowColumns
<1>5. \A i \in 1..n : f[i] \in Int /\ g[i] = f[i]
  BY <1>2, <1>3
<1>6. g[n + 1] = (IF new.status \in st THEN new.lines[a] ELSE 0) /\ g[n + 1] \in Int
  BY <1>2, <1>3, <1>4
<1>7. OnDeliveries(t, a, st) = SumFunctionOnSet(g, 1..(n + 1))
  BY <1>3 DEF OnDeliveries
<1>8. OnDeliveries(s, a, st) = SumFunctionOnSet(f, 1..n)
  BY <1>2 DEF OnDeliveries
<1>9. SumFunctionOnSet(f, 1..n) \in Int
  <2>1. PICK S : S = 1..n
    OBVIOUS
  <2>2. IsFiniteSet(S) /\ \A i \in S : f[i] \in Int
    <3>1. IsFiniteSet(1..n)
      BY <1>2, FS_Interval
    <3> QED
      BY <1>5, <2>1, <3>1
  <2> HIDE DEF f
  <2>3. SumFunctionOnSet(f, S) \in Int
    BY ONLY <2>2, SumType
  <2> QED
    BY <2>1, <2>3
<1> HIDE DEF f, g
<1>10. SumFunctionOnSet(g, 1..(n + 1)) = g[n + 1] + SumFunctionOnSet(f, 1..n)
  BY ONLY <1>2, <1>5, <1>6, SumAppend
<1>11. g[n + 1] + SumFunctionOnSet(f, 1..n) = SumFunctionOnSet(f, 1..n) + g[n + 1]
  BY ONLY <1>6, <1>9
<1> QED
  BY <1>6, <1>7, <1>8, <1>10, <1>11

\* Creating a delivery order keeps the tables sound.
LEMMA CreateDeliverySound ==
  ASSUME SInv, NEW o \in Orders, CreateDelivery(o)
  PROVE  SInv'
<1>1. PICK s : s = State
  OBVIOUS
<1>2. PICK lines \in [1..MaxAllocations -> Quantities \union {0}] :
        /\ \A a \in 1..MaxAllocations :
             lines[a] > 0 => /\ a \in Rows(State, o)
                             /\ lines[a] <= allocations[a].packed - Claimed(State, a)
        /\ deliveries' = Append(deliveries, [order |-> o, lines |-> lines, status |-> "draft"])
  BY DEF CreateDelivery
<1>3. PICK new : new = [order |-> o, lines |-> lines, status |-> "draft"]
  OBVIOUS
<1>4. /\ Sound(s) /\ s \in States
      /\ \A a \in 1..MaxAllocations :
           lines[a] > 0 => /\ a \in Rows(s, o)
                           /\ lines[a] <= s.allocations[a].packed - Claimed(s, a)
  BY <1>1, <1>2, Tables DEF SInv, Sound
<1>5. PICK t : t = [onHand |-> s.onHand, reserved |-> s.reserved, status |-> s.status,
           queue |-> s.queue, demands |-> s.demands, allocations |-> s.allocations,
           deliveries |-> Append(s.deliveries, new)]
  OBVIOUS
<1>6. Commit(t)
  BY <1>1, <1>2, <1>3, <1>5, Tables DEF CreateDelivery, Commit
<1>7. /\ t.onHand = s.onHand /\ t.reserved = s.reserved /\ t.status = s.status
      /\ t.queue = s.queue /\ t.demands = s.demands /\ t.allocations = s.allocations
      /\ t.deliveries = Append(s.deliveries, new)
  BY <1>5
<1>8. /\ new \in Deliveries /\ new.order = o /\ new.lines = lines /\ new.status = "draft"
      /\ \A a \in 1..MaxAllocations : lines[a] \in Nat
  <2>1. lines \in [1..MaxAllocations -> Nat]
    <3>1. Quantities \union {0} \subseteq Nat
      BY FulfillmentAssumption
    <3> QED
      BY <3>1
  <2> QED
    BY <1>3, <2>1 DEF Deliveries, Claiming
<1>9. PICK n : n = Len(s.deliveries)
  OBVIOUS
<1>10. /\ s.deliveries \in Seq(Deliveries) /\ n \in Nat /\ DOMAIN s.deliveries = 1..n
       /\ DOMAIN t.deliveries = 1..(n + 1) /\ t.deliveries[n + 1] = new
       /\ \A d \in 1..n : t.deliveries[d] = s.deliveries[d]
       /\ t.deliveries \in Seq(Deliveries)
  <2>1. s.deliveries \in Seq(Deliveries) /\ n \in Nat /\ DOMAIN s.deliveries = 1..n
    BY <1>4, <1>9, Columns, TableRows
  <2> QED
    BY <1>7, <1>8, <1>9, <2>1
<1>11. t \in States
  BY <1>4, <1>5, <1>10, Columns DEF States
<1>12. "draft" \in Claiming /\ "draft" \notin Shipped
  BY DEF Claiming, Shipped
<1>13. ASSUME NEW a \in 1..MaxAllocations
       PROVE  /\ Claimed(t, a) = Claimed(s, a) + lines[a]
              /\ OnDeliveries(t, a, Shipped) = OnDeliveries(s, a, Shipped)
  <2>1. /\ OnDeliveries(t, a, Claiming) = OnDeliveries(s, a, Claiming)
             + (IF new.status \in Claiming THEN new.lines[a] ELSE 0)
        /\ OnDeliveries(t, a, Shipped) = OnDeliveries(s, a, Shipped)
             + (IF new.status \in Shipped THEN new.lines[a] ELSE 0)
    <3>1. /\ Sound(s) /\ new \in Deliveries /\ a \in 1..MaxAllocations
          /\ t.deliveries = Append(s.deliveries, new)
      BY <1>4, <1>7, <1>8
    <3>2. \A st : OnDeliveries(t, a, st) = OnDeliveries(s, a, st)
             + (IF new.status \in st THEN new.lines[a] ELSE 0)
      BY ONLY <3>1, OneDeliveryAdded
    <3> QED
      BY <3>2, Zenon
  <2>2. OnDeliveries(s, a, Shipped) \in Nat
    BY <1>4, OnDeliveriesType
  <2> QED
    BY <1>8, <1>12, <2>1, <2>2 DEF Claimed
<1>14. ShipmentsHold(t)
  <2> SUFFICES ASSUME NEW a \in DOMAIN s.allocations
               PROVE  /\ Claimed(t, a) <= s.allocations[a].packed
                      /\ s.allocations[a].consumed = OnDeliveries(t, a, Shipped)
    BY <1>7 DEF ShipmentsHold
  <2>1. a \in 1..MaxAllocations
    BY <1>4, LineType
  <2>2. PICK x, c, p : x = lines[a] /\ c = Claimed(s, a) /\ p = s.allocations[a].packed
    OBVIOUS
  <2>3. x \in Nat /\ c \in Nat /\ p \in Nat /\ c <= p /\ (x > 0 => x <= p - c)
    <3>1. s.allocations[a] \in Allocations
      BY <1>4, RowColumnsFit
    <3> QED
      BY <1>4, <1>8, <2>1, <2>2, <3>1, RowColumns, OnDeliveriesType
         DEF Claimed, Sound, ShipmentsHold
  <2>4. c + x <= p
    BY ONLY <2>3
  <2> QED
    BY <1>4, <1>13, <2>1, <2>2, <2>4 DEF Sound, ShipmentsHold
<1>15. LinesHold(t)
  <2> SUFFICES ASSUME NEW d \in 1..(n + 1), NEW a \in 1..MaxAllocations,
                      t.deliveries[d].lines[a] > 0
               PROVE  a \in DOMAIN s.allocations
                      /\ s.allocations[a].order = t.deliveries[d].order
    BY <1>7, <1>10 DEF LinesHold
  <2>1. CASE d = n + 1
    BY <1>4, <1>8, <1>10, <2>1 DEF Rows
  <2>2. CASE d # n + 1
    <3>1. d \in 1..n
      BY <1>10, <2>2
    <3> QED
      BY <1>4, <1>10, <3>1 DEF Sound, LinesHold
  <2> QED
    BY <2>1, <2>2
<1>16. Covered(t) /\ RowsHold(t) /\ Len(t.allocations) <= MaxAllocations
  BY <1>4, <1>7 DEF Sound, Covered, RowsHold
<1>17. Booked(t)
  BY <1>4, <1>7 DEF Sound, Booked, Outstanding
<1>18. DemandsHold(t)
  <2>1. SameQuantities(s, t)
    BY <1>7 DEF SameQuantities
  <2>2. \A p : Allocated(t, p) = Allocated(s, p)
    BY <1>4, <2>1, SameAllocated
  <2> QED
    BY <1>4, <1>7, <2>2 DEF Sound, DemandsHold
<1>19. Sound(t)
  BY <1>11, <1>14, <1>15, <1>16, <1>17, <1>18 DEF Sound
<1> QED
  BY <1>6, <1>19, Committed

\* A delivery order that moves on without an issue keeps the tables sound.
LEMMA SetDeliverySound ==
  ASSUME SInv, NEW d \in DOMAIN deliveries, NEW from, NEW to, SetDelivery(d, from, to),
         from \in Claiming \ Shipped, to \in (Claiming \union {"cancelled"}) \ Shipped
  PROVE  SInv'
<1>1. PICK s, t : s = State /\ t = WithDelivery(s, d, to)
  OBVIOUS
<1>2. Sound(s) /\ d \in DOMAIN s.deliveries /\ s.deliveries[d].status = from
  BY <1>1, Tables DEF SInv, SetDelivery
<1>3. /\ Sound(t) /\ t.onHand = s.onHand /\ t.reserved = s.reserved /\ t.status = s.status
      /\ t.queue = s.queue /\ t.demands = s.demands /\ t.allocations = s.allocations
      /\ t.deliveries = [s.deliveries EXCEPT ![d].status = to]
  BY <1>1, <1>2, WithDeliverySound
<1>4. Commit(t)
  BY <1>1, <1>3, Tables DEF SetDelivery, Commit
<1> QED
  BY <1>3, <1>4, Committed

\* The tables after delivery order d consumed its reservations.
LEMMA ConsumedFields ==
  ASSUME NEW s \in States, NEW d
  PROVE  LET t == Adjusted(s, d, 1)
         IN /\ t = [onHand |-> s.onHand,
                    reserved |-> [l \in Locations |-> s.reserved[l] - 1 * Load(s, d)[l]],
                    status |-> s.status, queue |-> s.queue, demands |-> s.demands,
                    allocations |-> [a \in DOMAIN s.allocations |-> AdjustedRow(s, d, 1, a)],
                    deliveries |-> s.deliveries]
<1>1. s = [onHand |-> s.onHand, reserved |-> s.reserved, status |-> s.status,
           queue |-> s.queue, demands |-> s.demands,
           allocations |-> s.allocations, deliveries |-> s.deliveries]
  BY DEF States
<1>2. PICK R, A : /\ R = [l \in Locations |-> s.reserved[l] - 1 * Load(s, d)[l]]
                  /\ A = [a \in DOMAIN s.allocations |-> AdjustedRow(s, d, 1, a)]
  OBVIOUS
<1>3. Adjusted(s, d, 1) = [s EXCEPT !.reserved = R, !.allocations = A]
  <2>1. Adjusted(s, d, 1) =
          [s EXCEPT !.reserved = [l \in Locations |-> s.reserved[l] - 1 * Load(s, d)[l]],
                    !.allocations = [a \in DOMAIN s.allocations |-> AdjustedRow(s, d, 1, a)]]
    BY Zenon DEF Adjusted
  <2> QED
    BY <1>2, <2>1
<1>4. Adjusted(s, d, 1) =
        [onHand |-> s.onHand, reserved |-> R, status |-> s.status, queue |-> s.queue,
         demands |-> s.demands, allocations |-> A, deliveries |-> s.deliveries]
  BY <1>1, <1>3
<1> QED
  BY <1>2, <1>4

\* What a delivery order takes from a scope is reserved there.
LEMMA LoadIsReserved ==
  ASSUME NEW s, Sound(s), NEW d \in DOMAIN s.deliveries,
         \A a \in DOMAIN s.allocations :
           s.deliveries[d].lines[a] > 0 =>
             /\ s.allocations[a].consumed + s.deliveries[d].lines[a] <= s.allocations[a].quantity
             /\ s.allocations[a].reservation # "RELEASED",
         NEW l \in Locations
  PROVE  Load(s, d)[l] \in Nat /\ Load(s, d)[l] <= s.reserved[l]
<1> DEFINE f == Loaded(s, d, l)
           g == Outstanding(s, l)
           A == DOMAIN s.allocations
<1>1. /\ \A a \in A : f[a] \in Nat
      /\ Load(s, d)[l] = SumFunctionOnSet(f, A) /\ Load(s, d)[l] \in Nat
  BY LoadIsSum
<1>2. \A a \in A : g[a] \in Nat
  BY OutstandingType
<1>3. IsFiniteSet(A) /\ s.reserved[l] = SumFunctionOnSet(g, A)
  BY TableRows DEF Sound, Booked
<1>4. \A a \in A : f[a] <= g[a]
  <2> SUFFICES ASSUME NEW a \in A PROVE f[a] <= g[a]
    OBVIOUS
  <2>1. f[a] \in Nat /\ g[a] \in Nat
    BY <1>1, <1>2
  <2>2. CASE f[a] = 0
    <3> HIDE DEF f, g
    <3> QED
      BY <2>1, <2>2
  <2>3. CASE f[a] # 0
    <3>1. s.allocations[a].location = l /\ f[a] = s.deliveries[d].lines[a]
      BY <2>3 DEF Loaded
    <3>2. s.deliveries[d].lines[a] > 0
      BY <2>1, <2>3, <3>1
    <3>3. s.allocations[a].state # "RELEASED"
      BY <3>2 DEF Sound, RowsHold
    <3>4. g[a] = s.allocations[a].quantity - s.allocations[a].consumed
      BY <3>1, <3>3 DEF Outstanding
    <3>5. /\ s.allocations[a].quantity \in Nat /\ s.allocations[a].consumed \in Nat
      BY RowColumnsFit, RowColumns
    <3>6. PICK x, q, c : /\ x = f[a] /\ q = s.allocations[a].quantity
                         /\ c = s.allocations[a].consumed
      OBVIOUS
    <3>7. x \in Nat /\ q \in Nat /\ c \in Nat /\ c + x <= q
      BY <2>1, <3>1, <3>2, <3>5, <3>6
    <3>8. x <= q - c
      BY ONLY <3>7
    <3> QED
      BY <3>4, <3>6, <3>8
  <2> QED
    BY <2>2, <2>3
<1> HIDE DEF f, g, A
<1>5. SumFunctionOnSet(f, A) <= SumFunctionOnSet(g, A)
  <2>1. \A a \in A : f[a] \in Int /\ g[a] \in Int /\ f[a] <= g[a]
    BY <1>1, <1>2, <1>4
  <2> QED
    BY ONLY <1>3, <2>1, SumMonotone
<1> QED
  BY <1>1, <1>3, <1>5

\* The tables after an issue are sound: what the delivery order takes leaves
\* stock and reservations together.
LEMMA IssueTables ==
  ASSUME SInv, NEW d \in DOMAIN deliveries, NEW st \in Shipped, Issue(d, st)
  PROVE  \E t : /\ Sound(t) /\ Commit(t)
                /\ t.status = status /\ t.queue = queue /\ t.demands = demands
                /\ t.deliveries = [deliveries EXCEPT ![d].status = st]
                /\ t.allocations = [a \in DOMAIN allocations |-> AdjustedRow(State, d, 1, a)]
                /\ \A l \in Locations : /\ Load(State, d)[l] \in Nat
                                        /\ onHand[l] = t.onHand[l] + Load(State, d)[l]
                                        /\ reserved[l] = t.reserved[l] + Load(State, d)[l]
<1>1. PICK s, u : s = State /\ u = Adjusted(s, d, 1)
  OBVIOUS
<1>2. PICK delta, t : /\ delta = Opposite(Load(u, d))
                      /\ t = WithDelivery(Moved(u, delta), d, st)
  OBVIOUS
<1>3. /\ Sound(s) /\ s \in States /\ d \in DOMAIN s.deliveries
      /\ s.deliveries[d].status = "ready_to_dispatch"
      /\ \A a \in DOMAIN s.allocations :
           s.deliveries[d].lines[a] > 0 =>
             /\ s.allocations[a].consumed + s.deliveries[d].lines[a] <= s.allocations[a].quantity
             /\ s.allocations[a].reservation # "RELEASED"
      /\ MayPost(u.onHand, u.reserved, delta) /\ Commit(t)
  <2>1. Sound(s) /\ s \in States /\ d \in DOMAIN s.deliveries
    BY <1>1, Tables DEF SInv, Sound
  <2>2. s.deliveries[d].status = "ready_to_dispatch"
    BY <1>1, Tables DEF Issue
  <2>3. \A a \in DOMAIN s.allocations :
           s.deliveries[d].lines[a] > 0 =>
             /\ s.allocations[a].consumed + s.deliveries[d].lines[a] <= s.allocations[a].quantity
             /\ s.allocations[a].reservation # "RELEASED"
    BY <1>1, Tables DEF Issue
  <2>4. MayPost(u.onHand, u.reserved, delta) /\ Commit(t)
    BY <1>1, <1>2 DEF Issue
  <2> QED
    BY <2>1, <2>2, <2>3, <2>4
<1>4. u = [onHand |-> s.onHand,
           reserved |-> [l \in Locations |-> s.reserved[l] - 1 * Load(s, d)[l]],
           status |-> s.status, queue |-> s.queue, demands |-> s.demands,
           allocations |-> [a \in DOMAIN s.allocations |-> AdjustedRow(s, d, 1, a)],
           deliveries |-> s.deliveries]
  BY <1>1, <1>3, ConsumedFields
<1>5. /\ u.onHand = s.onHand /\ u.deliveries = s.deliveries
      /\ u.allocations = [a \in DOMAIN s.allocations |-> AdjustedRow(s, d, 1, a)]
      /\ u.reserved = [l \in Locations |-> s.reserved[l] - 1 * Load(s, d)[l]]
  BY <1>4
<1>6. Load(u, d) = Load(s, d)
  <2>1. /\ DOMAIN u.allocations = DOMAIN s.allocations
        /\ \A a \in DOMAIN s.allocations : u.allocations[a].location = s.allocations[a].location
    <3>1. \A a \in DOMAIN s.allocations :
            AdjustedRow(s, d, 1, a).location = s.allocations[a].location
      <4> SUFFICES ASSUME NEW a \in DOMAIN s.allocations
                   PROVE  AdjustedRow(s, d, 1, a).location = s.allocations[a].location
        OBVIOUS
      <4>1. 1 \in {1, -1} /\ ~(1 = -1)
        OBVIOUS
      <4> QED
        BY <1>3, <4>1, AdjustedRowHolds
    <3> QED
      BY <1>5, <3>1
  <2>2. \A l \in Locations : {a \in DOMAIN u.allocations : u.allocations[a].location = l}
                               = {a \in DOMAIN s.allocations : s.allocations[a].location = l}
    BY <2>1
  <2> QED
    BY <1>5, <2>2 DEF Load
<1>7. \A l \in Locations :
        /\ Load(s, d)[l] \in Nat /\ Load(s, d)[l] <= s.reserved[l]
        /\ delta[l] = -Load(s, d)[l]
  BY <1>2, <1>3, <1>6, LoadIsReserved DEF Opposite
<1>8. t = [onHand |-> Posted(s.onHand, delta), reserved |-> u.reserved, status |-> s.status,
           queue |-> s.queue, demands |-> s.demands, allocations |-> u.allocations,
           deliveries |-> [s.deliveries EXCEPT ![d].status = st]]
  BY <1>2, <1>4, <1>5 DEF WithDelivery, Moved
<1>9. /\ t.onHand = Posted(s.onHand, delta) /\ t.reserved = u.reserved
      /\ t.allocations = u.allocations
      /\ t.deliveries = [s.deliveries EXCEPT ![d].status = st]
  BY <1>8
<1>10. \A l \in Locations : t.onHand[l] \in Nat /\ t.reserved[l] <= t.onHand[l]
  <2> SUFFICES ASSUME NEW l \in Locations
               PROVE  t.onHand[l] \in Nat /\ t.reserved[l] <= t.onHand[l]
    OBVIOUS
  <2>1. PICK x, y, z : x = s.onHand[l] /\ y = s.reserved[l] /\ z = Load(s, d)[l]
    OBVIOUS
  <2>2. x \in Nat /\ y \in Nat /\ z \in Nat /\ y <= x /\ z <= y
    BY <1>3, <1>7, <2>1, Columns DEF Sound, Covered
  <2>3. x + (-z) \in Nat /\ y - 1 * z <= x + (-z)
    BY ONLY <2>2
  <2>4. t.onHand[l] = x + (-z) /\ t.reserved[l] = y - 1 * z
    BY <1>5, <1>7, <1>9, <2>1 DEF Posted
  <2> QED
    BY <2>3, <2>4
<1>11. t.onHand \in [Locations -> Nat] /\ Covered(t)
  BY <1>9, <1>10 DEF Covered, Posted
<1>12. /\ t.reserved = [l \in Locations |-> s.reserved[l] - 1 * Load(s, d)[l]]
       /\ t.allocations = [a \in DOMAIN s.allocations |-> AdjustedRow(s, d, 1, a)]
       /\ t = [onHand |-> t.onHand, reserved |-> t.reserved, status |-> s.status,
               queue |-> s.queue, demands |-> s.demands, allocations |-> t.allocations,
               deliveries |-> t.deliveries]
  BY <1>5, <1>8, <1>9
<1>13. s.deliveries[d].status \in Claiming \ Shipped /\ 1 \in {1, -1} /\ ~(1 = -1)
  BY <1>3 DEF Claiming, Shipped
<1>14. Sound(t)
  BY ONLY <1>3, <1>9, <1>11, <1>12, <1>13, st \in Shipped, ShipmentSound
<1>15. \A l \in Locations : /\ Load(s, d)[l] \in Nat
                            /\ s.onHand[l] = t.onHand[l] + Load(s, d)[l]
                            /\ s.reserved[l] = t.reserved[l] + Load(s, d)[l]
  <2> SUFFICES ASSUME NEW l \in Locations
               PROVE  /\ Load(s, d)[l] \in Nat
                      /\ s.onHand[l] = t.onHand[l] + Load(s, d)[l]
                      /\ s.reserved[l] = t.reserved[l] + Load(s, d)[l]
    OBVIOUS
  <2>1. PICK x, y, z, x1, y1 : /\ x = s.onHand[l] /\ y = s.reserved[l] /\ z = Load(s, d)[l]
                               /\ x1 = t.onHand[l] /\ y1 = t.reserved[l]
    OBVIOUS
  <2>2. x \in Nat /\ y \in Nat /\ z \in Nat /\ x1 = x + (-z) /\ y1 = y - 1 * z
    BY <1>3, <1>7, <1>9, <1>12, <2>1, Columns DEF Posted
  <2>3. x = x1 + z /\ y = y1 + z
    BY ONLY <2>2
  <2> QED
    BY <2>1, <2>2, <2>3
<1>16. t.status = s.status /\ t.queue = s.queue /\ t.demands = s.demands
  BY <1>8
<1>17. /\ Sound(t) /\ Commit(t)
       /\ t.status = status /\ t.queue = queue /\ t.demands = demands
  BY <1>1, <1>3, <1>14, <1>16, Tables
<1>18. /\ t.deliveries = [deliveries EXCEPT ![d].status = st]
       /\ t.allocations = [a \in DOMAIN allocations |-> AdjustedRow(State, d, 1, a)]
  BY <1>1, <1>9, <1>12, Tables
<1>19. \A l \in Locations : /\ Load(State, d)[l] \in Nat
                            /\ onHand[l] = t.onHand[l] + Load(State, d)[l]
                            /\ reserved[l] = t.reserved[l] + Load(State, d)[l]
  BY <1>1, <1>15, Tables
<1> QED
  BY ONLY <1>17, <1>18, <1>19

\* Issuing a delivery order keeps the tables sound.
LEMMA IssueSound ==
  ASSUME SInv, NEW d \in DOMAIN deliveries, NEW st \in Shipped, Issue(d, st)
  PROVE  SInv'
<1>1. PICK t : Sound(t) /\ Commit(t)
  BY IssueTables
<1> QED
  BY <1>1, Committed

\* Reversing an issue keeps the tables sound.
LEMMA ReverseIssueSound ==
  ASSUME SInv, NEW d \in DOMAIN deliveries, ReverseIssue(d)
  PROVE  SInv'
<1>1. PICK s, t : s = State /\ t = IssueReversed(s, d)
  OBVIOUS
<1>2. /\ Sound(s) /\ d \in DOMAIN s.deliveries /\ s.deliveries[d].status \in Shipped
      /\ Commit(t)
  BY <1>1, Tables DEF SInv, ReverseIssue
<1>3. Sound(t)
  BY <1>1, <1>2, IssueReversedSound
<1> QED
  BY <1>2, <1>3, Committed

\* What happens to a delivery order.
LEMMA DeliveryStepSound ==
  ASSUME SInv, NEW d \in DOMAIN deliveries, DeliveryStep(d)
  PROVE  SInv'
<1>1. /\ "draft" \in Claiming \ Shipped /\ "ready_to_dispatch" \in Claiming \ Shipped
      /\ "cancelled" \in (Claiming \union {"cancelled"}) \ Shipped
      /\ "ready_to_dispatch" \in (Claiming \union {"cancelled"}) \ Shipped
  BY DEF Claiming, Shipped
<1>2. CASE ConfirmDelivery(d)
  BY <1>1, <1>2, SetDeliverySound DEF ConfirmDelivery
<1>3. CASE CancelDelivery(d)
  BY <1>1, <1>3, SetDeliverySound DEF CancelDelivery
<1>4. CASE ReleaseDelivery(d)
  BY <1>1, <1>4, SetDeliverySound DEF ReleaseDelivery
<1>5. CASE \E st \in Shipped : Issue(d, st)
  BY <1>5, IssueSound
<1>6. CASE ReverseIssue(d)
  BY <1>6, ReverseIssueSound
<1> QED
  BY <1>2, <1>3, <1>4, <1>5, <1>6 DEF DeliveryStep

-----------------------------------------------------------------------------
(* Allocation.                                                             *)

\* A finite set of numbers has a largest one.
LEMMA LargestOf ==
  ASSUME NEW S, IsFiniteSet(S), S \subseteq Nat, S # {}
  PROVE  \E x \in S : \A y \in S : y <= x
<1> DEFINE Above(i) == {j \in S : j >= i}
           U == {Above(i) : i \in S}
<1>1. U \subseteq SUBSET S /\ U # {}
  OBVIOUS
<1>2. PICK u \in U : \A w \in U : w \subseteq u => w = u
  <2> HIDE DEF U
  <2>1. IsFiniteSet(S) /\ U \subseteq SUBSET S /\ U # {}
    BY <1>1
  <2> QED
    BY ONLY <2>1, SmallestSet
<1>3. PICK x \in S : u = Above(x)
  BY <1>2
<1>4. ASSUME NEW y \in S, ~(y <= x) PROVE FALSE
  <2>1. x \in Nat /\ y \in Nat /\ y > x
    BY <1>3, <1>4
  <2>2. Above(y) \in U /\ Above(y) \subseteq u /\ x \in u
    <3>1. Above(y) \in U
      OBVIOUS
    <3>2. \A j \in S : j >= y => j >= x
      BY <2>1
    <3>3. Above(y) \subseteq Above(x)
      BY <3>2
    <3>4. x \in Above(x)
      BY <2>1
    <3> HIDE DEF U, Above
    <3> QED
      BY <1>3, <3>1, <3>3, <3>4
  <2>3. x \notin Above(y)
    BY <2>1
  <2> HIDE DEF U, Above
  <2> QED
    BY <1>2, <2>2, <2>3
<1> QED
  BY <1>3, <1>4

\* What a plan takes.
UsedBy(plan) == {l \in Locations : plan[l] > 0}
PlaceIn(plan, l) == Cardinality({k \in UsedBy(plan) : k <= l})
AtPlace(plan, i) == CHOOSE k \in UsedBy(plan) : PlaceIn(plan, k) = i

\* The scopes of a plan are numbered one by one.
LEMMA PlacesAreNumbers ==
  ASSUME NEW plan \in [Locations -> Nat]
  PROVE  LET n == Cardinality(UsedBy(plan))
         IN /\ n \in Nat /\ IsFiniteSet(UsedBy(plan)) /\ UsedBy(plan) \subseteq Locations
            /\ \A i \in 1..n : AtPlace(plan, i) \in UsedBy(plan)
            /\ \A i, j \in 1..n : AtPlace(plan, i) = AtPlace(plan, j) => i = j
            /\ \A l \in UsedBy(plan) : \E i \in 1..n : l = AtPlace(plan, i)
<1> DEFINE used == UsedBy(plan)
           n == Cardinality(used)
           Upto(l) == {k \in used : k <= l}
           place == [l \in used |-> Cardinality(Upto(l))]
<1>1. IsFiniteSet(used) /\ used \subseteq Locations /\ used \subseteq Nat
  <2>1. used \subseteq Locations /\ Locations \subseteq Nat
    BY FulfillmentAssumption DEF UsedBy
  <2> QED
    BY <2>1, LocationsAssumption, FS_Subset
<1>2. n \in Nat
  BY <1>1, FS_CardinalityType
<1>3. \A l \in used : /\ l \in Upto(l) /\ Upto(l) \subseteq used
  BY <1>1
<1>4. \A l \in used : /\ IsFiniteSet(Upto(l)) /\ Cardinality(Upto(l)) \in 1..n
  <2> SUFFICES ASSUME NEW l \in used
               PROVE  IsFiniteSet(Upto(l)) /\ Cardinality(Upto(l)) \in 1..n
    OBVIOUS
  <2>1. PICK W : W = Upto(l)
    OBVIOUS
  <2>2. l \in W /\ W \in SUBSET used
    BY <1>3, <2>1
  <2> HIDE DEF used, Upto
  <2>3. IsFiniteSet(W) /\ Cardinality(W) <= n
    BY <1>1, <2>2, FS_Subset
  <2>4. Cardinality(W) \in Nat /\ (Cardinality(W) = 0 <=> W = {})
    BY <2>3, FS_CardinalityType, FS_EmptySet
  <2>5. W # {}
    BY <2>2
  <2>6. Cardinality(W) \in 1..n
    <3>1. PICK c : c = Cardinality(W)
      OBVIOUS
    <3>2. c \in Nat /\ c # 0 /\ c <= n /\ n \in Nat
      BY <1>2, <2>3, <2>4, <2>5, <3>1
    <3>3. c \in 1..n
      BY ONLY <3>2
    <3> QED
      BY <3>1, <3>3
  <2> QED
    BY <2>1, <2>3, <2>6
<1>5. ASSUME NEW k \in used, NEW l \in used, k < l
      PROVE  Cardinality(Upto(k)) # Cardinality(Upto(l))
  <2>1. PICK V, W : V = Upto(k) /\ W = Upto(l)
    OBVIOUS
  <2>2. V \in SUBSET W /\ l \in W /\ l \notin V
    BY <1>1, <1>5, <2>1
  <2>3. IsFiniteSet(W)
    BY <1>4, <2>1
  <2> HIDE DEF used, Upto
  <2>4. Cardinality(W) = Cardinality(V) => W = V
    BY <2>2, <2>3, FS_Subset
  <2> QED
    BY <2>1, <2>2, <2>4
<1>6. ASSUME NEW k \in used, NEW l \in used, place[k] = place[l] PROVE k = l
  <2>1. Cardinality(Upto(k)) = Cardinality(Upto(l))
    BY <1>6
  <2>2. k \in Nat /\ l \in Nat
    BY <1>1
  <2>3. ~(k < l) /\ ~(l < k)
    BY <1>5, <2>1
  <2> QED
    BY <2>2, <2>3
<1>7. place \in [used -> 1..n]
  BY <1>4
<1>8. \A i \in 1..n : \E l \in used : place[l] = i
  <2>1. IsFiniteSet(1..n) /\ Cardinality(1..n) = n
    <3>1. 1 \in Int /\ n \in Int
      BY <1>2
    <3>2. IsFiniteSet(1..n) /\ Cardinality(1..n) = IF 1 > n THEN 0 ELSE n-1+1
      BY <3>1, FS_Interval
    <3>3. (IF 1 > n THEN 0 ELSE n-1+1) = n
      BY <1>2
    <3> QED
      BY <3>2, <3>3
  <2>2. place \in Injection(used, 1..n)
    BY <1>6, <1>7 DEF Injection, IsInjective
  <2> HIDE DEF used, place
  <2>3. place \in Surjection(used, 1..n)
    <3>1. PICK T : T = 1..n
      OBVIOUS
    <3>2. IsFiniteSet(T) /\ Cardinality(used) = Cardinality(T) /\ place \in Injection(used, T)
      BY <2>1, <2>2, <3>1
    <3>3. place \in Surjection(used, T)
      BY ONLY <3>2, FS_Injection
    <3> QED
      BY <3>1, <3>3
  <2> QED
    BY <2>3 DEF Surjection
<1>9. \A l \in used : PlaceIn(plan, l) = place[l]
  BY DEF PlaceIn
<1>10. \A i \in 1..n : AtPlace(plan, i) \in used /\ place[AtPlace(plan, i)] = i
  <2> SUFFICES ASSUME NEW i \in 1..n
               PROVE  AtPlace(plan, i) \in used /\ place[AtPlace(plan, i)] = i
    OBVIOUS
  <2> HIDE DEF place
  <2>1. \E l \in used : PlaceIn(plan, l) = i
    BY <1>8, <1>9
  <2>2. AtPlace(plan, i) \in used /\ PlaceIn(plan, AtPlace(plan, i)) = i
    BY <2>1 DEF AtPlace
  <2> QED
    BY <1>9, <2>2
<1> HIDE DEF place
<1>11. \A l \in used : place[l] \in 1..n /\ l = AtPlace(plan, place[l])
  BY <1>6, <1>7, <1>10
<1>12. \A i, j \in 1..n : AtPlace(plan, i) = AtPlace(plan, j) => i = j
  BY <1>10
<1>13. \A l \in used : \E i \in 1..n : l = AtPlace(plan, i)
  BY <1>11
<1>14. \A i \in 1..n : AtPlace(plan, i) \in used
  BY <1>10
<1> QED
  BY <1>1, <1>2, <1>12, <1>13, <1>14

\* The rows of a plan: one for each scope that is used.
LEMMA PlanRowsAre ==
  ASSUME NEW o, NEW plan \in [Locations -> Nat]
  PROVE  LET n == Cardinality(UsedBy(plan))
         IN /\ n \in Nat /\ DOMAIN PlanRows(o, plan) = 1..n
            /\ PlanRows(o, plan) =
                 [i \in 1..n |-> NewAllocation(o, AtPlace(plan, i), plan[AtPlace(plan, i)])]
            /\ \A i \in 1..n :
                 /\ AtPlace(plan, i) \in Locations /\ plan[AtPlace(plan, i)] \in Nat
                 /\ plan[AtPlace(plan, i)] > 0
                 /\ PlanRows(o, plan)[i] =
                      NewAllocation(o, AtPlace(plan, i), plan[AtPlace(plan, i)])
<1>1. PlanRows(o, plan) = [i \in 1..Cardinality(UsedBy(plan)) |->
                             NewAllocation(o, AtPlace(plan, i), plan[AtPlace(plan, i)])]
  BY Zenon DEF PlanRows, UsedBy, AtPlace, PlaceIn
<1>2. PICK n : n = Cardinality(UsedBy(plan))
  OBVIOUS
<1>3. n \in Nat /\ \A i \in 1..n : AtPlace(plan, i) \in UsedBy(plan)
  BY <1>2, PlacesAreNumbers
<1>4. \A i \in 1..n : /\ AtPlace(plan, i) \in Locations /\ plan[AtPlace(plan, i)] \in Nat
                      /\ plan[AtPlace(plan, i)] > 0
  BY <1>3 DEF UsedBy
<1>5. PlanRows(o, plan) = [i \in 1..n |->
                             NewAllocation(o, AtPlace(plan, i), plan[AtPlace(plan, i)])]
  BY <1>1, <1>2
<1> QED
  BY <1>2, <1>3, <1>4, <1>5

\* The rows of a plan take from each scope, and from all, what the plan says.
LEMMA PlanSums ==
  ASSUME NEW plan \in [Locations -> Nat], NEW n, n = Cardinality(UsedBy(plan))
  PROVE  /\ \A l \in Locations :
              SumFunctionOnSet([i \in 1..n |-> IF AtPlace(plan, i) = l
                                                 THEN plan[AtPlace(plan, i)] ELSE 0], 1..n)
                = plan[l]
         /\ SumFunctionOnSet([i \in 1..n |-> plan[AtPlace(plan, i)]], 1..n) = Total(plan)
<1> DEFINE used == UsedBy(plan)
           at == [i \in 1..n |-> AtPlace(plan, i)]
<1>1. PICK I : I = 1..n
  OBVIOUS
<1>2. /\ n \in Nat /\ IsFiniteSet(used) /\ used \subseteq Locations
      /\ \A i \in 1..n : AtPlace(plan, i) \in used
      /\ \A i, j \in 1..n : AtPlace(plan, i) = AtPlace(plan, j) => i = j
      /\ \A l \in used : \E i \in 1..n : l = AtPlace(plan, i)
  BY PlacesAreNumbers
<1>3. IsFiniteSet(I)
  BY <1>1, <1>2, FS_Interval
<1>4. at \in [I -> used] /\ \A x, y \in I : at[x] = at[y] => x = y
  BY <1>1, <1>2
<1>5. \A l \in used : \E i \in I : l = at[i]
  BY <1>1, <1>2
<1>6. \A l \in Locations \ used : plan[l] = 0
  BY DEF UsedBy
<1>7. ASSUME NEW l \in Locations
      PROVE  SumFunctionOnSet([i \in 1..n |-> IF AtPlace(plan, i) = l
                                                 THEN plan[AtPlace(plan, i)] ELSE 0], 1..n)
               = plan[l]
  <2> DEFINE f == [i \in 1..n |-> IF AtPlace(plan, i) = l THEN plan[AtPlace(plan, i)] ELSE 0]
             g == [k \in used |-> IF k = l THEN plan[k] ELSE 0]
  <2>1. \A i \in I : f[i] \in Int /\ g[at[i]] = f[i]
    BY <1>1, <1>2
  <2>2. \A k \in used : g[k] \in Int /\ (k # l => g[k] = 0) /\ (k = l => g[k] = plan[l])
    BY <1>2
  <2> HIDE DEF f, g, at, used
  <2>3. SumFunctionOnSet(g, used) = SumFunctionOnSet(f, I)
    BY ONLY <1>3, <1>4, <1>5, <2>1, SumReindexed
  <2>4. SumFunctionOnSet(g, used) = plan[l]
    <3>1. CASE l \in used
      <4>1. PICK R : R = {l}
        OBVIOUS
      <4>2. R \subseteq used /\ (\A k \in used : g[k] \in Int) /\ \A k \in used \ R : g[k] = 0
        BY <2>2, <3>1, <4>1
      <4>3. SumFunctionOnSet(g, used) = SumFunctionOnSet(g, R)
        BY ONLY <1>2, <4>2, SumSupport
      <4>4. g[l] = plan[l] /\ g[l] \in Int
        BY <2>2, <3>1
      <4>5. SumFunctionOnSet(g, {l}) = g[l]
        BY ONLY <4>4, SumSingle
      <4> QED
        BY <4>1, <4>3, <4>4, <4>5
    <3>2. CASE l \notin used
      <4>1. {} \subseteq used /\ (\A k \in used : g[k] \in Int) /\ \A k \in used \ {} : g[k] = 0
        BY <2>2, <3>2
      <4>2. SumFunctionOnSet(g, used) = SumFunctionOnSet(g, {})
        BY ONLY <1>2, <4>1, SumSupport
      <4>3. SumFunctionOnSet(g, {}) = 0
        BY SumEmpty
      <4>4. plan[l] = 0
        BY <1>6, <3>2
      <4> QED
        BY <4>2, <4>3, <4>4
    <3> QED
      BY <3>1, <3>2
  <2> QED
    BY <1>1, <2>3, <2>4 DEF f
<1>8. SumFunctionOnSet([i \in 1..n |-> plan[AtPlace(plan, i)]], 1..n) = Total(plan)
  <2> DEFINE f == [i \in 1..n |-> plan[AtPlace(plan, i)]]
  <2>1. \A i \in I : f[i] \in Int /\ plan[at[i]] = f[i]
    BY <1>1, <1>2
  <2>2. \A l \in Locations : plan[l] \in Int
    OBVIOUS
  <2> HIDE DEF f, at, used
  <2>3. SumFunctionOnSet(plan, used) = SumFunctionOnSet(f, I)
    BY ONLY <1>3, <1>4, <1>5, <2>1, SumReindexed
  <2>4. SumFunctionOnSet(plan, Locations) = SumFunctionOnSet(plan, used)
    BY ONLY <1>2, <1>6, <2>2, LocationsAssumption, SumSupport
  <2> QED
    BY <1>1, <2>3, <2>4 DEF Total, f
<1> QED
  BY <1>7, <1>8

\* What a scope can still give.
LEMMA CandidateIs ==
  ASSUME NEW s, Sound(s), NEW l \in Locations
  PROVE  Candidate(s, l) \in Nat /\ Candidate(s, l) = s.onHand[l] - s.reserved[l]
<1>1. PICK x, y : x = s.onHand[l] /\ y = s.reserved[l]
  OBVIOUS
<1>2. x \in Nat /\ y \in Nat /\ y <= x
  BY <1>1, Columns DEF Sound, Covered
<1>3. ~(x - y < 0) /\ x - y \in Nat
  BY ONLY <1>2
<1> QED
  BY <1>1, <1>3 DEF Candidate, AtLeastZero

\* An automatic plan stays within each scope and within the quantity.
LEMMA AutoPlanFits ==
  ASSUME NEW s, Sound(s), NEW quantity \in Nat
  PROVE  LET plan == AutoPlan(s, quantity)
         IN /\ plan \in [Locations -> Nat]
            /\ \A l \in Locations : plan[l] <= Candidate(s, l)
            /\ Total(plan) <= quantity
<1> DEFINE c == [k \in Locations |-> Candidate(s, k)]
           below(l) == {k \in Locations : k < l}
           given(l) == SumFunctionOnSet(c, below(l))
<1>1. PICK plan : plan = AutoPlan(s, quantity)
  OBVIOUS
<1>2. \A l \in Locations : c[l] \in Nat /\ c[l] = Candidate(s, l)
  BY CandidateIs
<1>3. \A l \in Locations : /\ IsFiniteSet(below(l)) /\ below(l) \subseteq Locations
                           /\ given(l) \in Nat
  <2> SUFFICES ASSUME NEW l \in Locations
               PROVE  /\ IsFiniteSet(below(l)) /\ below(l) \subseteq Locations
                      /\ given(l) \in Nat
    OBVIOUS
  <2>1. PICK B : B = below(l)
    OBVIOUS
  <2>2. B \subseteq Locations
    BY <2>1
  <2>3. IsFiniteSet(B)
    BY <2>2, LocationsAssumption, FS_Subset
  <2>4. \A k \in B : c[k] \in Nat
    BY <1>2, <2>2
  <2> HIDE DEF c, below
  <2>5. SumFunctionOnSet(c, B) \in Nat
    BY ONLY <2>3, <2>4, SumNat
  <2> QED
    BY <2>1, <2>2, <2>3, <2>5
<1>4. plan = [l \in Locations |-> Clamp(quantity - given(l), 0, Candidate(s, l))]
  <2>1. plan = [l \in Locations |->
           Clamp(quantity - SumFunctionOnSet([k \in below(l) |-> Candidate(s, k)], below(l)),
                 0, Candidate(s, l))]
    BY <1>1 DEF AutoPlan
  <2>2. \A l \in Locations :
          SumFunctionOnSet([k \in below(l) |-> Candidate(s, k)], below(l)) = given(l)
    <3> SUFFICES ASSUME NEW l \in Locations
                 PROVE SumFunctionOnSet([k \in below(l) |-> Candidate(s, k)], below(l)) = given(l)
      OBVIOUS
    <3>1. PICK B, b : B = below(l) /\ b = [k \in B |-> Candidate(s, k)]
      OBVIOUS
    <3>2. IsFiniteSet(B) /\ \A k \in B : b[k] = c[k]
      BY <1>3, <3>1
    <3> HIDE DEF c, below
    <3>3. SumFunctionOnSet(b, B) = SumFunctionOnSet(c, B)
      BY ONLY <3>2, SumCongruence
    <3> QED
      BY <3>1, <3>3
  <2> HIDE DEF below, given
  <2> QED
    BY <2>1, <2>2, Zenon
<1> HIDE DEF c
<1>5. \A l \in Locations : /\ plan[l] \in Nat /\ plan[l] <= Candidate(s, l)
                           /\ plan[l] > 0 => plan[l] + given(l) <= quantity
  <2> SUFFICES ASSUME NEW l \in Locations
               PROVE  /\ plan[l] \in Nat /\ plan[l] <= Candidate(s, l)
                      /\ plan[l] > 0 => plan[l] + given(l) <= quantity
    OBVIOUS
  <2>1. PICK g, x, p : g = given(l) /\ x = Candidate(s, l) /\ p = plan[l]
    OBVIOUS
  <2>2. g \in Nat /\ x \in Nat /\ p = Clamp(quantity - g, 0, x)
    BY <1>2, <1>3, <1>4, <2>1
  <2>3. p \in Nat /\ p <= x /\ (p > 0 => p + g <= quantity)
    BY ONLY <2>2, quantity \in Nat DEF Clamp
  <2> QED
    BY <2>1, <2>3
<1>6. plan \in [Locations -> Nat]
  BY <1>4, <1>5
<1> HIDE DEF given
<1>8. \A l \in Locations : plan[l] \in Nat /\ plan[l] \in Int /\ plan[l] <= c[l] /\ c[l] \in Int
  BY <1>2, <1>5
<1>7. Total(plan) <= quantity
  <2> DEFINE used == UsedBy(plan)
  <2>1. used \subseteq Locations /\ IsFiniteSet(used) /\ used \subseteq Nat
    <3>1. used \subseteq Locations
      BY DEF UsedBy
    <3> QED
      BY <3>1, LocationsAssumption, FulfillmentAssumption, FS_Subset
  <2>2. Total(plan) = SumFunctionOnSet(plan, used)
    <3>1. \A l \in Locations \ used : plan[l] = 0
      BY <1>8 DEF UsedBy
    <3>2. \A l \in Locations : plan[l] \in Int
      BY <1>8
    <3>3. used \subseteq Locations
      BY <2>1
    <3> HIDE DEF used
    <3>4. SumFunctionOnSet(plan, Locations) = SumFunctionOnSet(plan, used)
      BY ONLY <3>1, <3>2, <3>3, LocationsAssumption, SumSupport
    <3> QED
      BY <3>4 DEF Total
  <2>3. CASE used = {}
    BY <2>2, <2>3, SumEmpty
  <2>4. CASE used # {}
    <3>1. PICK last \in used : \A k \in used : k <= last
      BY <2>1, <2>4, LargestOf
    <3>2. PICK B, R : B = below(last) /\ R = used \ {last}
      OBVIOUS
    <3>3. R \subseteq B /\ B \subseteq Locations /\ IsFiniteSet(B) /\ IsFiniteSet(R)
          /\ last \in Locations
      <4>1. R \subseteq B
        BY <2>1, <3>1, <3>2
      <4>2. B \subseteq Locations /\ IsFiniteSet(B) /\ last \in Locations
        BY <1>3, <2>1, <3>1, <3>2
      <4> QED
        BY <4>1, <4>2, FS_Subset
    <3>4. SumFunctionOnSet(plan, used) = plan[last] + SumFunctionOnSet(plan, R)
      <4>1. \A k \in used : plan[k] \in Int
        BY <1>8, <2>1
      <4>2. IsFiniteSet(used) /\ last \in used
        BY <2>1, <3>1
      <4> HIDE DEF used
      <4>3. SumFunctionOnSet(plan, used) = plan[last] + SumFunctionOnSet(plan, used \ {last})
        BY ONLY <4>1, <4>2, SumRemove
      <4> QED
        BY <3>2, <4>3
    <3>5. SumFunctionOnSet(plan, R) <= SumFunctionOnSet(c, R)
      <4>1. \A k \in R : plan[k] \in Int /\ c[k] \in Int /\ plan[k] <= c[k]
        BY <1>8, <3>3
      <4> QED
        BY ONLY <3>3, <4>1, SumMonotone
    <3>6. SumFunctionOnSet(c, R) <= SumFunctionOnSet(c, B)
      <4>1. \A k \in B : c[k] \in Nat
        BY <1>2, <3>3
      <4> QED
        BY ONLY <3>3, <4>1, SumSubset
    <3>7. PICK p, x, y, z : /\ p = plan[last] /\ x = SumFunctionOnSet(plan, R)
                            /\ y = SumFunctionOnSet(c, R) /\ z = SumFunctionOnSet(c, B)
      OBVIOUS
    <3>8. p \in Nat /\ p > 0 /\ z \in Nat /\ p + z <= quantity
      BY <1>3, <1>5, <3>1, <3>2, <3>3, <3>7 DEF UsedBy, given
    <3>9. x \in Int /\ y \in Int
      <4>1. (\A k \in R : plan[k] \in Int) /\ (\A k \in R : c[k] \in Int)
        BY <1>8, <3>3
      <4> QED
        BY <3>3, <3>7, <4>1, SumType
    <3>10. x <= y /\ y <= z
      BY <3>5, <3>6, <3>7
    <3>11. p + x <= quantity
      BY ONLY <3>8, <3>9, <3>10, quantity \in Nat
    <3> QED
      BY <2>2, <3>4, <3>7, <3>11
  <2> QED
    BY <2>3, <2>4
<1> QED
  BY <1>1, <1>5, <1>6, <1>7

\* The tables with the reservations of a plan that fits are sound, and their
\* order has allocated what the plan takes.
LEMMA AllocatesTables ==
  ASSUME NEW s, Sound(s), s.allocations = allocations, NEW o \in Orders,
         s.status[o] = "confirmed", s.demands[o].state = "ACTIVE",
         NEW plan \in [Locations -> Nat],
         \A l \in Locations : plan[l] <= Candidate(s, l),
         Total(plan) <= Remaining(s, o), Allocates(s, o, plan)
  PROVE  \E t : /\ Sound(t) /\ Commit(t)
                /\ t.onHand = s.onHand /\ t.status = s.status /\ t.queue = s.queue
                /\ t.demands = s.demands /\ t.deliveries = s.deliveries
                /\ \A l \in Locations : t.reserved[l] = s.reserved[l] + plan[l]
                /\ \A p \in Orders :
                     Allocated(t, p) = Allocated(s, p) + (IF p = o THEN Total(plan) ELSE 0)
<1>1. PICK rows, m, n : /\ rows = PlanRows(o, plan) /\ m = Len(s.allocations)
                        /\ n = Cardinality(UsedBy(plan))
  OBVIOUS
<1>2. /\ n \in Nat /\ DOMAIN rows = 1..n
      /\ rows = [i \in 1..n |-> NewAllocation(o, AtPlace(plan, i), plan[AtPlace(plan, i)])]
      /\ \A i \in 1..n :
           /\ AtPlace(plan, i) \in Locations /\ plan[AtPlace(plan, i)] \in Nat
           /\ plan[AtPlace(plan, i)] > 0
           /\ rows[i] = NewAllocation(o, AtPlace(plan, i), plan[AtPlace(plan, i)])
  BY <1>1, PlanRowsAre
<1>3. \A i \in 1..n :
        /\ rows[i] \in Allocations
        /\ rows[i].order = o /\ rows[i].location = AtPlace(plan, i)
        /\ rows[i].quantity = plan[AtPlace(plan, i)] /\ rows[i].quantity \in Nat
        /\ rows[i].picked = 0 /\ rows[i].packed = 0 /\ rows[i].consumed = 0
        /\ rows[i].state = "ACTIVE" /\ rows[i].reservation = "ACTIVE"
  BY <1>2 DEF NewAllocation, Allocations
<1>4. rows \in Seq(Allocations) /\ Len(rows) = n
  <2>1. rows = [i \in 1..n |-> rows[i]]
    BY <1>2
  <2>2. \A i \in 1..n : rows[i] \in Allocations
    BY <1>3
  <2> QED
    BY ONLY <1>2, <2>1, <2>2
<1>5. /\ s \in States /\ m \in Nat /\ DOMAIN s.allocations = 1..m
      /\ s.allocations \in Seq(Allocations) /\ IsFiniteSet(1..m)
  BY <1>1, Columns, TableRows DEF Sound
<1>6. PICK R, A : /\ R = [l \in Locations |-> s.reserved[l] + plan[l]]
                  /\ A = s.allocations \o rows
  OBVIOUS
<1>7. PICK t : t = [onHand |-> s.onHand, reserved |-> R, status |-> s.status,
                    queue |-> s.queue, demands |-> s.demands, allocations |-> A,
                    deliveries |-> s.deliveries]
  OBVIOUS
<1>8. Commit(t) /\ m + n <= MaxAllocations
  <2>1. s = [onHand |-> s.onHand, reserved |-> s.reserved, status |-> s.status,
             queue |-> s.queue, demands |-> s.demands,
             allocations |-> s.allocations, deliveries |-> s.deliveries]
    BY <1>5 DEF States
  <2>2. Commit([s EXCEPT !.reserved = [l \in Locations |-> s.reserved[l] + plan[l]],
                         !.allocations = s.allocations \o PlanRows(o, plan)])
    BY Zenon DEF Allocates
  <2>3. Commit([s EXCEPT !.reserved = R, !.allocations = A])
    BY <1>1, <1>6, <2>2
  <2>4. PICK v : v = [s EXCEPT !.reserved = R, !.allocations = A]
    OBVIOUS
  <2>5. v = t
    <3>1. v = [onHand |-> s.onHand, reserved |-> R, status |-> s.status,
               queue |-> s.queue, demands |-> s.demands, allocations |-> A,
               deliveries |-> s.deliveries]
      BY ONLY <2>1, <2>4
    <3> QED
      BY ONLY <1>7, <3>1
  <2>6. Len(allocations) + Len(PlanRows(o, plan)) <= MaxAllocations
    BY DEF Allocates
  <2> QED
    BY <1>1, <1>4, <2>3, <2>4, <2>5, <2>6
<1>9. /\ t.onHand = s.onHand /\ t.reserved = R /\ t.status = s.status /\ t.queue = s.queue
      /\ t.demands = s.demands /\ t.allocations = A /\ t.deliveries = s.deliveries
  BY <1>7
<1>10. /\ A \in Seq(Allocations) /\ Len(A) = m + n /\ DOMAIN A = 1..(m + n)
       /\ \A a \in 1..m : A[a] = s.allocations[a]
       /\ \A i \in 1..n : A[m + i] = rows[i]
  BY ONLY <1>1, <1>2, <1>4, <1>5, <1>6
<1>11. \A a \in 1..(m + n) : a \in 1..m \/ (a - m \in 1..n /\ a = m + (a - m))
  BY <1>2, <1>5
<1>12. \A a \in 1..m : a \in 1..(m + n)
  BY <1>2, <1>5
<1>13. \A l \in Locations : /\ R[l] = s.reserved[l] + plan[l] /\ R[l] \in Nat
                            /\ R[l] <= s.onHand[l]
  <2> SUFFICES ASSUME NEW l \in Locations
               PROVE  /\ R[l] = s.reserved[l] + plan[l] /\ R[l] \in Nat
                      /\ R[l] <= s.onHand[l]
    OBVIOUS
  <2>1. PICK x, y, z : x = s.onHand[l] /\ y = s.reserved[l] /\ z = plan[l]
    OBVIOUS
  <2>2. x \in Nat /\ y \in Nat /\ z \in Nat /\ z <= x - y
    BY <1>5, <2>1, Columns, CandidateIs
  <2>3. y + z \in Nat /\ y + z <= x
    BY ONLY <2>2
  <2>4. R[l] = y + z
    BY <1>6, <2>1
  <2> QED
    BY <2>1, <2>3, <2>4
<1>14. t \in States
  <2>1. R \in [Locations -> Nat]
    BY <1>6, <1>13
  <2> QED
    BY <1>5, <1>7, <1>10, <2>1, Columns DEF States
<1>15. Covered(t) /\ Len(t.allocations) <= MaxAllocations
  BY <1>8, <1>9, <1>10, <1>13 DEF Covered
<1>16. Booked(t)
  <2> SUFFICES ASSUME NEW l \in Locations
               PROVE  R[l] = SumFunctionOnSet(Outstanding(t, l), 1..(m + n))
    BY <1>9, <1>10 DEF Booked
  <2> DEFINE g == [i \in 1..n |-> IF AtPlace(plan, i) = l THEN plan[AtPlace(plan, i)] ELSE 0]
  <2>1. PICK F, G, H : F = Outstanding(s, l) /\ G = g /\ H = Outstanding(t, l)
    OBVIOUS
  <2>2. \A a \in 1..m : F[a] \in Int /\ H[a] = F[a]
    <3>1. \A a \in 1..m : F[a] \in Nat
      BY <1>5, <2>1, OutstandingType
    <3>2. \A a \in 1..m : H[a] = F[a]
      BY <1>5, <1>9, <1>10, <1>12, <2>1 DEF Outstanding
    <3> QED
      BY <3>1, <3>2
  <2>3. \A i \in 1..n : G[i] \in Int /\ H[m + i] = G[i]
    <3> SUFFICES ASSUME NEW i \in 1..n PROVE G[i] \in Int /\ H[m + i] = G[i]
      OBVIOUS
    <3>1. m + i \in 1..(m + n) /\ A[m + i] = rows[i]
      BY <1>2, <1>5, <1>10
    <3>2. H[m + i] = IF rows[i].location = l /\ rows[i].state # "RELEASED"
                       THEN rows[i].quantity - rows[i].consumed ELSE 0
      BY <1>9, <1>10, <2>1, <3>1 DEF Outstanding
    <3>3. PICK q : q = plan[AtPlace(plan, i)]
      OBVIOUS
    <3>4. q \in Nat /\ q - 0 = q
      BY <1>2, <3>3
    <3>5. H[m + i] = IF AtPlace(plan, i) = l THEN q ELSE 0
      BY <1>3, <3>2, <3>3, <3>4
    <3> QED
      BY <2>1, <3>3, <3>4, <3>5
  <2>4. SumFunctionOnSet(G, 1..n) = plan[l]
    BY <1>1, <2>1, PlanSums
  <2>5. SumFunctionOnSet(F, 1..m) = s.reserved[l]
    BY <1>5, <2>1 DEF Sound, Booked
  <2> HIDE DEF g
  <2>6. SumFunctionOnSet(H, 1..(m + n)) = SumFunctionOnSet(F, 1..m) + SumFunctionOnSet(G, 1..n)
    <3>1. m \in Nat /\ n \in Nat
      BY <1>2, <1>5
    <3>2. PICK k : k = m + n
      OBVIOUS
    <3>3. SumFunctionOnSet(H, 1..k) = SumFunctionOnSet(F, 1..m) + SumFunctionOnSet(G, 1..n)
      <4>1. (\A i \in 1..m : F[i] \in Int) /\ (\A i \in 1..m : H[i] = F[i])
        BY <2>2
      <4>2. (\A i \in 1..n : G[i] \in Int) /\ (\A i \in 1..n : H[m + i] = G[i])
        BY <2>3
      <4> QED
        BY ONLY <3>1, <3>2, <4>1, <4>2, SumConcat
    <3> QED
      BY <3>2, <3>3
  <2> QED
    BY <1>13, <2>1, <2>4, <2>5, <2>6
<1>17. RowsHold(t)
  <2> SUFFICES ASSUME NEW a \in 1..(m + n), NEW r, r = A[a]
               PROVE  /\ r.packed <= r.picked /\ r.picked <= r.quantity
                      /\ r.reservation = "RELEASED" <=> r.state = "RELEASED"
                      /\ r.state = "RELEASED" => r.packed = 0
                      /\ r.reservation = "CONSUMED" => r.consumed = r.quantity
                      /\ r.state # "RELEASED" => s.status[r.order] = "confirmed"
    BY <1>9, <1>10 DEF RowsHold
  <2>1. CASE a \in 1..m
    <3>1. r = s.allocations[a] /\ a \in DOMAIN s.allocations /\ RowsHold(s)
      BY <1>5, <1>10, <2>1 DEF Sound
    <3> QED
      BY ONLY <3>1 DEF RowsHold
  <2>2. CASE a \notin 1..m
    <3>1. r = rows[a - m] /\ a - m \in 1..n
      BY <1>10, <1>11, <2>2
    <3>2. /\ r.packed = 0 /\ r.picked = 0 /\ r.quantity \in Nat /\ r.reservation = "ACTIVE"
          /\ r.state = "ACTIVE" /\ r.order = o
      BY <1>3, <3>1
    <3> QED
      BY <3>2
  <2> QED
    BY <2>1, <2>2
<1>18. \A a, st : OnDeliveries(t, a, st) = OnDeliveries(s, a, st)
  BY <1>9 DEF OnDeliveries
<1>19. ShipmentsHold(t)
  <2> SUFFICES ASSUME NEW a \in 1..(m + n)
               PROVE  /\ OnDeliveries(s, a, Claiming) <= A[a].packed
                      /\ A[a].consumed = OnDeliveries(s, a, Shipped)
    BY <1>9, <1>10, <1>18 DEF ShipmentsHold, Claimed
  <2>1. CASE a \in 1..m
    BY <1>5, <1>10, <2>1 DEF Sound, ShipmentsHold, Claimed
  <2>2. CASE a \notin 1..m
    <3>1. A[a].packed = 0 /\ A[a].consumed = 0
      BY <1>3, <1>10, <1>11, <2>2
    <3>2. a \in 1..MaxAllocations /\ IsFiniteSet(DOMAIN s.deliveries)
      BY <1>2, <1>5, <1>8, TableRows, FulfillmentAssumption
    <3>3. \A d \in DOMAIN s.deliveries : s.deliveries[d].lines[a] = 0
      <4> SUFFICES ASSUME NEW d \in DOMAIN s.deliveries PROVE s.deliveries[d].lines[a] = 0
        OBVIOUS
      <4>1. s.deliveries[d].lines[a] \in Nat
        BY <3>2, LineType
      <4>2. ~(s.deliveries[d].lines[a] > 0)
        BY <1>5, <2>2, <3>2 DEF Sound, LinesHold
      <4> QED
        BY <4>1, <4>2
    <3>4. ASSUME NEW st PROVE OnDeliveries(s, a, st) = 0
      <4>1. PICK F, D : /\ D = DOMAIN s.deliveries
                        /\ F = [d \in DOMAIN s.deliveries |->
                                  IF s.deliveries[d].status \in st
                                    THEN s.deliveries[d].lines[a] ELSE 0]
        OBVIOUS
      <4>2. IsFiniteSet(D) /\ {} \subseteq D /\ \A d \in D : F[d] \in Int /\ F[d] = 0
        BY <3>2, <3>3, <4>1
      <4>3. SumFunctionOnSet(F, D) = SumFunctionOnSet(F, {})
        BY ONLY <4>2, SumSupport
      <4> QED
        BY <4>1, <4>3, SumEmpty DEF OnDeliveries
    <3>5. OnDeliveries(s, a, Claiming) = 0 /\ OnDeliveries(s, a, Shipped) = 0
      BY <3>4
    <3> QED
      BY <3>1, <3>5
  <2> QED
    BY <2>1, <2>2
<1>20. LinesHold(t)
  <2> SUFFICES ASSUME NEW d \in DOMAIN s.deliveries, NEW a \in 1..MaxAllocations,
                      s.deliveries[d].lines[a] > 0
               PROVE  a \in 1..(m + n) /\ A[a].order = s.deliveries[d].order
    BY <1>9, <1>10 DEF LinesHold
  <2>1. a \in 1..m /\ s.allocations[a].order = s.deliveries[d].order
    BY <1>5 DEF Sound, LinesHold
  <2> QED
    BY <1>10, <1>12, <2>1
<1>21. ASSUME NEW p \in Orders
       PROVE  Allocated(t, p) = Allocated(s, p) + (IF p = o THEN Total(plan) ELSE 0)
  <2> DEFINE f == [a \in 1..m |-> IF a \in Rows(s, p) THEN s.allocations[a].quantity ELSE 0]
             g == [i \in 1..n |-> IF p = o THEN plan[AtPlace(plan, i)] ELSE 0]
             h == [a \in 1..(m + n) |-> IF a \in Rows(t, p) THEN A[a].quantity ELSE 0]
  <2>1. PICK F, G, H, I, J, K :
          F = f /\ G = g /\ H = h /\ I = 1..m /\ J = 1..n /\ K = 1..(m + n)
    OBVIOUS
  <2>2. /\ Rows(s, p) \subseteq I /\ \A a \in Rows(s, p) : s.allocations[a].quantity \in Nat
        /\ Rows(t, p) \subseteq K /\ \A a \in Rows(t, p) : A[a].quantity \in Nat
        /\ IsFiniteSet(I) /\ IsFiniteSet(J) /\ IsFiniteSet(K)
    <3>1. IsFiniteSet(1..m) /\ IsFiniteSet(1..n) /\ IsFiniteSet(1..(m + n))
      <4>1. m \in Int /\ n \in Int /\ m + n \in Int /\ 1 \in Int
        BY <1>2, <1>5
      <4> QED
        BY <4>1, FS_Interval
    <3> QED
      BY <1>5, <1>9, <1>10, <1>14, <2>1, <3>1, AllocatedType
  <2>3. Allocated(s, p) = SumFunctionOnSet(F, I) /\ SumFunctionOnSet(F, I) \in Nat
    <3>1. PICK Q, q : Q = Rows(s, p) /\ q = [a \in Rows(s, p) |-> s.allocations[a].quantity]
      OBVIOUS
    <3>2. /\ IsFiniteSet(Q) /\ Q \subseteq I /\ \A a \in Q : q[a] = F[a]
          /\ \A a \in I : F[a] \in Nat /\ F[a] \in Int
          /\ \A a \in I \ Q : F[a] = 0
      <4>1. Q \subseteq I /\ IsFiniteSet(Q)
        BY <2>2, <3>1, FS_Subset
      <4>2. \A a \in I : F[a] = IF a \in Q THEN s.allocations[a].quantity ELSE 0
        BY <2>1, <3>1
      <4>3. \A a \in Q : s.allocations[a].quantity \in Nat /\ q[a] = s.allocations[a].quantity
        BY <2>2, <3>1
      <4> HIDE DEF f
      <4> QED
        BY ONLY <4>1, <4>2, <4>3
    <3>3. SumFunctionOnSet(q, Q) = SumFunctionOnSet(F, Q)
      BY ONLY <3>2, SumCongruence
    <3>4. SumFunctionOnSet(F, I) = SumFunctionOnSet(F, Q)
      BY ONLY <2>2, <3>2, SumSupport
    <3>5. SumFunctionOnSet(F, I) \in Nat
      BY ONLY <2>2, <3>2, SumNat
    <3> QED
      BY <3>1, <3>3, <3>4, <3>5 DEF Allocated
  <2>4. Allocated(t, p) = SumFunctionOnSet(H, K)
    <3>1. PICK Q, q : Q = Rows(t, p) /\ q = [a \in Rows(t, p) |-> A[a].quantity]
      OBVIOUS
    <3>2. /\ IsFiniteSet(Q) /\ Q \subseteq K /\ \A a \in Q : q[a] = H[a]
          /\ \A a \in K : H[a] \in Int
          /\ \A a \in K \ Q : H[a] = 0
      <4>1. Q \subseteq K /\ IsFiniteSet(Q)
        BY <2>2, <3>1, FS_Subset
      <4>2. \A a \in K : H[a] = IF a \in Q THEN A[a].quantity ELSE 0
        BY <2>1, <3>1
      <4>3. \A a \in Q : A[a].quantity \in Nat /\ q[a] = A[a].quantity
        BY <2>2, <3>1
      <4> HIDE DEF h
      <4> QED
        BY ONLY <4>1, <4>2, <4>3
    <3>3. SumFunctionOnSet(q, Q) = SumFunctionOnSet(H, Q)
      BY ONLY <3>2, SumCongruence
    <3>4. SumFunctionOnSet(H, K) = SumFunctionOnSet(H, Q)
      BY ONLY <2>2, <3>2, SumSupport
    <3> QED
      BY <1>9, <3>1, <3>3, <3>4 DEF Allocated
  <2>5. \A a \in 1..m : F[a] \in Int /\ H[a] = F[a]
    <3> SUFFICES ASSUME NEW a \in 1..m PROVE F[a] \in Int /\ H[a] = F[a]
      OBVIOUS
    <3>1. a \in 1..(m + n) /\ A[a] = s.allocations[a]
      BY <1>10, <1>12
    <3>2. a \in Rows(t, p) <=> a \in Rows(s, p)
      BY <1>5, <1>9, <1>10, <3>1 DEF Rows
    <3>3. s.allocations[a].quantity \in Nat
      BY <1>5, TableRows, RowColumns
    <3> QED
      BY <2>1, <3>1, <3>2, <3>3
  <2>6. \A i \in 1..n : G[i] \in Int /\ H[m + i] = G[i]
    <3> SUFFICES ASSUME NEW i \in 1..n PROVE G[i] \in Int /\ H[m + i] = G[i]
      OBVIOUS
    <3>1. m + i \in 1..(m + n) /\ A[m + i] = rows[i]
      BY <1>2, <1>5, <1>10
    <3>2. m + i \in Rows(t, p) <=> p = o
      BY <1>3, <1>9, <1>10, <3>1 DEF Rows
    <3>3. A[m + i].quantity = plan[AtPlace(plan, i)] /\ plan[AtPlace(plan, i)] \in Nat
      BY <1>2, <1>3, <3>1
    <3> QED
      BY <2>1, <3>1, <3>2, <3>3
  <2>7. SumFunctionOnSet(G, 1..n) = IF p = o THEN Total(plan) ELSE 0
    <3>1. CASE p = o
      <4>1. G = [i \in 1..n |-> plan[AtPlace(plan, i)]]
        BY <2>1, <3>1
      <4> QED
        BY <1>1, <3>1, <4>1, PlanSums
    <3>2. CASE p # o
      <4>1. {} \subseteq J /\ \A i \in J : G[i] \in Int /\ G[i] = 0
        BY <2>1, <3>2
      <4>2. SumFunctionOnSet(G, J) = SumFunctionOnSet(G, {})
        BY ONLY <2>2, <4>1, SumSupport
      <4> QED
        BY <2>1, <3>2, <4>2, SumEmpty
    <3> QED
      BY <3>1, <3>2
  <2> HIDE DEF f, g, h
  <2>8. SumFunctionOnSet(H, 1..(m + n)) = SumFunctionOnSet(F, 1..m) + SumFunctionOnSet(G, 1..n)
    <3>1. m \in Nat /\ n \in Nat
      BY <1>2, <1>5
    <3>2. PICK k : k = m + n
      OBVIOUS
    <3>3. SumFunctionOnSet(H, 1..k) = SumFunctionOnSet(F, 1..m) + SumFunctionOnSet(G, 1..n)
      <4>1. (\A i \in 1..m : F[i] \in Int) /\ (\A i \in 1..m : H[i] = F[i])
        BY <2>5
      <4>2. (\A i \in 1..n : G[i] \in Int) /\ (\A i \in 1..n : H[m + i] = G[i])
        BY <2>6
      <4> QED
        BY ONLY <3>1, <3>2, <4>1, <4>2, SumConcat
    <3> QED
      BY <3>2, <3>3
  <2> QED
    BY <2>1, <2>3, <2>4, <2>7, <2>8
<1>22. DemandsHold(t)
  <2> SUFFICES ASSUME NEW p \in Orders, s.demands[p].state = "ACTIVE"
               PROVE  /\ s.demands[p].reserved + s.demands[p].backordered = s.demands[p].target
                      /\ s.demands[p].target <= s.demands[p].ordered
                      /\ Allocated(t, p) <= s.demands[p].reserved
    BY <1>9 DEF DemandsHold
  <2>1. /\ s.demands[p].reserved + s.demands[p].backordered = s.demands[p].target
        /\ s.demands[p].target <= s.demands[p].ordered
        /\ Allocated(s, p) <= s.demands[p].reserved
    BY DEF Sound, DemandsHold
  <2>2. PICK x, y, z : x = Allocated(s, p) /\ y = s.demands[p].reserved /\ z = Total(plan)
    OBVIOUS
  <2>3. x \in Nat /\ y \in Nat /\ z \in Int /\ x <= y /\ (p = o => z <= y - x)
    <3>1. z \in Int
      <4>1. \A l \in Locations : plan[l] \in Int
        OBVIOUS
      <4> QED
        BY <2>2, <4>1, LocationsAssumption, SumType DEF Total
    <3>2. x \in Nat /\ y \in Nat
      BY <1>5, <2>2, AllocatedType, TableRows, RowColumns
    <3> QED
      BY <2>1, <2>2, <3>1, <3>2 DEF Remaining
  <2>4. CASE p = o
    <3>1. x + z <= y
      BY ONLY <2>3, <2>4
    <3> QED
      BY <1>21, <2>1, <2>2, <2>4, <3>1
  <2>5. CASE p # o
    <3>1. x + 0 <= y
      BY ONLY <2>3
    <3> QED
      BY <1>21, <2>1, <2>2, <2>5, <3>1
  <2> QED
    BY <2>4, <2>5
<1>23. Sound(t)
  BY <1>14, <1>15, <1>16, <1>17, <1>19, <1>20, <1>22 DEF Sound
<1>24. \A l \in Locations : t.reserved[l] = s.reserved[l] + plan[l]
  BY <1>9, <1>13
<1> QED
  BY <1>8, <1>9, <1>21, <1>23, <1>24

\* Committing the reservations of a plan that fits keeps the tables sound.
LEMMA AllocatesSound ==
  ASSUME NEW s, Sound(s), s.allocations = allocations, NEW o \in Orders,
         s.status[o] = "confirmed", s.demands[o].state = "ACTIVE",
         NEW plan \in [Locations -> Nat],
         \A l \in Locations : plan[l] <= Candidate(s, l),
         Total(plan) <= Remaining(s, o), Allocates(s, o, plan)
  PROVE  SInv'
<1>1. PICK t : Sound(t) /\ Commit(t)
  BY AllocatesTables
<1> QED
  BY <1>1, Committed

\* What an order may still allocate of its hold is a quantity.
LEMMA RemainingType ==
  ASSUME NEW s, Sound(s), NEW o \in Orders, s.demands[o].state = "ACTIVE"
  PROVE  Remaining(s, o) \in Nat
<1>1. PICK x, y : x = s.demands[o].reserved /\ y = Allocated(s, o)
  OBVIOUS
<1>2. x \in Nat /\ y \in Nat /\ y <= x
  <2>1. s \in States /\ y <= x
    BY <1>1 DEF Sound, DemandsHold
  <2> QED
    BY <1>1, <2>1, AllocatedType, TableRows, RowColumns
<1>3. x - y \in Nat
  BY ONLY <1>2
<1> QED
  BY <1>1, <1>3 DEF Remaining

\* Allocating anew keeps the tables sound.
LEMMA AllocateUpToSound ==
  ASSUME SInv, NEW o \in Orders, NEW target \in Nat, Allocated(State, o) <= target,
         AllocateUpTo(o, target)
  PROVE  SInv'
<1>1. PICK s, u : s = State /\ u = Reconciled(s, o, target)
  OBVIOUS
<1>2. /\ Sound(s) /\ s \in States /\ s.allocations = allocations
      /\ s.status[o] = "confirmed" /\ s.demands[o].state = "ACTIVE"
      /\ target <= s.demands[o].ordered /\ Allocated(s, o) <= target
  BY <1>1, Tables DEF SInv, Sound, AllocateUpTo, Allocatable
<1>3. Remaining(u, o) > 0 /\ Allocates(u, o, AutoPlan(u, Remaining(u, o)))
  BY <1>1 DEF AllocateUpTo
<1>4. Sound(u) /\ SameButDemands(s, u)
  BY <1>1, <1>2, ReconciledSound
<1>5. u.demands[o].state = "ACTIVE"
  <2>1. u.demands[o] = [state |-> s.demands[o].state, ordered |-> s.demands[o].ordered,
                        target |-> target,
                        reserved |-> Clamp(Allocated(s, o) + Free(s, o), Allocated(s, o), target),
                        backordered |-> target - Clamp(Allocated(s, o) + Free(s, o),
                                                       Allocated(s, o), target)]
    BY <1>1, <1>2, ReconciledRow
  <2> QED
    BY <1>2, <2>1
<1>6. u.status[o] = "confirmed" /\ u.allocations = allocations
  BY <1>2, <1>4 DEF SameButDemands
<1>7. PICK quantity, plan : quantity = Remaining(u, o) /\ plan = AutoPlan(u, quantity)
  OBVIOUS
<1>8. quantity \in Nat
  BY <1>4, <1>5, <1>7, RemainingType
<1>9. /\ plan \in [Locations -> Nat]
      /\ \A l \in Locations : plan[l] <= Candidate(u, l)
      /\ Total(plan) <= quantity
  BY <1>4, <1>7, <1>8, AutoPlanFits
<1>10. Allocates(u, o, plan) /\ Total(plan) <= Remaining(u, o)
  BY <1>3, <1>7, <1>9
<1> QED
  BY ONLY <1>4, <1>5, <1>6, <1>9, <1>10, o \in Orders, AllocatesSound

\* Allocating exact scopes keeps the tables sound.
LEMMA AllocateManualSound ==
  ASSUME SInv, NEW o \in Orders, AllocateManual(o)
  PROVE  SInv'
<1>1. PICK s : s = State
  OBVIOUS
<1>2. /\ Sound(s) /\ s.allocations = allocations
      /\ s.status[o] = "confirmed" /\ s.demands[o].state = "ACTIVE"
  BY <1>1, Tables DEF SInv, AllocateManual, Allocatable
<1>3. PICK plan \in ManualPlans(s, Remaining(s, o)) : Allocates(s, o, plan)
  BY <1>1 DEF AllocateManual
<1>4. /\ plan \in [Locations -> Quantities \union {0}]
      /\ \A l \in Locations : plan[l] <= Candidate(s, l)
      /\ Total(plan) <= Remaining(s, o)
  BY DEF ManualPlans
<1>5. plan \in [Locations -> Nat]
  <2>1. Quantities \union {0} \subseteq Nat
    BY FulfillmentAssumption
  <2> QED
    BY <1>4, <2>1
<1> QED
  BY ONLY <1>2, <1>3, <1>4, <1>5, o \in Orders, AllocatesSound

\* What happens to a sales order.
LEMMA OrderStepSound ==
  ASSUME SInv, NEW o \in Orders, OrderStep(o)
  PROVE  SInv'
<1>1. ASSUME NEW q \in Quantities, Confirm(o, q) PROVE SInv'
  BY <1>1, ConfirmSound
<1>2. ASSUME NEW q \in Quantities, Amend(o, q) PROVE SInv'
  BY <1>2, AmendSound
<1>3. PICK s : s = State
  OBVIOUS
<1>4. s \in States /\ Sound(s)
  BY <1>3 DEF SInv, Sound
<1>5. Allocated(State, o) \in Nat /\ demands[o].ordered \in Nat
  BY <1>3, <1>4, Tables, AllocatedType, TableRows, RowColumns
<1>6. ASSUME NEW q \in Quantities, AllocateQuantity(o, q) PROVE SInv'
  <2>1. q \in Nat
    BY FulfillmentAssumption
  <2>2. PICK target : target = Allocated(State, o) + q
    OBVIOUS
  <2>3. target \in Nat /\ Allocated(State, o) <= target
    BY <1>5, <2>1, <2>2
  <2>4. AllocateUpTo(o, target)
    BY <1>6, <2>2 DEF AllocateQuantity
  <2> QED
    BY <2>3, <2>4, AllocateUpToSound
<1>7. CASE AllocateAuto(o)
  <2>1. PICK target : target = demands[o].ordered
    OBVIOUS
  <2>2. AllocateUpTo(o, target)
    BY <1>7, <2>1 DEF AllocateAuto
  <2>3. target \in Nat /\ Allocated(State, o) <= target
    BY <1>5, <2>1, <2>2 DEF AllocateUpTo, Allocatable
  <2> QED
    BY <2>2, <2>3, AllocateUpToSound
<1>8. CASE CancelDraft(o)
  BY <1>8, CancelDraftSound
<1>9. CASE CancelConfirmed(o)
  BY <1>9, CancelConfirmedSound
<1>10. CASE AllocateManual(o)
  BY <1>10, AllocateManualSound
<1>11. CASE CreateDelivery(o)
  BY <1>11, CreateDeliverySound
<1> QED
  BY <1>1, <1>2, <1>6, <1>7, <1>8, <1>9, <1>10, <1>11 DEF OrderStep

-----------------------------------------------------------------------------
(* The invariant.                                                          *)

\* The empty tables are sound.
LEMMA InitSound == Init => SInv
<1> SUFFICES ASSUME Init PROVE SInv
  OBVIOUS
<1>1. PICK s : s = State
  OBVIOUS
<1>2. /\ s.onHand = [l \in Locations |-> 0] /\ s.reserved = [l \in Locations |-> 0]
      /\ s.status = [o \in Orders |-> "draft"] /\ s.queue = <<>>
      /\ s.demands = [o \in Orders |-> NoDemand]
      /\ s.allocations = <<>> /\ s.deliveries = <<>>
  BY <1>1, Tables DEF Init
<1>3. s = [onHand |-> s.onHand, reserved |-> s.reserved, status |-> s.status,
           queue |-> s.queue, demands |-> s.demands,
           allocations |-> s.allocations, deliveries |-> s.deliveries]
  BY <1>1 DEF State
<1>4. DOMAIN s.allocations = {} /\ DOMAIN s.deliveries = {} /\ Len(s.allocations) = 0
  BY <1>2
<1>5. s \in States
  <2>1. NoDemand \in Demands
    BY DEF NoDemand, Demands
  <2>2. s.demands \in [Orders -> Demands]
    BY <1>2, <2>1
  <2>3. s.allocations \in Seq(Allocations) /\ s.deliveries \in Seq(Deliveries)
        /\ s.queue \in Seq(Orders)
    BY <1>2
  <2>4. /\ s.onHand \in [Locations -> Nat] /\ s.reserved \in [Locations -> Nat]
        /\ s.status \in [Orders -> {"draft", "confirmed", "cancelled"}]
    BY <1>2
  <2> QED
    BY <1>3, <2>2, <2>3, <2>4 DEF States
<1>6. Covered(s) /\ Len(s.allocations) <= MaxAllocations
  BY <1>2, <1>4, FulfillmentAssumption DEF Covered
<1>7. Booked(s)
  BY <1>2, <1>4, SumEmpty DEF Booked
<1>8. RowsHold(s) /\ ShipmentsHold(s) /\ LinesHold(s)
  BY <1>4 DEF RowsHold, ShipmentsHold, LinesHold
<1>9. DemandsHold(s)
  BY <1>2 DEF DemandsHold, NoDemand
<1> QED
  BY <1>1, <1>5, <1>6, <1>7, <1>8, <1>9 DEF SInv, Sound

\* Every step keeps the tables sound.
LEMMA NextSound == SInv /\ [Next]_vars => SInv'
<1> SUFFICES ASSUME SInv, [Next]_vars PROVE SInv'
  OBVIOUS
<1>1. ASSUME NEW o \in Orders, OrderStep(o) PROVE SInv'
  BY <1>1, OrderStepSound
<1>2. ASSUME NEW delta \in Postings, PostStock(delta) PROVE SInv'
  BY <1>2, PostStockSound
<1>3. ASSUME NEW a \in DOMAIN allocations, NEW q \in Quantities, AllocationStep(a, q)
      PROVE  SInv'
  BY <1>3, AllocationStepSound
<1>4. ASSUME NEW d \in DOMAIN deliveries, DeliveryStep(d) PROVE SInv'
  BY <1>4, DeliveryStepSound
<1>5. CASE UNCHANGED vars
  <2>1. State' = State
    BY <1>5 DEF vars, State
  <2> QED
    BY <2>1 DEF SInv
<1> QED
  BY <1>1, <1>2, <1>3, <1>4, <1>5 DEF Next

\* The inductive invariant holds of the tables between transactions.
THEOREM Invariant == Spec => []SInv
<1> QED
  BY InitSound, NextSound, PTL DEF Spec

\* The tables hold whole rows, and no column of them is ever negative: what is
\* issued, restored, released and posted never takes a quantity below zero.
THEOREM TypeCorrect == Spec => []TypeOK
<1>1. SInv => TypeOK
  <2> SUFFICES ASSUME SInv PROVE TypeOK
    OBVIOUS
  <2>1. PICK s : s = State
    OBVIOUS
  <2>2. s \in States
    BY <2>1 DEF SInv, Sound
  <2> QED
    BY <2>1, <2>2, Columns, Tables DEF TypeOK
<1> QED
  BY Invariant, <1>1, PTL

\* No exact scope has more reserved than it has on hand, whatever is allocated,
\* issued, reversed, unwound or posted in between: the guard of allocation
\* tests the scope, the guard of an OUT line tests the reserved column.
THEOREM ReservedStaysOnHand == Spec => []ReservedIsOnHand
<1>1. SInv => ReservedIsOnHand
  BY Tables DEF SInv, Sound, Covered, ReservedIsOnHand
<1> QED
  BY Invariant, <1>1, PTL

\* The reserved column of a scope is what its reservations have not consumed:
\* issue, restore and release never count a quantity twice or lose it.
THEOREM BalanceFollowsReservations == Spec => []BalanceMatchesReservations
<1>1. ASSUME SInv, NEW l \in Locations
      PROVE  LET here == {a \in DOMAIN allocations :
                            allocations[a].location = l /\ allocations[a].reservation = "ACTIVE"}
             IN reserved[l] = SumFunctionOnSet(
                     [a \in here |-> allocations[a].quantity - allocations[a].consumed], here)
  <2> DEFINE here == {a \in DOMAIN allocations :
                        allocations[a].location = l /\ allocations[a].reservation = "ACTIVE"}
  <2>1. PICK s, A, H : s = State /\ A = DOMAIN allocations /\ H = here
    OBVIOUS
  <2>2. PICK f, g : /\ f = Outstanding(s, l)
                    /\ g = [a \in here |-> allocations[a].quantity - allocations[a].consumed]
    OBVIOUS
  <2>3. Sound(s) /\ s.allocations = allocations /\ s.reserved = reserved
    BY <1>1, <2>1, Tables DEF SInv
  <2>4. IsFiniteSet(A) /\ H \subseteq A
    BY <2>1, <2>3, TableRows DEF Sound
  <2>5. \A a \in A : f[a] \in Nat
    BY <2>1, <2>2, <2>3, OutstandingType
  <2>6. \A a \in A \ H : f[a] = 0
    <3> SUFFICES ASSUME NEW a \in A \ H PROVE f[a] = 0
      OBVIOUS
    <3>1. f[a] = IF allocations[a].location = l /\ allocations[a].state # "RELEASED"
                   THEN allocations[a].quantity - allocations[a].consumed ELSE 0
      BY <2>1, <2>2, <2>3 DEF Outstanding
    <3>2. CASE allocations[a].location # l \/ allocations[a].state = "RELEASED"
      BY <3>1, <3>2
    <3>3. CASE allocations[a].location = l /\ allocations[a].state # "RELEASED"
      <4>1. allocations[a] \in Allocations /\ a \in DOMAIN s.allocations
        BY <2>1, <2>3, RowColumnsFit
      <4>2. allocations[a].reservation = "CONSUMED"
        <5>1. allocations[a].reservation # "ACTIVE"
          BY <2>1, <3>3
        <5>2. allocations[a].reservation # "RELEASED"
          BY <2>1, <2>3, <3>3, <4>1 DEF Sound, RowsHold
        <5> QED
          BY <4>1, <5>1, <5>2, RowColumns
      <4>3. allocations[a].consumed = allocations[a].quantity
        BY <2>1, <2>3, <4>1, <4>2 DEF Sound, RowsHold
      <4>4. allocations[a].quantity \in Nat
        BY <4>1, RowColumns
      <4> QED
        BY <3>1, <3>3, <4>3, <4>4
    <3> QED
      BY <3>2, <3>3
  <2>7. \A a \in H : f[a] = g[a]
    <3> SUFFICES ASSUME NEW a \in H PROVE f[a] = g[a]
      OBVIOUS
    <3>1. /\ a \in DOMAIN s.allocations /\ allocations[a].location = l
          /\ allocations[a].reservation = "ACTIVE"
          /\ g[a] = allocations[a].quantity - allocations[a].consumed
      BY <2>1, <2>2, <2>3
    <3>2. allocations[a].state # "RELEASED"
      BY <2>3, <3>1 DEF Sound, RowsHold
    <3> QED
      BY <2>2, <2>3, <3>1, <3>2 DEF Outstanding
  <2>8. reserved[l] = SumFunctionOnSet(f, A)
    BY <1>1, <2>1, <2>2, <2>3 DEF Sound, Booked
  <2>9. IsFiniteSet(H) /\ \A a \in A : f[a] \in Int
    BY <2>4, <2>5, FS_Subset
  <2> HIDE DEF here
  <2>10. SumFunctionOnSet(f, A) = SumFunctionOnSet(f, H)
    BY ONLY <2>4, <2>6, <2>9, SumSupport
  <2>11. SumFunctionOnSet(f, H) = SumFunctionOnSet(g, H)
    BY ONLY <2>7, <2>9, SumCongruence
  <2>12. reserved[l] = SumFunctionOnSet(g, H)
    BY <2>8, <2>10, <2>11
  <2> QED
    BY <2>1, <2>2, <2>12 DEF here
<1>2. SInv => BalanceMatchesReservations
  BY <1>1 DEF BalanceMatchesReservations
<1> QED
  BY Invariant, <1>2, PTL

\* A demand splits what it asks for into a hold and a backorder, and never
\* allocates more than it holds, through reconciling, amending and releasing.
THEOREM DemandsAlwaysAddUp == Spec => []DemandsAddUp
<1>1. SInv => DemandsAddUp
  <2> SUFFICES ASSUME SInv PROVE DemandsAddUp
    OBVIOUS
  <2>1. DemandsHold(State)
    BY DEF SInv, Sound
  <2> QED
    BY <2>1, Tables DEF DemandsHold, DemandsAddUp
<1> QED
  BY Invariant, <1>1, PTL

\* What delivery orders claim has been packed, and what was packed was picked,
\* although progress and claims go back in any order.
THEOREM ClaimsStayPacked == Spec => []ClaimsArePacked
<1>1. SInv => ClaimsArePacked
  <2> SUFFICES ASSUME SInv PROVE ClaimsArePacked
    OBVIOUS
  <2>1. RowsHold(State) /\ ShipmentsHold(State)
    BY DEF SInv, Sound
  <2> QED
    BY <2>1, Tables DEF RowsHold, ShipmentsHold, ClaimsArePacked
<1> QED
  BY Invariant, <1>1, PTL

\* A reservation has been consumed by exactly what left the warehouse for it,
\* through issues, reversals and unwindings in any order.
THEOREM ConsumedStaysShipped == Spec => []ConsumedIsShipped
<1>1. SInv => ConsumedIsShipped
  <2> SUFFICES ASSUME SInv PROVE ConsumedIsShipped
    OBVIOUS
  <2>1. ShipmentsHold(State)
    BY DEF SInv, Sound
  <2> QED
    BY <2>1, Tables DEF ShipmentsHold, ConsumedIsShipped
<1> QED
  BY Invariant, <1>1, PTL

-----------------------------------------------------------------------------
(* What a transaction does to the promises of the warehouse.               *)

\* Each order is in the queue once.
InQueueOnce(s) ==
  \A i, j \in 1..Len(s.queue) : i # j => s.queue[i] # s.queue[j]

\* No more is promised in t than there is, or than was promised in s.
NoMorePromised(s, t) ==
  \/ Uncommitted(t, Orders) >= 0
  \/ Uncommitted(t, Orders) >= Uncommitted(s, Orders)

\* One order of the queue is offered what nobody has a claim on.
LEMMA ReplenishingOne ==
  ASSUME NEW s, NEW t, Sound(t), SameButDemands(s, t), DemandsGrow(s, t), NEW o \in Orders,
         NEW u, u = IF Pending(s, o) /\ Uncommitted(t, Orders) > 0
                      THEN Reconciled(t, o, t.demands[o].target) ELSE t
  PROVE  /\ u \in States /\ \A p \in Orders \ {o} : u.demands[p] = t.demands[p]
         /\ Uncommitted(u, Orders) <= Uncommitted(t, Orders)
         /\ Uncommitted(u, Orders) >= 0 \/ Uncommitted(u, Orders) = Uncommitted(t, Orders)
         /\ Pending(s, o) /\ Uncommitted(u, Orders) > 0 => u.demands[o].backordered = 0
         /\ (Pending(s, o) /\ Uncommitted(t, Orders) > 0) \/ u = t
<1>0. t \in States
  BY DEF Sound
<1>1. Uncommitted(t, Orders) \in Int
  BY <1>0, UncommittedType
<1>2. CASE Pending(s, o) /\ Uncommitted(t, Orders) > 0
  <2>1. t.demands[o].state = "ACTIVE"
    BY <1>2 DEF Pending, DemandsGrow
  <2>2. u = Reconciled(t, o, t.demands[o].target)
    BY <1>2
  <2>3. /\ Sound(u) /\ \A p \in Orders \ {o} : u.demands[p] = t.demands[p]
        /\ Uncommitted(u, Orders) >= 0
        /\ Uncommitted(u, Orders) <= Uncommitted(t, Orders)
        /\ Uncommitted(u, Orders) > 0 => u.demands[o].backordered = 0
    BY <1>2, <2>1, <2>2, ServingOne
  <2> QED
    BY <1>2, <2>3 DEF Sound
<1>3. CASE ~(Pending(s, o) /\ Uncommitted(t, Orders) > 0)
  <2>1. u = t
    BY <1>3
  <2> QED
    BY <1>0, <1>1, <1>3, <2>1
<1> QED
  BY <1>2, <1>3

\* The tables r[k] after the first k orders of the queue: the others were not
\* served yet, and what was left over only fell.
ServedTo(s, r, k) ==
  /\ Sound(r[k]) /\ SameButDemands(s, r[k]) /\ DemandsGrow(s, r[k])
  /\ \A i \in 0..k : /\ Uncommitted(r[i], Orders) \in Int
                     /\ Uncommitted(r[k], Orders) <= Uncommitted(r[i], Orders)
  /\ Uncommitted(r[k], Orders) >= 0 \/ Uncommitted(r[k], Orders) = Uncommitted(s, Orders)
  /\ \A j \in 1..Len(s.queue) : j > k => r[k].demands[s.queue[j]] = s.demands[s.queue[j]]
  /\ \A i \in 1..k : r[k].demands[s.queue[i]] = r[i].demands[s.queue[i]]
  /\ \A o \in Orders : ~Pending(s, o) => r[k].demands[o] = s.demands[o]

\* Replenishing promises nothing that is promised already, only orders that wait
\* gain, and one of them only when every older one gets all it asks for.
LEMMA ReplenishedInTurn ==
  ASSUME NEW s, Sound(s), InQueueOnce(s)
  PROVE  LET t == Replenished(s)
         IN /\ NoMorePromised(s, t)
            /\ \A o \in Orders : ~Pending(s, o) => t.demands[o] = s.demands[o]
            /\ \A i, j \in 1..Len(s.queue) :
                 /\ i < j /\ Pending(s, s.queue[i])
                 /\ t.demands[s.queue[j]] # s.demands[s.queue[j]]
                 => t.demands[s.queue[i]].backordered = 0
<1>0. s \in States /\ Len(s.queue) \in Nat /\ \A i \in 1..Len(s.queue) : s.queue[i] \in Orders
  BY TableRows DEF Sound
<1>1. PICK n, r : n = Len(s.queue) /\ r = Replenishing(s)
  OBVIOUS
<1>2. /\ n \in Nat /\ Replenished(s) = r[n] /\ r[0] = s
      /\ \A i \in 1..n :
           r[i] = IF Pending(s, s.queue[i]) /\ Uncommitted(r[i - 1], Orders) > 0
                    THEN Reconciled(r[i - 1], s.queue[i], r[i - 1].demands[s.queue[i]].target)
                    ELSE r[i - 1]
  BY <1>0, <1>1, ReplenishingSteps
<1> DEFINE T == {i \in 0..n : ServedTo(s, r, i)}
<1>3. 0 \in T
  <2>1. SameButDemands(s, s)
    BY DEF SameButDemands
  <2>2. DemandsGrow(s, s)
    <3>1. \A o \in Orders : s.demands[o].reserved \in Nat
      BY <1>0, TableRows, RowColumns
    <3> QED
      BY <3>1 DEF DemandsGrow
  <2>3. Uncommitted(s, Orders) \in Int
    BY <1>0, UncommittedType
  <2>4. 0..0 = {0} /\ 1..0 = {} /\ 0 \in 0..n
    BY <1>2
  <2> QED
    BY <1>2, <2>1, <2>2, <2>3, <2>4 DEF ServedTo
<1>4. ASSUME NEW k \in 1..n, k - 1 \in T PROVE k \in T
  <2>1. PICK t, u, o : t = r[k - 1] /\ o = s.queue[k] /\ u = r[k]
    OBVIOUS
  <2>2. ServedTo(s, r, k - 1) /\ o \in Orders /\ k \in 0..n /\ k - 1 \in 0..n
    BY <1>0, <1>1, <1>2, <1>4, <2>1
  <2>3. Sound(t) /\ SameButDemands(s, t) /\ DemandsGrow(s, t) /\ t \in States
    BY <2>1, <2>2 DEF ServedTo, Sound
  <2>4. u = IF Pending(s, o) /\ Uncommitted(t, Orders) > 0
              THEN Reconciled(t, o, t.demands[o].target) ELSE t
    BY <1>2, <2>1
  <2>5. Sound(u) /\ SameButDemands(s, u) /\ DemandsGrow(s, u)
    <3>1. CASE Pending(s, o) /\ Uncommitted(t, Orders) > 0
      <4>1. t.demands[o].state = "ACTIVE"
        BY <2>3, <2>2, <3>1 DEF Pending, DemandsGrow
      <4>2. Sound(u) /\ SameButDemands(t, u) /\ DemandsGrow(t, u)
        BY <2>2, <2>3, <2>4, <3>1, <4>1, ServingOne
      <4>3. DemandsGrow(s, u)
        <5>1. u \in States
          BY <4>2 DEF Sound
        <5> QED
          BY <1>0, <2>3, <4>2, <5>1, DemandsGrowOn
      <4> QED
        BY <2>3, <4>2, <4>3 DEF SameButDemands
    <3>2. CASE ~(Pending(s, o) /\ Uncommitted(t, Orders) > 0)
      BY <2>3, <2>4, <3>2
    <3> QED
      BY <3>1, <3>2
  <2>6. /\ \A p \in Orders \ {o} : u.demands[p] = t.demands[p]
        /\ Uncommitted(u, Orders) <= Uncommitted(t, Orders)
        /\ Uncommitted(u, Orders) >= 0 \/ Uncommitted(u, Orders) = Uncommitted(t, Orders)
        /\ (Pending(s, o) /\ Uncommitted(t, Orders) > 0) \/ u = t
    BY <2>2, <2>3, <2>4, ReplenishingOne
  <2>7. \A i \in 0..k : /\ Uncommitted(r[i], Orders) \in Int
                        /\ Uncommitted(u, Orders) <= Uncommitted(r[i], Orders)
    <3> SUFFICES ASSUME NEW i \in 0..k
                 PROVE  /\ Uncommitted(r[i], Orders) \in Int
                        /\ Uncommitted(u, Orders) <= Uncommitted(r[i], Orders)
      OBVIOUS
    <3>1. Uncommitted(u, Orders) \in Int /\ Uncommitted(t, Orders) \in Int
      BY <2>3, <2>5, UncommittedType DEF Sound
    <3>2. CASE i = k
      BY <2>1, <3>1, <3>2
    <3>3. CASE i # k
      <4>1. i \in 0..(k - 1) /\ i \in 0..n
        BY <3>3, <1>2
      <4>2. /\ Uncommitted(r[i], Orders) \in Int
            /\ Uncommitted(t, Orders) <= Uncommitted(r[i], Orders)
        BY <2>1, <2>2, <4>1 DEF ServedTo
      <4> QED
        BY <2>6, <3>1, <4>2
    <3> QED
      BY <3>2, <3>3
  <2>8. Uncommitted(u, Orders) >= 0 \/ Uncommitted(u, Orders) = Uncommitted(s, Orders)
    <3>1. /\ Uncommitted(u, Orders) \in Int /\ Uncommitted(t, Orders) \in Int
          /\ Uncommitted(s, Orders) \in Int
      BY <1>0, <2>3, <2>5, UncommittedType DEF Sound
    <3>2. Uncommitted(t, Orders) >= 0 \/ Uncommitted(t, Orders) = Uncommitted(s, Orders)
      BY <2>1, <2>2 DEF ServedTo
    <3> QED
      BY <2>6, <3>1, <3>2
  <2>9. \A j \in 1..n : j > k => u.demands[s.queue[j]] = s.demands[s.queue[j]]
    <3> SUFFICES ASSUME NEW j \in 1..n, j > k
                 PROVE  u.demands[s.queue[j]] = s.demands[s.queue[j]]
      OBVIOUS
    <3>1. s.queue[j] \in Orders \ {o} /\ j > k - 1
      BY <1>0, <1>1, <2>1 DEF InQueueOnce
    <3>2. t.demands[s.queue[j]] = s.demands[s.queue[j]]
      BY <1>1, <2>1, <2>2, <3>1 DEF ServedTo
    <3> QED
      BY <2>6, <3>1, <3>2
  <2>10. \A i \in 1..k : u.demands[s.queue[i]] = r[i].demands[s.queue[i]]
    <3> SUFFICES ASSUME NEW i \in 1..k
                 PROVE  u.demands[s.queue[i]] = r[i].demands[s.queue[i]]
      OBVIOUS
    <3>1. CASE i = k
      BY <2>1, <3>1
    <3>2. CASE i # k
      <4>1. i \in 1..(k - 1) /\ i \in 1..n
        BY <3>2, <1>2
      <4>2. s.queue[i] \in Orders \ {o}
        BY <1>0, <1>1, <2>1, <3>2, <4>1 DEF InQueueOnce
      <4>3. t.demands[s.queue[i]] = r[i].demands[s.queue[i]]
        BY <2>1, <2>2, <4>1 DEF ServedTo
      <4> QED
        BY <2>6, <4>2, <4>3
    <3> QED
      BY <3>1, <3>2
  <2>11. \A p \in Orders : ~Pending(s, p) => u.demands[p] = s.demands[p]
    <3> SUFFICES ASSUME NEW p \in Orders, ~Pending(s, p) PROVE u.demands[p] = s.demands[p]
      OBVIOUS
    <3>1. t.demands[p] = s.demands[p]
      BY <2>1, <2>2 DEF ServedTo
    <3>2. u.demands[p] = t.demands[p]
      BY <2>6
    <3> QED
      BY <3>1, <3>2
  <2> QED
    BY <1>1, <2>1, <2>2, <2>5, <2>7, <2>8, <2>9, <2>10, <2>11 DEF ServedTo
<1>5. \A k \in 0..n : ServedTo(s, r, k)
  <2>1. \A i \in 1..n : i - 1 \in T => i \in T
    BY <1>4
  <2>2. \A i \in 0..n : i \in T
    <3> HIDE DEF T
    <3> QED
      BY <1>2, <1>3, <2>1, UpTo
  <2> QED
    BY <2>2
<1>6. PICK t : t = r[n]
  OBVIOUS
<1>7. n \in 0..n /\ ServedTo(s, r, n)
  BY <1>2, <1>5
<1>8. NoMorePromised(s, t)
  <2>1. /\ Uncommitted(t, Orders) \in Int /\ Uncommitted(s, Orders) \in Int
    BY <1>0, <1>6, <1>7, UncommittedType DEF Sound, ServedTo
  <2> QED
    BY <1>6, <1>7, <2>1 DEF ServedTo, NoMorePromised
<1>9. ASSUME NEW i \in 1..n, NEW j \in 1..n, i < j, Pending(s, s.queue[i]),
             t.demands[s.queue[j]] # s.demands[s.queue[j]]
      PROVE  t.demands[s.queue[i]].backordered = 0
  <2>1. /\ j - 1 \in 0..n /\ i \in 0..(j - 1) /\ i - 1 \in 0..n /\ j \in 0..n /\ i \in 0..n
        /\ j > j - 1
    BY <1>2, <1>9
  <2>2. /\ r[j].demands[s.queue[j]] # r[j - 1].demands[s.queue[j]]
    <3>1. ServedTo(s, r, j - 1)
      BY <1>5, <2>1
    <3>2. r[j - 1].demands[s.queue[j]] = s.demands[s.queue[j]]
      BY <1>1, <2>1, <3>1 DEF ServedTo
    <3>3. t.demands[s.queue[j]] = r[j].demands[s.queue[j]]
      BY <1>6, <1>7 DEF ServedTo
    <3> QED
      BY <1>9, <3>2, <3>3
  <2>3. Uncommitted(r[j - 1], Orders) > 0
    <3>1. ServedTo(s, r, j - 1)
      BY <1>5, <2>1
    <3>2. r[j] = IF Pending(s, s.queue[j]) /\ Uncommitted(r[j - 1], Orders) > 0
                    THEN Reconciled(r[j - 1], s.queue[j], r[j - 1].demands[s.queue[j]].target)
                    ELSE r[j - 1]
      BY <1>2
    <3> QED
      BY <2>2, <3>2
  <2>4. Uncommitted(r[i], Orders) > 0
    <3>1. ServedTo(s, r, j - 1) /\ ServedTo(s, r, i)
      BY <1>5, <2>1
    <3>2. Uncommitted(r[j - 1], Orders) \in Int /\ Uncommitted(r[i], Orders) \in Int
      BY <3>1, UncommittedType DEF ServedTo, Sound
    <3>3. Uncommitted(r[j - 1], Orders) <= Uncommitted(r[i], Orders)
      BY <2>1, <3>1 DEF ServedTo
    <3> QED
      BY <2>3, <3>2, <3>3
  <2>5. r[i].demands[s.queue[i]].backordered = 0
    <3>1. PICK v, u, o : v = r[i - 1] /\ o = s.queue[i] /\ u = r[i]
      OBVIOUS
    <3>2. Sound(v) /\ SameButDemands(s, v) /\ DemandsGrow(s, v) /\ o \in Orders
      BY <1>0, <1>1, <1>5, <2>1, <3>1 DEF ServedTo
    <3>3. u = IF Pending(s, o) /\ Uncommitted(v, Orders) > 0
                THEN Reconciled(v, o, v.demands[o].target) ELSE v
      BY <1>2, <3>1
    <3>4. Pending(s, o) /\ Uncommitted(u, Orders) > 0 => u.demands[o].backordered = 0
      BY <3>2, <3>3, ReplenishingOne
    <3> QED
      BY <1>9, <2>4, <3>1, <3>4
  <2>6. t.demands[s.queue[i]] = r[i].demands[s.queue[i]]
    BY <1>6, <1>7 DEF ServedTo
  <2> QED
    BY <2>5, <2>6
<1>10. \A o \in Orders : ~Pending(s, o) => t.demands[o] = s.demands[o]
  BY <1>6, <1>7 DEF ServedTo
<1> QED
  BY <1>1, <1>2, <1>6, <1>8, <1>9, <1>10

\* The same delivery orders with the same lines.
SameLines(s, t) ==
  /\ DOMAIN t.deliveries = DOMAIN s.deliveries
  /\ \A d \in DOMAIN s.deliveries : t.deliveries[d].lines = s.deliveries[d].lines

\* From s to t the orders other than o lose nothing, nobody begins to work for
\* them, and one of them gains only when every older one that waits gets all.
KeepsTurns(s, t, o) ==
  /\ t.queue = s.queue /\ SameLines(s, t)
  /\ \A p \in Orders \ {o} :
       /\ t.status[p] = s.status[p]
       /\ s.status[p] = "confirmed" \/ t.demands[p] = s.demands[p]
       /\ t.demands[p].state = s.demands[p].state
       /\ t.demands[p].target = s.demands[p].target
       /\ t.demands[p].reserved >= s.demands[p].reserved
       /\ Untouched(s, p) => Untouched(t, p)
  /\ \A i, j \in 1..Len(s.queue) :
       /\ i < j /\ s.queue[i] # o /\ s.queue[j] # o /\ Pending(s, s.queue[i])
       /\ t.demands[s.queue[j]].reserved > s.demands[s.queue[j]].reserved
       => t.demands[s.queue[i]].backordered = 0

\* A demand that is served in full stays served while it loses nothing.
LEMMA StaysServed ==
  ASSUME NEW s, Sound(s), NEW t, Sound(t), NEW p \in Orders,
         s.demands[p].state = "ACTIVE", t.demands[p].state = s.demands[p].state,
         t.demands[p].target = s.demands[p].target,
         t.demands[p].reserved >= s.demands[p].reserved,
         s.demands[p].backordered = 0
  PROVE  t.demands[p].backordered = 0
<1>1. PICK a, b, c, d, x : /\ a = s.demands[p].reserved /\ b = s.demands[p].backordered
                           /\ c = t.demands[p].reserved /\ d = t.demands[p].backordered
                           /\ x = s.demands[p].target
  OBVIOUS
<1>2. a \in Nat /\ b \in Nat /\ c \in Nat /\ d \in Nat /\ x \in Nat
  <2>1. s.demands[p] \in Demands /\ t.demands[p] \in Demands
    BY TableRows DEF Sound
  <2> QED
    BY <1>1, <2>1, RowColumns
<1>3. a + b = x /\ c + d = x /\ c >= a /\ b = 0
  BY <1>1 DEF Sound, DemandsHold
<1>4. d = 0
  BY ONLY <1>2, <1>3
<1> QED
  BY <1>1, <1>4

\* Keeping turns is transitive.
LEMMA TurnsKeptOn ==
  ASSUME NEW s, Sound(s), NEW t, Sound(t), NEW u, Sound(u), NEW o,
         KeepsTurns(s, t, o), KeepsTurns(t, u, o)
  PROVE  KeepsTurns(s, u, o)
<1>0. s \in States /\ t \in States /\ u \in States
  BY DEF Sound
<1>1. u.queue = s.queue /\ SameLines(s, u)
  BY DEF KeepsTurns, SameLines
<1>2. ASSUME NEW p \in Orders \ {o}
      PROVE  /\ u.status[p] = s.status[p]
             /\ s.status[p] = "confirmed" \/ u.demands[p] = s.demands[p]
             /\ u.demands[p].state = s.demands[p].state
             /\ u.demands[p].target = s.demands[p].target
             /\ u.demands[p].reserved >= s.demands[p].reserved
             /\ Untouched(s, p) => Untouched(u, p)
  <2>1. /\ s.demands[p].reserved \in Nat /\ t.demands[p].reserved \in Nat
        /\ u.demands[p].reserved \in Nat
    BY <1>0, TableRows, RowColumns
  <2> QED
    BY <2>1 DEF KeepsTurns
<1>3. ASSUME NEW i \in 1..Len(s.queue), NEW j \in 1..Len(s.queue),
             i < j, s.queue[i] # o, s.queue[j] # o, Pending(s, s.queue[i]),
             u.demands[s.queue[j]].reserved > s.demands[s.queue[j]].reserved
      PROVE  u.demands[s.queue[i]].backordered = 0
  <2>1. PICK p, q : p = s.queue[i] /\ q = s.queue[j]
    OBVIOUS
  <2>2. p \in Orders \ {o} /\ q \in Orders \ {o} /\ Pending(s, p)
    BY <1>0, <1>3, <2>1, TableRows
  <2>3. t.queue[i] = p /\ t.queue[j] = q /\ i \in 1..Len(t.queue) /\ j \in 1..Len(t.queue)
    BY <2>1 DEF KeepsTurns
  <2>4. /\ t.demands[p].state = "ACTIVE" /\ u.demands[p].state = t.demands[p].state
        /\ u.demands[p].target = t.demands[p].target
        /\ u.demands[p].reserved >= t.demands[p].reserved
    BY <2>2 DEF KeepsTurns, Pending
  <2>5. t.demands[p].backordered = 0 => u.demands[p].backordered = 0
    BY <2>2, <2>4, StaysServed
  <2>6. CASE t.demands[q].reserved > s.demands[q].reserved
    <3>1. t.demands[p].backordered = 0
      BY <1>3, <2>1, <2>2, <2>6 DEF KeepsTurns
    <3> QED
      BY <2>1, <2>5, <3>1
  <2>7. CASE u.demands[q].reserved > t.demands[q].reserved
    <3>1. CASE Pending(t, p)
      <4>1. u.demands[p].backordered = 0
        BY <1>3, <2>2, <2>3, <2>7, <3>1 DEF KeepsTurns
      <4> QED
        BY <2>1, <4>1
    <3>2. CASE ~Pending(t, p)
      <4>1. t.demands[p].backordered \in Nat
        BY <1>0, <2>2, TableRows, RowColumns
      <4>2. ~(t.demands[p].backordered > 0)
        BY <2>2, <2>4, <3>2 DEF KeepsTurns, Pending
      <4> QED
        BY <2>1, <2>5, <4>1, <4>2
    <3> QED
      BY <3>1, <3>2
  <2>8. \/ t.demands[q].reserved > s.demands[q].reserved
        \/ u.demands[q].reserved > t.demands[q].reserved
    <3>1. /\ s.demands[q].reserved \in Nat /\ t.demands[q].reserved \in Nat
          /\ u.demands[q].reserved \in Nat
      BY <1>0, <2>2, TableRows, RowColumns
    <3>2. u.demands[q].reserved > s.demands[q].reserved
      BY <1>3, <2>1
    <3> QED
      BY <3>1, <3>2
  <2> QED
    BY <2>6, <2>7, <2>8
<1> QED
  BY <1>1, <1>2, <1>3 DEF KeepsTurns

\* A step that leaves the demands of the others alone keeps turns.
LEMMA OthersLeftAlone ==
  ASSUME NEW s, Sound(s), NEW t, NEW o, t.queue = s.queue, SameLines(s, t),
         \A p \in Orders \ {o} : t.status[p] = s.status[p],
         \A p \in Orders \ {o} : t.demands[p] = s.demands[p],
         \A p \in Orders \ {o} : Untouched(s, p) => Untouched(t, p)
  PROVE  KeepsTurns(s, t, o)
<1>1. s \in States /\ \A i \in 1..Len(s.queue) : s.queue[i] \in Orders
  BY TableRows DEF Sound
<1>2. \A p \in Orders : s.demands[p].reserved \in Nat
  BY <1>1, TableRows, RowColumns
<1>3. \A p \in Orders \ {o} : ~(t.demands[p].reserved > s.demands[p].reserved)
  BY <1>2
<1>4. \A j \in 1..Len(s.queue) : s.queue[j] # o =>
        ~(t.demands[s.queue[j]].reserved > s.demands[s.queue[j]].reserved)
  BY <1>1, <1>3
<1>5. \A p \in Orders \ {o} :
       /\ t.status[p] = s.status[p]
       /\ s.status[p] = "confirmed" \/ t.demands[p] = s.demands[p]
       /\ t.demands[p].state = s.demands[p].state
       /\ t.demands[p].target = s.demands[p].target
       /\ t.demands[p].reserved >= s.demands[p].reserved
       /\ Untouched(s, p) => Untouched(t, p)
  BY <1>2
<1> QED
  BY <1>4, <1>5 DEF KeepsTurns

\* A status changes no lines.
LEMMA StatusKeepsLines ==
  ASSUME NEW s, Sound(s), NEW t, NEW d \in DOMAIN s.deliveries, NEW to,
         t.deliveries = [s.deliveries EXCEPT ![d].status = to]
  PROVE  SameLines(s, t)
<1>1. s.deliveries[d] \in Deliveries /\ DOMAIN t.deliveries = DOMAIN s.deliveries
  BY TableRows DEF Sound
<1>2. t.deliveries[d] = [s.deliveries[d] EXCEPT !.status = to]
      /\ \A e \in DOMAIN s.deliveries \ {d} : t.deliveries[e] = s.deliveries[e]
  BY <1>1
<1>3. t.deliveries[d].lines = s.deliveries[d].lines
  BY <1>1, <1>2 DEF Deliveries
<1> QED
  BY <1>1, <1>2, <1>3 DEF SameLines

\* Replenishing keeps turns.
LEMMA ReplenishedKeepsTurns ==
  ASSUME NEW s, Sound(s), InQueueOnce(s), NEW o
  PROVE  KeepsTurns(s, Replenished(s), o)
<1>1. PICK t : t = Replenished(s)
  OBVIOUS
<1>2. SameButDemands(s, t) /\ DemandsGrow(s, t)
  BY <1>1, ReplenishedSound
<1>3. /\ t.queue = s.queue /\ t.status = s.status /\ \A p : Untouched(t, p) = Untouched(s, p)
      /\ SameLines(s, t)
  BY <1>2, DemandsApart DEF SameButDemands, SameLines
<1>9. \A p \in Orders : s.status[p] = "confirmed" \/ t.demands[p] = s.demands[p]
  <2>1. \A p \in Orders : ~Pending(s, p) => t.demands[p] = s.demands[p]
    BY <1>1, ReplenishedInTurn
  <2> QED
    BY <2>1 DEF Pending
<1>4. \A i, j \in 1..Len(s.queue) :
         /\ i < j /\ Pending(s, s.queue[i])
         /\ t.demands[s.queue[j]] # s.demands[s.queue[j]]
         => t.demands[s.queue[i]].backordered = 0
  BY <1>1, ReplenishedInTurn
<1>5. \A q \in Orders : t.demands[q] = s.demands[q] =>
         ~(t.demands[q].reserved > s.demands[q].reserved)
  <2>1. \A q \in Orders : s.demands[q].reserved \in Nat
    BY TableRows, RowColumns DEF Sound
  <2> QED
    BY <2>1
<1>6. \A j \in 1..Len(s.queue) : s.queue[j] \in Orders
  BY TableRows DEF Sound
<1>7. \A j \in 1..Len(s.queue) :
         t.demands[s.queue[j]].reserved > s.demands[s.queue[j]].reserved =>
           t.demands[s.queue[j]] # s.demands[s.queue[j]]
  BY <1>5, <1>6
<1>8. KeepsTurns(s, t, o)
  BY <1>2, <1>3, <1>4, <1>7, <1>9 DEF KeepsTurns, DemandsGrow
<1> QED
  BY <1>1, <1>8

\* An order nobody works for is left that way when a delivery order that is
\* undone gives back what it took.
LEMMA UntouchedStays ==
  ASSUME NEW s, Sound(s), NEW t, NEW d \in DOMAIN s.deliveries, NEW to, to \notin Shipped,
         t.deliveries = [s.deliveries EXCEPT ![d].status = to],
         SameQuantities(s, t),
         \A a \in DOMAIN s.allocations : t.allocations[a].picked = s.allocations[a].picked,
         \A a \in DOMAIN s.allocations : t.allocations[a].packed = s.allocations[a].packed,
         NEW p, Untouched(s, p)
  PROVE  Untouched(t, p)
<1>1. s \in States /\ Rows(t, p) = Rows(s, p) /\ Rows(s, p) \subseteq DOMAIN s.allocations
  <2>1. s \in States
    BY DEF Sound
  <2>2. \A x : Rows(t, x) = Rows(s, x)
    BY <2>1, SameAllocated
  <2> QED
    BY <2>1, <2>2 DEF Rows
<1>2. ASSUME NEW a \in Rows(s, p) PROVE OnDeliveries(t, a, Shipped) = 0
  <2>1. a \in 1..MaxAllocations /\ s.deliveries[d].lines[a] \in Nat
    BY <1>1, LineType
  <2>2. OnDeliveries(s, a, Shipped) = 0
    BY DEF Untouched
  <2>3. s.deliveries[d].status \in Shipped => s.deliveries[d].lines[a] <= 0
    BY <2>1, <2>2, OnDeliveriesType
  <2>4. OnDeliveries(t, a, Shipped) =
           OnDeliveries(s, a, Shipped)
             + (IF to \in Shipped THEN s.deliveries[d].lines[a] ELSE 0)
             - (IF s.deliveries[d].status \in Shipped THEN s.deliveries[d].lines[a] ELSE 0)
    BY <2>1, OneDeliveryMoves
  <2>5. PICK x : x = s.deliveries[d].lines[a]
    OBVIOUS
  <2>6. OnDeliveries(t, a, Shipped) = 0 + 0 - (IF s.deliveries[d].status \in Shipped THEN x ELSE 0)
    BY <2>2, <2>4, <2>5
  <2>7. CASE s.deliveries[d].status \in Shipped
    <3>1. OnDeliveries(t, a, Shipped) = 0 + 0 - x /\ x \in Nat /\ x <= 0
      BY <2>1, <2>3, <2>5, <2>6, <2>7
    <3> QED
      BY ONLY <3>1
  <2>8. CASE s.deliveries[d].status \notin Shipped
    <3>1. OnDeliveries(t, a, Shipped) = 0 + 0 - 0
      BY <2>6, <2>8
    <3> QED
      BY ONLY <3>1
  <2> QED
    BY <2>7, <2>8
<1> QED
  BY <1>1, <1>2 DEF Untouched

\* Undoing the issue of a delivery order keeps turns.
LEMMA IssueReversedKeepsTurns ==
  ASSUME NEW s, Sound(s), InQueueOnce(s), NEW d \in DOMAIN s.deliveries,
         s.deliveries[d].status \in Shipped, NEW o
  PROVE  KeepsTurns(s, IssueReversed(s, d), o)
<1>1. PICK m, r, t : /\ m = Moved(s, Load(s, d)) /\ r = Replenished(m)
                     /\ t = WithDelivery(Adjusted(r, d, -1), d, "ready_to_dispatch")
  OBVIOUS
<1>2. t = IssueReversed(s, d)
  BY <1>1 DEF IssueReversed
<1>3. s \in States /\ \A l \in Locations : Load(s, d)[l] \in Nat
  BY LoadIsSum DEF Sound
<1>4. Sound(m) /\ SameButStock(s, m)
  <2>1. \A l \in Locations : Load(s, d)[l] \in Int /\ s.onHand[l] + Load(s, d)[l] >= s.reserved[l]
    <3> SUFFICES ASSUME NEW l \in Locations
                 PROVE  Load(s, d)[l] \in Int /\ s.onHand[l] + Load(s, d)[l] >= s.reserved[l]
      OBVIOUS
    <3>1. s.onHand[l] \in Nat /\ s.reserved[l] \in Nat /\ s.reserved[l] <= s.onHand[l]
      BY <1>3, Columns DEF Sound, Covered
    <3> QED
      BY <1>3, <3>1
  <2> QED
    BY <1>1, <2>1, MovedSound
<1>5. KeepsTurns(s, m, o)
  <2>1. \A p : Rows(m, p) = Rows(s, p)
    BY <1>4, StockApart
  <2>2. \A p : Untouched(m, p) = Untouched(s, p)
    BY <1>4, <2>1, StockApart DEF Untouched, SameButStock
  <2>3. SameLines(s, m)
    BY <1>4 DEF SameButStock, SameLines
  <2> QED
    BY <1>4, <2>2, <2>3, OthersLeftAlone DEF SameButStock
<1>6. Sound(r) /\ SameButDemands(m, r) /\ KeepsTurns(m, r, o)
  <2>1. InQueueOnce(m)
    BY <1>4 DEF InQueueOnce, SameButStock
  <2> QED
    BY <1>1, <1>4, <2>1, ReplenishedSound, ReplenishedKeepsTurns
<1>7. t = [onHand |-> r.onHand,
           reserved |-> [l \in Locations |-> r.reserved[l] - (-1) * Load(r, d)[l]],
           status |-> r.status, queue |-> r.queue, demands |-> r.demands,
           allocations |-> [a \in DOMAIN r.allocations |-> AdjustedRow(r, d, -1, a)],
           deliveries |-> [r.deliveries EXCEPT ![d].status = "ready_to_dispatch"]]
  BY <1>1, <1>6, AdjustedFields DEF Sound
<1>8. Sound(t)
  BY <1>2, IssueReversedSound
<1>9. KeepsTurns(r, t, o)
  <2>1. d \in DOMAIN r.deliveries /\ "ready_to_dispatch" \notin Shipped
    BY <1>4, <1>6 DEF SameButStock, SameButDemands, Shipped
  <2>2. ASSUME NEW a \in DOMAIN r.allocations
        PROVE  /\ t.allocations[a].order = r.allocations[a].order
               /\ t.allocations[a].location = r.allocations[a].location
               /\ t.allocations[a].quantity = r.allocations[a].quantity
               /\ t.allocations[a].state = r.allocations[a].state
               /\ t.allocations[a].picked = r.allocations[a].picked
               /\ t.allocations[a].packed = r.allocations[a].packed
    <3>1. t.allocations[a] = AdjustedRow(r, d, -1, a)
      BY <1>7
    <3>2. r.allocations[a] \in Allocations
      BY <1>6, TableRows DEF Sound
    <3> QED
      BY <3>1, <3>2 DEF AdjustedRow, Allocations
  <2>3. SameQuantities(r, t)
    BY <1>7, <2>2 DEF SameQuantities
  <2>4. t.deliveries = [r.deliveries EXCEPT ![d].status = "ready_to_dispatch"]
    BY <1>7
  <2>5. \A p \in Orders \ {o} : Untouched(r, p) => Untouched(t, p)
    <3>1. /\ \A a \in DOMAIN r.allocations : t.allocations[a].picked = r.allocations[a].picked
          /\ \A a \in DOMAIN r.allocations : t.allocations[a].packed = r.allocations[a].packed
      BY <2>2
    <3> QED
      BY ONLY <1>6, <2>1, <2>3, <2>4, <3>1, UntouchedStays
  <2>6. t.queue = r.queue /\ t.status = r.status /\ t.demands = r.demands
    BY <1>7
  <2>7. SameLines(r, t)
    BY <1>6, <2>1, <2>4, StatusKeepsLines
  <2> QED
    BY <1>6, <2>5, <2>6, <2>7, OthersLeftAlone
<1>10. KeepsTurns(s, r, o)
  BY <1>4, <1>5, <1>6, TurnsKeptOn
<1> QED
  BY <1>2, <1>6, <1>8, <1>9, <1>10, TurnsKeptOn

\* Nothing of order o is on its way or with the customer.
NothingShipped(s, o) ==
  \A d \in DOMAIN s.deliveries :
    s.deliveries[d].order = o => s.deliveries[d].status \notin Shipped

\* The tables differ in the delivery orders at most.
SameButDeliveries(s, t) ==
  /\ t.onHand = s.onHand /\ t.reserved = s.reserved /\ t.status = s.status
  /\ t.queue = s.queue /\ t.demands = s.demands /\ t.allocations = s.allocations

\* Undoing one delivery order keeps turns, and when it has not left nothing but
\* its status changes.
LEMMA UnwindingOneKeepsTurns ==
  ASSUME NEW s, NEW t, Sound(t), InQueueOnce(t), NEW o, NEW d \in DOMAIN t.deliveries,
         t.deliveries[d] = s.deliveries[d], Sound(UnwoundStep(s, o, t, d)),
         s.deliveries[d].order = o => s.deliveries[d].status # "handed_over"
  PROVE  LET u == UnwoundStep(s, o, t, d)
         IN /\ KeepsTurns(t, u, o)
            /\ \/ s.deliveries[d].order = o /\ s.deliveries[d].status \in Shipped
               \/ SameButDeliveries(t, u)
<1>1. PICK u : u = UnwoundStep(s, o, t, d)
  OBVIOUS
<1>2. CASE s.deliveries[d].order # o \/ s.deliveries[d].status = "cancelled"
  <2>1. u = t
    BY <1>1, <1>2 DEF UnwoundStep
  <2>2. KeepsTurns(t, t, o)
    BY OthersLeftAlone DEF SameLines
  <2>3. SameButDeliveries(t, t)
    BY DEF SameButDeliveries
  <2> QED
    BY <1>1, <2>1, <2>2, <2>3
<1>3. CASE s.deliveries[d].order = o /\ s.deliveries[d].status # "cancelled"
  <2>1. PICK v : v = IF s.deliveries[d].status = "dispatched" THEN IssueReversed(t, d) ELSE t
    OBVIOUS
  <2>2. u = WithDelivery(v, d, "cancelled")
    BY <1>1, <1>3, <2>1 DEF UnwoundStep
  <2>3. /\ Sound(v) /\ KeepsTurns(t, v, o) /\ d \in DOMAIN v.deliveries
        /\ v.deliveries[d].status \notin Shipped
    <3>1. CASE s.deliveries[d].status = "dispatched"
      <4>1. v = IssueReversed(t, d) /\ t.deliveries[d].status \in Shipped
        BY <2>1, <3>1 DEF Shipped
      <4>2. Sound(v) /\ Unshipped(t, v, d, "ready_to_dispatch") /\ KeepsTurns(t, v, o)
        BY <4>1, IssueReversedSound, IssueReversedKeepsTurns
      <4>3. v.deliveries = [t.deliveries EXCEPT ![d].status = "ready_to_dispatch"]
        BY <4>2 DEF Unshipped
      <4>4. t.deliveries[d] \in Deliveries
        BY TableRows DEF Sound
      <4>5. d \in DOMAIN v.deliveries
            /\ v.deliveries[d] = [t.deliveries[d] EXCEPT !.status = "ready_to_dispatch"]
        BY <4>3
      <4>6. v.deliveries[d].status = "ready_to_dispatch"
        BY <4>4, <4>5 DEF Deliveries
      <4> QED
        BY <4>2, <4>5, <4>6 DEF Shipped
    <3>2. CASE s.deliveries[d].status # "dispatched"
      <4>1. v = t /\ s.deliveries[d].status \notin Shipped
        BY <1>3, <2>1, <3>2 DEF Shipped
      <4>2. KeepsTurns(t, t, o)
        BY OthersLeftAlone DEF SameLines
      <4> QED
        BY <4>1, <4>2
    <3> QED
      BY <3>1, <3>2
  <2>4. /\ Sound(u) /\ SameButDeliveries(v, u)
        /\ u.deliveries = [v.deliveries EXCEPT ![d].status = "cancelled"]
    <3>1. "cancelled" \in (Claiming \union {"cancelled"}) \ Shipped /\ "cancelled" \notin Claiming
      BY DEF Claiming, Shipped
    <3> QED
      BY <2>2, <2>3, <3>1, WithDeliverySound DEF SameButDeliveries
  <2>5. KeepsTurns(v, u, o)
    <3>1. SameQuantities(v, u)
      BY <2>4 DEF SameButDeliveries, SameQuantities
    <3>2. \A p : Untouched(v, p) => Untouched(u, p)
      <4>1. "cancelled" \notin Shipped
        BY DEF Shipped
      <4>2. /\ \A a \in DOMAIN v.allocations : u.allocations[a].picked = v.allocations[a].picked
            /\ \A a \in DOMAIN v.allocations : u.allocations[a].packed = v.allocations[a].packed
        BY <2>4 DEF SameButDeliveries
      <4>3. /\ Sound(v) /\ d \in DOMAIN v.deliveries
            /\ u.deliveries = [v.deliveries EXCEPT ![d].status = "cancelled"]
        BY <2>3, <2>4
      <4> QED
        BY ONLY <3>1, <4>1, <4>2, <4>3, UntouchedStays
    <3>3. SameLines(v, u)
      BY <2>3, <2>4, StatusKeepsLines
    <3> QED
      BY <2>3, <2>4, <3>2, <3>3, OthersLeftAlone DEF SameButDeliveries
  <2>6. KeepsTurns(t, u, o)
    BY <2>3, <2>4, <2>5, TurnsKeptOn
  <2>7. s.deliveries[d].status \in Shipped \/ SameButDeliveries(t, u)
    <3>1. s.deliveries[d].status \notin Shipped => v = t
      BY <2>1 DEF Shipped
    <3> QED
      BY <2>4, <3>1
  <2> QED
    BY <1>1, <1>3, <2>6, <2>7
<1> QED
  BY <1>2, <1>3

\* Undoing all delivery orders of o keeps turns, and when none of them has left
\* nothing but their status changes.
LEMMA DeliveriesUnwoundKeepsTurns ==
  ASSUME NEW s, Sound(s), InQueueOnce(s), NEW o,
         \A d \in DOMAIN s.deliveries :
           s.deliveries[d].order = o => s.deliveries[d].status # "handed_over"
  PROVE  /\ KeepsTurns(s, DeliveriesUnwound(s, o), o)
         /\ NothingShipped(s, o) => SameButDeliveries(s, DeliveriesUnwound(s, o))
<1> DEFINE n == Len(s.deliveries)
           r == Unwinding(s, o)
           T == {k \in 0..n : /\ Sound(r[k]) /\ UnwoundTo(s, o, r[k], k)
                              /\ KeepsTurns(s, r[k], o)
                              /\ NothingShipped(s, o) => SameButDeliveries(s, r[k])}
<1>0. s \in States /\ n \in Nat /\ DOMAIN s.deliveries = 1..n
  BY TableRows DEF Sound
<1>1. /\ DeliveriesUnwound(s, o) = r[n] /\ r[0] = s
      /\ \A d \in 1..n : r[d] = UnwoundStep(s, o, r[d - 1], d)
  BY <1>0, UnwindingSteps
<1>2. 0 \in T
  <2>1. DemandsGrow(s, s)
    <3>1. \A p \in Orders : s.demands[p].reserved \in Nat
      BY <1>0, TableRows, RowColumns
    <3> QED
      BY <3>1 DEF DemandsGrow
  <2>2. SameQuantities(s, s)
    BY DEF SameQuantities
  <2>3. \A e \in DOMAIN s.deliveries : e \in Nat /\ e > 0
    BY <1>0
  <2>4. UnwoundTo(s, o, s, 0)
    BY <2>1, <2>2, <2>3 DEF UnwoundTo
  <2>5. KeepsTurns(s, s, o) /\ SameButDeliveries(s, s)
    BY OthersLeftAlone DEF SameButDeliveries, SameLines
  <2> QED
    BY <1>0, <1>1, <2>4, <2>5
<1>3. ASSUME NEW d \in 1..n, d - 1 \in T PROVE d \in T
  <2>1. PICK t, u : t = r[d - 1] /\ u = UnwoundStep(s, o, t, d)
    OBVIOUS
  <2>2. /\ Sound(t) /\ UnwoundTo(s, o, t, d - 1) /\ KeepsTurns(s, t, o)
        /\ NothingShipped(s, o) => SameButDeliveries(s, t)
        /\ d \in DOMAIN s.deliveries /\ r[d] = u /\ d \in 0..n
    BY <1>0, <1>1, <1>3, <2>1
  <2>3. Sound(u) /\ UnwoundTo(s, o, u, d)
    BY <2>1, <2>2, UnwindingOne
  <2>4. d \in DOMAIN t.deliveries /\ t.deliveries[d] = s.deliveries[d]
    <3>1. d > d - 1
      BY <1>0
    <3> QED
      BY <2>2, <3>1 DEF UnwoundTo
  <2>5. InQueueOnce(t)
    BY <2>2 DEF InQueueOnce, UnwoundTo
  <2>6. /\ KeepsTurns(t, u, o)
        /\ \/ s.deliveries[d].order = o /\ s.deliveries[d].status \in Shipped
           \/ SameButDeliveries(t, u)
    BY <2>1, <2>2, <2>3, <2>4, <2>5, UnwindingOneKeepsTurns
  <2>7. KeepsTurns(s, u, o)
    BY <2>2, <2>3, <2>6, TurnsKeptOn
  <2>8. NothingShipped(s, o) => SameButDeliveries(s, u)
    <3> SUFFICES ASSUME NothingShipped(s, o) PROVE SameButDeliveries(s, u)
      OBVIOUS
    <3>1. SameButDeliveries(t, u) /\ SameButDeliveries(s, t)
      BY <2>2, <2>6 DEF NothingShipped
    <3> QED
      BY <3>1 DEF SameButDeliveries
  <2> QED
    BY <2>2, <2>3, <2>7, <2>8
<1>4. n \in T
  <2>1. n \in 0..n
    BY <1>0
  <2>2. \A i \in 1..n : i - 1 \in T => i \in T
    BY <1>3
  <2> HIDE DEF T, n
  <2> QED
    BY <1>0, <1>2, <2>1, <2>2, UpTo
<1> QED
  BY <1>1, <1>4

-----------------------------------------------------------------------------
(* Sums over the holds and the scopes.                                     *)

\* While no hold but that of o changes, the holds change by it.
LEMMA HoldsChange ==
  ASSUME NEW s \in States, NEW t \in States, NEW o \in Orders,
         \A p \in Orders \ {o} : Hold(t, p) = Hold(s, p)
  PROVE  HoldsOf(t, Orders) = HoldsOf(s, Orders) + Hold(t, o) - Hold(s, o)
<1>1. PICK f, g : f = [p \in Orders |-> Hold(s, p)] /\ g = [p \in Orders |-> Hold(t, p)]
  OBVIOUS
<1>2. IsFiniteSet(Orders) /\ \A p \in Orders : f[p] \in Int /\ g[p] \in Int
  BY <1>1, HoldType, FulfillmentAssumption
<1>3. \A p \in Orders \ {o} : g[p] = f[p]
  BY <1>1
<1>4. SumFunctionOnSet(g, Orders) = SumFunctionOnSet(f, Orders) + g[o] - f[o]
  <2>1. (\A p \in Orders : f[p] \in Int) /\ g[o] \in Int
    BY <1>2
  <2> QED
    BY ONLY <1>2, <1>3, <2>1, o \in Orders, SumUpdate
<1> QED
  BY <1>1, <1>4 DEF HoldsOf

\* Columns add up over the warehouse scope by scope.
LEMMA TotalOfTwo ==
  ASSUME NEW f, NEW g, NEW h, \A l \in Locations : f[l] \in Int,
         \A l \in Locations : g[l] \in Int, \A l \in Locations : h[l] = f[l] + g[l]
  PROVE  Total(h) = Total(f) + Total(g) /\ Total(f) \in Int /\ Total(g) \in Int
<1>1. SumFunctionOnSet(h, Locations) = SumFunctionOnSet(f, Locations) + SumFunctionOnSet(g, Locations)
  BY LocationsAssumption, SumOfTwo
<1>2. SumFunctionOnSet(f, Locations) \in Int /\ SumFunctionOnSet(g, Locations) \in Int
  BY LocationsAssumption, SumType
<1> QED
  BY <1>1, <1>2 DEF Total

\* What is left of an order's allocations in all scopes is what it has allocated,
\* when nothing of it was consumed.
LEMMA GivenBackInAll ==
  ASSUME NEW s, Sound(s), NEW o,
         \A a \in Rows(s, o) : s.allocations[a].consumed = 0
  PROVE  Total([l \in Locations |-> GivenBack(s, o, l)]) = Allocated(s, o)
<1>1. PICK f, k, g, G, S :
        /\ f = [a \in Rows(s, o) |-> s.allocations[a].quantity]
        /\ k = [a \in Rows(s, o) |-> s.allocations[a].location]
        /\ g = [l \in Locations |-> GivenBack(s, o, l)]
        /\ G = [l \in Locations |-> RowsAt(s, o, l)]
        /\ S = Rows(s, o)
  OBVIOUS
<1>2. s \in States /\ IsFiniteSet(S) /\ S \subseteq DOMAIN s.allocations
  BY <1>1, AllocatedType DEF Sound
<1>3. \A a \in S : s.allocations[a] \in Allocations
  BY <1>2, TableRows
<1>4. /\ \A a \in S : f[a] \in Int
      /\ \A a \in S : k[a] \in Locations
  BY <1>1, <1>3, RowColumns
<1>5. \A l \in Locations : G[l] \subseteq S /\ \A a \in S : a \in G[l] <=> k[a] = l
  BY <1>1 DEF RowsAt
<1>6. \A l \in Locations : g[l] = SumFunctionOnSet(f, G[l])
  <2> SUFFICES ASSUME NEW l \in Locations PROVE g[l] = SumFunctionOnSet(f, G[l])
    OBVIOUS
  <2>1. PICK h, R : /\ R = RowsAt(s, o, l)
                    /\ h = [a \in R |-> s.allocations[a].quantity - s.allocations[a].consumed]
    OBVIOUS
  <2>2. g[l] = SumFunctionOnSet(h, R) /\ G[l] = R
    BY <1>1, <2>1 DEF GivenBack
  <2>3. R \subseteq S /\ IsFiniteSet(R)
    BY <1>2, <1>5, <2>2, FS_Subset
  <2>4. \A a \in R : h[a] = f[a]
    <3> SUFFICES ASSUME NEW a \in R PROVE h[a] = f[a]
      OBVIOUS
    <3>1. s.allocations[a].quantity \in Nat /\ s.allocations[a].consumed = 0
      BY <1>1, <1>3, <2>3, RowColumns
    <3>2. h[a] = s.allocations[a].quantity - 0 /\ f[a] = s.allocations[a].quantity
      BY <1>1, <2>1, <2>3, <3>1
    <3> QED
      BY <3>1, <3>2
  <2>5. SumFunctionOnSet(h, R) = SumFunctionOnSet(f, R)
    BY ONLY <2>3, <2>4, SumCongruence
  <2> QED
    BY <2>2, <2>5
<1>7. SumFunctionOnSet(g, Locations) = SumFunctionOnSet(f, S)
  BY ONLY <1>2, <1>4, <1>5, <1>6, LocationsAssumption, SumGrouped
<1> QED
  BY <1>1, <1>7 DEF Total, Allocated

-----------------------------------------------------------------------------
(* What the steps of a transaction promise.                                *)

\* Promising no more is transitive.
LEMMA PromisesOn ==
  ASSUME NEW s \in States, NEW t \in States, NEW u \in States,
         NoMorePromised(s, t), NoMorePromised(t, u)
  PROVE  NoMorePromised(s, u)
<1>1. /\ Uncommitted(s, Orders) \in Int /\ Uncommitted(t, Orders) \in Int
      /\ Uncommitted(u, Orders) \in Int
  BY UncommittedType
<1> QED
  BY <1>1 DEF NoMorePromised

\* Tables with the same stock, demands and quantities promise the same.
LEMMA SamePromises ==
  ASSUME NEW s \in States, NEW t \in States, SameQuantities(s, t), t.demands = s.demands,
         Total(t.onHand) - Total(t.reserved) = Total(s.onHand) - Total(s.reserved)
  PROVE  Uncommitted(t, Orders) = Uncommitted(s, Orders) /\ NoMorePromised(s, t)
<1>1. \A o : Allocated(t, o) = Allocated(s, o)
  BY SameAllocated
<1>2. \A o \in Orders : Hold(t, o) = Hold(s, o)
  BY <1>1 DEF Hold
<1>3. HoldsOf(t, Orders) = HoldsOf(s, Orders)
  <2>1. [o \in Orders |-> Hold(t, o)] = [o \in Orders |-> Hold(s, o)]
    BY <1>2
  <2> QED
    BY <2>1 DEF HoldsOf
<1>4. Uncommitted(t, Orders) = Uncommitted(s, Orders)
  BY <1>3 DEF Uncommitted
<1>5. Uncommitted(s, Orders) \in Int
  BY UncommittedType
<1> QED
  BY <1>4, <1>5 DEF NoMorePromised

\* A hold is a quantity.
LEMMA HoldIsQuantity ==
  ASSUME NEW s, Sound(s), NEW o \in Orders
  PROVE  Hold(s, o) \in Int /\ Hold(s, o) >= 0
<1>1. s \in States
  BY DEF Sound
<1>2. Hold(s, o) \in Int /\ s.demands[o].reserved \in Nat /\ Allocated(s, o) \in Nat
  BY <1>1, HoldType, AllocatedType, TableRows, RowColumns
<1>3. s.demands[o].state = "ACTIVE" => Allocated(s, o) <= s.demands[o].reserved
  BY DEF Sound, DemandsHold
<1> QED
  BY <1>2, <1>3 DEF Hold

\* An order without allocations holds all its demand reserves.
LEMMA NothingAllocated ==
  ASSUME NEW s, NEW o, Rows(s, o) = {}
  PROVE  Allocated(s, o) = 0 /\ Untouched(s, o)
  BY SumEmpty DEF Allocated, Untouched

\* Setting the hold of an order to what it has allocated, and to what is free
\* beyond that up to the target, promises no more and leaves the others alone.
LEMMA HeldPromises ==
  ASSUME NEW s, Sound(s), NEW t, Sound(t), NEW o \in Orders, SameButDemands(s, t),
         \A p \in Orders \ {o} : t.demands[p] = s.demands[p],
         Hold(t, o) <= Free(s, o)
  PROVE  NoMorePromised(s, t) /\ KeepsTurns(s, t, o)
<1>1. s \in States /\ t \in States
  BY DEF Sound
<1>2. PICK x, y, h, k, f : /\ x = Uncommitted(s, Orders) /\ y = Uncommitted(t, Orders)
                           /\ h = Hold(s, o) /\ k = Hold(t, o) /\ f = Free(s, o)
  OBVIOUS
<1>3. y = x + h - k
  BY <1>1, <1>2, OneHoldChanges
<1>4. f = IF x + h < 0 THEN 0 ELSE x + h
  BY <1>1, <1>2, FreeIs DEF AtLeastZero
<1>5. x \in Int /\ y \in Int /\ h \in Int /\ k \in Int /\ h >= 0 /\ k >= 0 /\ k <= f
  BY <1>1, <1>2, UncommittedType, HoldIsQuantity
<1>6. y >= 0 \/ y >= x
  BY ONLY <1>3, <1>4, <1>5
<1>7. \A p : Untouched(t, p) = Untouched(s, p)
  BY DemandsApart
<1>8. KeepsTurns(s, t, o)
  BY <1>7, OthersLeftAlone DEF SameButDemands, SameLines
<1> QED
  BY <1>2, <1>6, <1>8 DEF NoMorePromised

\* Setting a hold anew.
LEMMA ReconciledPromises ==
  ASSUME NEW s, Sound(s), NEW o \in Orders, NEW target \in Nat,
         Allocated(s, o) <= target, target <= s.demands[o].ordered
  PROVE  LET t == Reconciled(s, o, target)
         IN /\ NoMorePromised(s, t) /\ KeepsTurns(s, t, o)
<1>1. PICK t, held : /\ t = Reconciled(s, o, target)
                     /\ held = Clamp(Allocated(s, o) + Free(s, o), Allocated(s, o), target)
  OBVIOUS
<1>2. s \in States /\ Sound(t) /\ SameButDemands(s, t)
  BY <1>1, ReconciledSound DEF Sound
<1>3. /\ \A p \in Orders \ {o} : t.demands[p] = s.demands[p]
      /\ t.demands[o].state = s.demands[o].state /\ t.demands[o].reserved = held
  <2>1. /\ \A p \in Orders \ {o} : t.demands[p] = s.demands[p]
        /\ t.demands[o] = [state |-> s.demands[o].state, ordered |-> s.demands[o].ordered,
                           target |-> target, reserved |-> held,
                           backordered |-> target - held]
    BY <1>1, <1>2, ReconciledRow
  <2> QED
    BY <2>1
<1>4. Allocated(s, o) \in Nat /\ Free(s, o) \in Nat
  BY <1>2, AllocatedType, FreeIs
<1>5. held - Allocated(s, o) <= Free(s, o) /\ held \in Nat
  <2>1. PICK a, f : a = Allocated(s, o) /\ f = Free(s, o)
    OBVIOUS
  <2>2. a \in Nat /\ f \in Nat /\ a <= target /\ held = Clamp(a + f, a, target)
    BY <1>1, <1>4, <2>1
  <2>3. held - a <= f /\ held \in Nat
    BY ONLY <2>2, target \in Nat DEF Clamp
  <2> QED
    BY <2>1, <2>3
<1>6. Hold(t, o) <= Free(s, o)
  <2>1. Allocated(t, o) = Allocated(s, o)
    BY <1>2, DemandsApart
  <2> QED
    BY <1>3, <1>4, <1>5, <2>1 DEF Hold
<1> QED
  BY <1>1, <1>2, <1>3, <1>6, HeldPromises

\* Writing the demand of an order that has no allocations.
LEMMA WithDemandPromises ==
  ASSUME NEW s, Sound(s), NEW o \in Orders, Rows(s, o) = {}, NEW ordered \in Nat
  PROVE  LET t == WithDemand(s, o, ordered)
         IN /\ SameButDemands(s, t) /\ NoMorePromised(s, t) /\ KeepsTurns(s, t, o)
            /\ \A p \in Orders \ {o} : t.demands[p] = s.demands[p]
            /\ t.demands[o].state = "ACTIVE"
<1>1. PICK t, held : /\ t = WithDemand(s, o, ordered)
                     /\ held = IF ordered < Free(s, o) THEN ordered ELSE Free(s, o)
  OBVIOUS
<1>2. s \in States /\ Sound(t)
  BY <1>1, WithDemandSound DEF Sound
<1>3. PICK row : row = [state |-> "ACTIVE", ordered |-> ordered, target |-> ordered,
                        reserved |-> held, backordered |-> ordered - held]
  OBVIOUS
<1>4. s = [onHand |-> s.onHand, reserved |-> s.reserved, status |-> s.status,
           queue |-> s.queue, demands |-> s.demands,
           allocations |-> s.allocations, deliveries |-> s.deliveries]
  BY <1>2 DEF States
<1>5. t = [s EXCEPT !.demands[o] = row]
  BY <1>1, <1>3 DEF WithDemand
<1>6. t = [onHand |-> s.onHand, reserved |-> s.reserved, status |-> s.status,
           queue |-> s.queue, demands |-> [s.demands EXCEPT ![o] = row],
           allocations |-> s.allocations, deliveries |-> s.deliveries]
  BY <1>4, <1>5
<1>7. SameButDemands(s, t) /\ t.demands = [s.demands EXCEPT ![o] = row]
  BY <1>6 DEF SameButDemands
<1>8. (\A p \in Orders \ {o} : t.demands[p] = s.demands[p]) /\ t.demands[o] = row
  BY <1>2, <1>7, Columns
<1>9. t.demands[o].state = "ACTIVE" /\ t.demands[o].reserved = held
  BY <1>3, <1>8
<1>10. held \in Nat /\ held <= Free(s, o)
  <2>1. Free(s, o) \in Nat
    BY <1>2, FreeIs
  <2> QED
    BY <1>1, <2>1
<1>11. Hold(t, o) <= Free(s, o)
  <2>1. Allocated(t, o) = 0
    BY <1>7, DemandsApart, NothingAllocated
  <2>2. Hold(t, o) = held - 0
    BY <1>9, <2>1 DEF Hold
  <2> QED
    BY <1>10, <2>2
<1>12. NoMorePromised(s, t) /\ KeepsTurns(s, t, o)
  BY <1>2, <1>7, <1>8, <1>11, HeldPromises
<1> QED
  BY <1>1, <1>7, <1>8, <1>9, <1>12

\* Releasing the allocations of an order whose delivery orders are all cancelled
\* gives its stock back, to its own hold while its demand is active.
LEMMA AllocationsReleasedPromises ==
  ASSUME NEW s, Sound(s), NEW o \in Orders,
         \A d \in DOMAIN s.deliveries :
           s.deliveries[d].order = o => s.deliveries[d].status = "cancelled"
  PROVE  LET t == AllocationsReleased(s, o)
         IN NoMorePromised(s, t) /\ KeepsTurns(s, t, o)
<1>1. PICK t, g : /\ t = AllocationsReleased(s, o)
                  /\ g = [l \in Locations |-> GivenBack(s, o, l)]
  OBVIOUS
<1>2. /\ s \in States /\ Sound(t) /\ t \in States /\ Rows(t, o) = {}
      /\ t.onHand = s.onHand /\ t.status = s.status /\ t.queue = s.queue
      /\ t.demands = s.demands /\ t.deliveries = s.deliveries
  BY <1>1, AllocationsReleasedSound DEF Sound
<1>3. /\ t.reserved = [l \in Locations |-> s.reserved[l] - GivenBack(s, o, l)]
      /\ t.allocations = [a \in DOMAIN s.allocations |-> ReleasedRow(s, o, a)]
  BY <1>1, <1>2, ReleasedFields
<1>4. \A p \in Orders \ {o} :
        /\ Rows(t, p) = Rows(s, p)
        /\ \A a \in Rows(s, p) : t.allocations[a] = s.allocations[a]
  <2> SUFFICES ASSUME NEW p \in Orders \ {o}
               PROVE  /\ Rows(t, p) = Rows(s, p)
                      /\ \A a \in Rows(s, p) : t.allocations[a] = s.allocations[a]
    OBVIOUS
  <2>1. \A a \in DOMAIN s.allocations :
          IF a \in Rows(s, o)
            THEN /\ s.allocations[a].order = o
                 /\ t.allocations[a].state = "RELEASED" /\ t.allocations[a].order = o
            ELSE t.allocations[a] = s.allocations[a]
    <3> SUFFICES ASSUME NEW a \in DOMAIN s.allocations
                 PROVE  IF a \in Rows(s, o)
                          THEN /\ s.allocations[a].order = o
                               /\ t.allocations[a].state = "RELEASED" /\ t.allocations[a].order = o
                          ELSE t.allocations[a] = s.allocations[a]
      OBVIOUS
    <3>1. t.allocations[a] = ReleasedRow(s, o, a)
      BY <1>3
    <3>2. a \in Rows(s, o) => s.allocations[a].order = o
      BY DEF Rows
    <3> QED
      BY <3>1, <3>2, ReleasedRowHolds
  <2>2. DOMAIN t.allocations = DOMAIN s.allocations
    BY <1>3
  <2> QED
    BY <2>1, <2>2 DEF Rows
<1>5. \A p \in Orders \ {o} : Hold(t, p) = Hold(s, p)
  <2> SUFFICES ASSUME NEW p \in Orders \ {o} PROVE Hold(t, p) = Hold(s, p)
    OBVIOUS
  <2>1. [a \in Rows(t, p) |-> t.allocations[a].quantity]
          = [a \in Rows(s, p) |-> s.allocations[a].quantity]
    BY <1>4
  <2>2. Allocated(t, p) = Allocated(s, p)
    BY <1>4, <2>1 DEF Allocated
  <2> QED
    BY <1>2, <2>2 DEF Hold
<1>6. \A p \in Orders \ {o} : Untouched(s, p) => Untouched(t, p)
  <2>1. \A a, st : OnDeliveries(t, a, st) = OnDeliveries(s, a, st)
    BY <1>2 DEF OnDeliveries
  <2> QED
    BY <1>4, <2>1 DEF Untouched
<1>7. KeepsTurns(s, t, o)
  BY <1>2, <1>6, OthersLeftAlone DEF SameLines
<1>8. Total(g) = Allocated(s, o)
  <2>1. \A a \in Rows(s, o) : s.allocations[a].consumed = 0
    <3>1. \A a \in Rows(s, o) : a \in DOMAIN s.allocations /\ s.allocations[a].order = o
      BY DEF Rows
    <3> QED
      BY <3>1, NothingClaimed
  <2> QED
    BY <1>1, <2>1, GivenBackInAll
<1>9. Total(s.reserved) = Total(t.reserved) + Total(g) /\ Total(t.reserved) \in Int
  <2>1. \A l \in Locations : g[l] \in Int
    <3>1. \A l \in Locations : GivenBack(s, o, l) \in Nat
      BY GivenBackIs
    <3> QED
      BY <1>1, <3>1
  <2>2. \A l \in Locations : t.reserved[l] \in Int
    BY <1>2, Columns
  <2>3. \A l \in Locations : s.reserved[l] = t.reserved[l] + g[l]
    <3> SUFFICES ASSUME NEW l \in Locations PROVE s.reserved[l] = t.reserved[l] + g[l]
      OBVIOUS
    <3>1. t.reserved[l] = s.reserved[l] - g[l] /\ s.reserved[l] \in Nat /\ g[l] \in Int
      BY <1>1, <1>2, <1>3, <2>1, Columns
    <3> QED
      BY <3>1
  <2>4. PICK f, h : f = t.reserved /\ h = s.reserved
    OBVIOUS
  <2>5. /\ \A l \in Locations : f[l] \in Int
        /\ \A l \in Locations : h[l] = f[l] + g[l]
    BY <2>2, <2>3, <2>4
  <2>6. Total(h) = Total(f) + Total(g) /\ Total(f) \in Int
    BY ONLY <2>1, <2>5, TotalOfTwo
  <2> QED
    BY <2>4, <2>6
<1>10. HoldsOf(t, Orders) = HoldsOf(s, Orders) + Hold(t, o) - Hold(s, o)
  BY <1>2, <1>5, HoldsChange
<1>11. Hold(t, o) - Hold(s, o) <= Allocated(s, o)
  <2>1. Allocated(t, o) = 0
    BY <1>2, NothingAllocated
  <2>2. Allocated(s, o) \in Nat /\ s.demands[o].reserved \in Nat
    BY <1>2, AllocatedType, TableRows, RowColumns
  <2> QED
    BY <1>2, <2>1, <2>2 DEF Hold
<1>12. NoMorePromised(s, t)
  <2>1. PICK h, r, r1, k, k1, a, x, x1 :
           /\ h = Total(s.onHand) /\ r = Total(s.reserved) /\ r1 = Total(t.reserved)
           /\ k = HoldsOf(s, Orders) /\ k1 = HoldsOf(t, Orders) /\ a = Allocated(s, o)
           /\ x = Hold(s, o) /\ x1 = Hold(t, o)
    OBVIOUS
  <2>2. /\ h \in Int /\ r \in Int /\ r1 \in Int /\ k \in Int /\ k1 \in Int /\ a \in Nat
        /\ x \in Int /\ x1 \in Int
    BY <1>2, <2>1, UncommittedType, AllocatedType, HoldType
  <2>3. r = r1 + a /\ k1 = k + x1 - x /\ x1 - x <= a
    BY <1>8, <1>9, <1>10, <1>11, <2>1
  <2>4. h - r1 - k1 >= h - r - k
    BY ONLY <2>2, <2>3
  <2> QED
    BY <1>2, <2>1, <2>4 DEF Uncommitted, NoMorePromised
<1> QED
  BY <1>1, <1>7, <1>12

\* Unwinding the execution of an order keeps turns, and when nothing of it has
\* left, it changes no demand and promises no more.
LEMMA ReleasedPromises ==
  ASSUME NEW s, Sound(s), InQueueOnce(s), NEW o \in Orders,
         \A d \in DOMAIN s.deliveries :
           s.deliveries[d].order = o => s.deliveries[d].status # "handed_over"
  PROVE  LET t == Released(s, o)
         IN /\ KeepsTurns(s, t, o)
            /\ NothingShipped(s, o) => t.demands = s.demands /\ NoMorePromised(s, t)
<1>1. PICK u, t : u = DeliveriesUnwound(s, o) /\ t = AllocationsReleased(u, o)
  OBVIOUS
<1>2. Sound(u) /\ UnwoundTo(s, o, u, Len(s.deliveries))
  BY <1>1, DeliveriesUnwoundSound
<1>3. \A d \in DOMAIN u.deliveries : u.deliveries[d].order = o => u.deliveries[d].status = "cancelled"
  <2>1. \A d \in DOMAIN s.deliveries : d <= Len(s.deliveries)
    <3>1. Len(s.deliveries) \in Nat /\ DOMAIN s.deliveries = 1..Len(s.deliveries)
      BY TableRows DEF Sound
    <3> QED
      BY <3>1
  <2> QED
    BY <1>2, <2>1 DEF UnwoundTo
<1>4. /\ KeepsTurns(s, u, o)
      /\ NothingShipped(s, o) => SameButDeliveries(s, u)
  BY <1>1, DeliveriesUnwoundKeepsTurns
<1>5. Sound(t) /\ t.demands = u.demands
  BY <1>1, <1>2, <1>3, AllocationsReleasedSound
<1>6. NoMorePromised(u, t) /\ KeepsTurns(u, t, o)
  BY <1>1, <1>2, <1>3, AllocationsReleasedPromises
<1>7. KeepsTurns(s, t, o)
  BY <1>2, <1>4, <1>5, <1>6, TurnsKeptOn
<1>8. ASSUME NothingShipped(s, o)
      PROVE  t.demands = s.demands /\ NoMorePromised(s, t)
  <2>1. SameButDeliveries(s, u) /\ s \in States /\ u \in States /\ t \in States
    BY <1>2, <1>4, <1>5, <1>8 DEF Sound
  <2>2. NoMorePromised(s, u)
    <3>1. SameQuantities(s, u)
      BY <2>1 DEF SameButDeliveries, SameQuantities
    <3>2. u.demands = s.demands
      BY <2>1 DEF SameButDeliveries
    <3>3. Total(u.onHand) - Total(u.reserved) = Total(s.onHand) - Total(s.reserved)
      BY <2>1 DEF SameButDeliveries
    <3> QED
      BY <2>1, <3>1, <3>2, <3>3, SamePromises
  <2> QED
    BY <1>5, <1>6, <2>1, <2>2, PromisesOn DEF SameButDeliveries
<1> QED
  BY <1>1, <1>7, <1>8 DEF Released

\* An order that is cancelled without allocations gives up its hold.
LEMMA CancelledPromises ==
  ASSUME NEW s, Sound(s), NEW o \in Orders, Rows(s, o) = {},
         NEW t, Sound(t), t.onHand = s.onHand, t.reserved = s.reserved, t.queue = s.queue,
         t.allocations = s.allocations, t.deliveries = s.deliveries,
         \A p \in Orders \ {o} : t.status[p] = s.status[p],
         \A p \in Orders \ {o} : t.demands[p] = s.demands[p],
         t.demands[o].state = "CANCELLED"
  PROVE  NoMorePromised(s, t) /\ KeepsTurns(s, t, o)
<1>1. s \in States /\ t \in States
  BY DEF Sound
<1>2. /\ \A p : Allocated(t, p) = Allocated(s, p)
      /\ \A p : Untouched(t, p) = Untouched(s, p)
  <2>1. \A p : Rows(t, p) = Rows(s, p)
    BY DEF Rows
  <2>2. \A a, st : OnDeliveries(t, a, st) = OnDeliveries(s, a, st)
    BY DEF OnDeliveries
  <2> QED
    BY <2>1, <2>2 DEF Allocated, Untouched
<1>3. \A p \in Orders \ {o} : Hold(t, p) = Hold(s, p)
  BY <1>2 DEF Hold
<1>4. HoldsOf(t, Orders) = HoldsOf(s, Orders) + Hold(t, o) - Hold(s, o)
  BY <1>1, <1>3, HoldsChange
<1>5. Hold(t, o) = 0 /\ Hold(s, o) \in Int /\ Hold(s, o) >= 0
  BY HoldIsQuantity DEF Hold
<1>6. NoMorePromised(s, t)
  <2>1. PICK h, r, k, k1, x :
           /\ h = Total(s.onHand) /\ r = Total(s.reserved)
           /\ k = HoldsOf(s, Orders) /\ k1 = HoldsOf(t, Orders) /\ x = Hold(s, o)
    OBVIOUS
  <2>2. h \in Int /\ r \in Int /\ k \in Int /\ x \in Int /\ x >= 0 /\ k1 = k + 0 - x
    BY <1>1, <1>4, <1>5, <2>1, UncommittedType
  <2>3. h - r - k1 >= h - r - k
    BY ONLY <2>2
  <2> QED
    BY <2>1, <2>3 DEF Uncommitted, NoMorePromised
<1> QED
  BY <1>2, <1>6, OthersLeftAlone DEF SameLines

-----------------------------------------------------------------------------
(* The turns of the orders, step by step.                                  *)

\* What else the tables keep: an order is queued once and is no draft any more,
\* a draft holds nothing, and a delivery order takes something.
OrdersHold(s) ==
  /\ InQueueOnce(s)
  /\ \A i \in 1..Len(s.queue) : s.status[s.queue[i]] # "draft"
  /\ \A o \in Orders : s.status[o] = "draft" => s.demands[o].reserved = 0
  /\ \A d \in DOMAIN s.deliveries :
       \E a \in 1..MaxAllocations : s.deliveries[d].lines[a] > 0

OInv == OrdersHold(State)

\* From s to t no order other than o loses any of its hold, and one of them
\* gains only when no older one waits any more.
InTurn(s, t, o) ==
  /\ \A p \in Orders \ {o} : t.demands[p].reserved >= s.demands[p].reserved
  /\ \A i \in 1..Len(s.queue) : t.queue[i] = s.queue[i]
  /\ \A i, j \in 1..Len(s.queue) :
       /\ i < j /\ s.queue[j] # o /\ Pending(s, s.queue[i])
       /\ t.demands[s.queue[j]].reserved > s.demands[s.queue[j]].reserved
       => ~Pending(t, s.queue[i])

\* There is more than orders.
LEMMA NotAnOrder == \E o : o \notin Orders
<1>1. PICK r : r = {x \in Orders : x \notin x}
  OBVIOUS
<1>2. r \notin Orders
  BY <1>1
<1> QED
  BY <1>2

\* A committed transaction leaves its tables.
LEMMA CommitIs ==
  ASSUME NEW s \in States, Commit(s)
  PROVE  State' = s
<1>1. s = [onHand |-> s.onHand, reserved |-> s.reserved, status |-> s.status,
           queue |-> s.queue, demands |-> s.demands,
           allocations |-> s.allocations, deliveries |-> s.deliveries]
  BY DEF States
<1> QED
  BY <1>1 DEF State, Commit

\* No order becomes a draft, and what a draft holds does not change.
LEMMA OrdersHoldOn ==
  ASSUME NEW s, Sound(s), OrdersHold(s), NEW t, t.queue = s.queue, SameLines(s, t),
         \A p \in Orders : t.status[p] = "draft" =>
           s.status[p] = "draft" /\ t.demands[p].reserved = s.demands[p].reserved
  PROVE  OrdersHold(t)
<1>1. \A i \in 1..Len(s.queue) : s.queue[i] \in Orders
  BY TableRows DEF Sound
<1>2. InQueueOnce(t)
  BY DEF OrdersHold, InQueueOnce
<1>3. \A i \in 1..Len(t.queue) : t.status[t.queue[i]] # "draft"
  BY <1>1 DEF OrdersHold
<1>4. \A o \in Orders : t.status[o] = "draft" => t.demands[o].reserved = 0
  BY DEF OrdersHold
<1>5. \A d \in DOMAIN t.deliveries :
        \E a \in 1..MaxAllocations : t.deliveries[d].lines[a] > 0
  BY DEF OrdersHold, SameLines
<1> QED
  BY <1>2, <1>3, <1>4, <1>5 DEF OrdersHold

\* Keeping turns keeps the rest of it.
LEMMA TurnsHold ==
  ASSUME NEW s, Sound(s), OrdersHold(s), NEW t, NEW o, KeepsTurns(s, t, o),
         o \in Orders => t.status[o] # "draft"
  PROVE  OrdersHold(t)
<1>1. \A p \in Orders : t.status[p] = "draft" =>
        s.status[p] = "draft" /\ t.demands[p].reserved = s.demands[p].reserved
  <2> SUFFICES ASSUME NEW p \in Orders, t.status[p] = "draft"
               PROVE  s.status[p] = "draft" /\ t.demands[p].reserved = s.demands[p].reserved
    OBVIOUS
  <2>1. p \in Orders \ {o}
    OBVIOUS
  <2> QED
    BY <2>1 DEF KeepsTurns
<1> QED
  BY <1>1, OrdersHoldOn DEF KeepsTurns

\* The turns are kept among the others; o itself waits no more when a younger
\* order gains.
LEMMA TurnsAreInTurn ==
  ASSUME NEW s, Sound(s), NEW t, NEW o, KeepsTurns(s, t, o),
         \A i, j \in 1..Len(s.queue) :
           /\ i < j /\ s.queue[i] = o /\ s.queue[j] # o /\ Pending(s, o)
           /\ t.demands[s.queue[j]].reserved > s.demands[s.queue[j]].reserved
           => ~Pending(t, o)
  PROVE  InTurn(s, t, o)
<1>1. \A p : t.demands[p].backordered = 0 => ~Pending(t, p)
  BY DEF Pending
<1>2. ASSUME NEW i \in 1..Len(s.queue), NEW j \in 1..Len(s.queue),
             i < j, s.queue[j] # o, Pending(s, s.queue[i]),
             t.demands[s.queue[j]].reserved > s.demands[s.queue[j]].reserved
      PROVE  ~Pending(t, s.queue[i])
  <2>1. CASE s.queue[i] = o
    BY <1>2, <2>1
  <2>2. CASE s.queue[i] # o
    <3>1. t.demands[s.queue[i]].backordered = 0
      BY <1>2, <2>2 DEF KeepsTurns
    <3> QED
      BY <1>1, <3>1
  <2> QED
    BY <2>1, <2>2
<1> QED
  BY <1>2 DEF InTurn, KeepsTurns

\* Keeping turns for whatever is not an order keeps them for all.
LEMMA TurnsOfAll ==
  ASSUME NEW s, Sound(s), NEW t, NEW o, o \notin Orders, KeepsTurns(s, t, o)
  PROVE  InTurn(s, t, o)
<1>1. \A i \in 1..Len(s.queue) : s.queue[i] # o
  BY TableRows DEF Sound
<1> QED
  BY <1>1, TurnsAreInTurn

\* A step that changes no demand but that of o is in turn.
LEMMA QuietInTurn ==
  ASSUME NEW s, Sound(s), NEW t, NEW o, t.queue = s.queue,
         \A p \in Orders \ {o} : t.demands[p] = s.demands[p]
  PROVE  InTurn(s, t, o)
<1>1. \A i \in 1..Len(s.queue) : s.queue[i] \in Orders
  BY TableRows DEF Sound
<1>2. \A p \in Orders \ {o} : s.demands[p].reserved \in Nat
  BY TableRows, RowColumns DEF Sound
<1>3. \A p \in Orders \ {o} : /\ t.demands[p].reserved >= s.demands[p].reserved
                              /\ ~(t.demands[p].reserved > s.demands[p].reserved)
  BY <1>2
<1> QED
  BY <1>1, <1>3 DEF InTurn

\* Nothing has been shipped of an order nobody has worked for.
LEMMA NothingShippedYet ==
  ASSUME NEW s, Sound(s), OrdersHold(s), NEW o, Untouched(s, o)
  PROVE  NothingShipped(s, o)
<1> SUFFICES ASSUME NEW d \in DOMAIN s.deliveries, s.deliveries[d].order = o,
                    s.deliveries[d].status \in Shipped
             PROVE  FALSE
  BY DEF NothingShipped
<1>1. PICK a \in 1..MaxAllocations : s.deliveries[d].lines[a] > 0
  BY DEF OrdersHold
<1>2. a \in DOMAIN s.allocations /\ s.allocations[a].order = o
  BY <1>1 DEF Sound, LinesHold
<1>3. /\ s.deliveries[d].lines[a] \in Nat
      /\ OnDeliveries(s, a, Shipped) \in Nat /\ Claimed(s, a) \in Nat
      /\ s.deliveries[d].lines[a] <= OnDeliveries(s, a, Shipped)
      /\ OnDeliveries(s, a, Shipped) <= Claimed(s, a)
  BY LineType, OnDeliveriesType DEF Claimed
<1>4. s.allocations[a].packed \in Nat /\ Claimed(s, a) <= s.allocations[a].packed
  <2>1. s.allocations[a].packed \in Nat
    BY <1>2, RowColumnsFit, RowColumns
  <2> QED
    BY <1>2, <2>1 DEF Sound, ShipmentsHold
<1>5. PICK x, y, c, p : /\ x = s.deliveries[d].lines[a] /\ y = OnDeliveries(s, a, Shipped)
                        /\ c = Claimed(s, a) /\ p = s.allocations[a].packed
  OBVIOUS
<1>6. x \in Nat /\ y \in Nat /\ c \in Nat /\ p \in Nat /\ x > 0 /\ x <= y /\ y <= c /\ c <= p
  BY <1>1, <1>3, <1>4, <1>5
<1>7. y # 0 /\ p # 0
  BY ONLY <1>6
<1>8. s.allocations[a].state # "RELEASED"
  BY <1>2, <1>5, <1>7 DEF Sound, RowsHold
<1>9. a \in Rows(s, o)
  BY <1>2, <1>8 DEF Rows
<1> QED
  BY <1>5, <1>7, <1>9 DEF Untouched

\* A step that leaves stock, demands and quantities alone promises nothing and
\* is in turn.
LEMMA QuietStep ==
  ASSUME NEW s, Sound(s), OrdersHold(s), NEW t, Sound(t), SameQuantities(s, t),
         t.demands = s.demands, t.queue = s.queue, SameLines(s, t),
         \A p \in Orders : t.status[p] = "draft" => s.status[p] = "draft",
         Total(t.onHand) - Total(t.reserved) = Total(s.onHand) - Total(s.reserved)
  PROVE  OrdersHold(t) /\ NoMorePromised(s, t) /\ \A o : InTurn(s, t, o)
<1>1. OrdersHold(t)
  BY OrdersHoldOn
<1>2. NoMorePromised(s, t)
  <2>1. s \in States /\ t \in States
    BY DEF Sound
  <2> QED
    BY <2>1, SamePromises
<1>3. \A o : InTurn(s, t, o)
  BY QuietInTurn
<1> QED
  BY <1>1, <1>2, <1>3

\* The tables after a step.
LEMMA NextTables ==
  /\ State'.onHand = onHand' /\ State'.reserved = reserved' /\ State'.status = status'
  /\ State'.queue = queue' /\ State'.demands = demands'
  /\ State'.allocations = allocations' /\ State'.deliveries = deliveries'
  BY DEF State

\* Cancelling a draft.
LEMMA CancelDraftFair ==
  ASSUME SInv, OInv, NEW o \in Orders, CancelDraft(o)
  PROVE  /\ OrdersHold(State') /\ NoMorePromised(State, State')
         /\ InTurn(State, State', o)
<1>1. PICK s, t : s = State /\ t = State'
  OBVIOUS
<1>2. Sound(s) /\ OrdersHold(s) /\ Sound(t)
  <2>1. SInv'
    BY CancelDraftSound
  <2> QED
    BY <1>1, <2>1 DEF SInv, OInv
<1>3. /\ t.onHand = s.onHand /\ t.reserved = s.reserved /\ t.queue = s.queue
      /\ t.demands = s.demands /\ t.allocations = s.allocations /\ t.deliveries = s.deliveries
      /\ t.status = [s.status EXCEPT ![o] = "cancelled"]
  BY <1>1, Tables, NextTables DEF CancelDraft
<1>4. \A p \in Orders : t.status[p] = "draft" => s.status[p] = "draft"
  <2>1. s.status \in [Orders -> {"draft", "confirmed", "cancelled"}]
    BY <1>2, Columns DEF Sound
  <2> QED
    BY <1>3, <2>1
<1>5. SameQuantities(s, t) /\ SameLines(s, t)
  BY <1>3 DEF SameQuantities, SameLines
<1>6. OrdersHold(t) /\ NoMorePromised(s, t) /\ InTurn(s, t, o)
  BY <1>2, <1>3, <1>4, <1>5, QuietStep
<1> QED
  BY <1>1, <1>6

\* Warehouse work on one allocation.
LEMMA AllocationStepFair ==
  ASSUME SInv, OInv, NEW a \in DOMAIN allocations, NEW q \in Quantities, AllocationStep(a, q)
  PROVE  /\ OrdersHold(State') /\ NoMorePromised(State, State')
         /\ \A o : InTurn(State, State', o)
<1>1. PICK s, t, row : s = State /\ t = State' /\ row = allocations[a]
  OBVIOUS
<1>2. Sound(s) /\ OrdersHold(s) /\ Sound(t)
  <2>1. SInv'
    BY AllocationStepSound
  <2> QED
    BY <1>1, <2>1 DEF SInv, OInv
<1>3. a \in DOMAIN s.allocations /\ row = s.allocations[a] /\ row \in Allocations
  BY <1>1, <1>2, Tables, RowColumnsFit
<1>4. PICK new : /\ Progress(a, new) /\ new.order = row.order /\ new.location = row.location
                 /\ new.quantity = row.quantity
                 /\ new.state = "RELEASED" <=> row.state = "RELEASED"
  <2>1. CASE Pick(a, q)
    <3>1. PICK new : new = [row EXCEPT !.picked = @ + q]
      OBVIOUS
    <3>2. /\ new.order = row.order /\ new.location = row.location
          /\ new.quantity = row.quantity /\ new.state = row.state
      BY ONLY <1>3, <3>1 DEF Allocations
    <3> QED
      BY <1>1, <2>1, <3>1, <3>2 DEF Pick
  <2>2. CASE Pack(a, q)
    <3>1. PICK state : state = IF row.packed + q = row.quantity THEN "COMPLETED" ELSE row.state
      OBVIOUS
    <3>2. PICK new : new = [row EXCEPT !.packed = @ + q, !.state = state]
      OBVIOUS
    <3>3. /\ new.order = row.order /\ new.location = row.location
          /\ new.quantity = row.quantity /\ new.state = state
      BY ONLY <1>3, <3>2 DEF Allocations
    <3>4. row.state = "ACTIVE" /\ Progress(a, new)
      BY <1>1, <2>2, <3>1, <3>2 DEF Pack
    <3> QED
      BY <3>1, <3>3, <3>4
  <2>3. CASE ReversePick(a, q)
    <3>1. PICK new : new = [row EXCEPT !.picked = @ - q]
      OBVIOUS
    <3>2. /\ new.order = row.order /\ new.location = row.location
          /\ new.quantity = row.quantity /\ new.state = row.state
      BY ONLY <1>3, <3>1 DEF Allocations
    <3> QED
      BY <1>1, <2>3, <3>1, <3>2 DEF ReversePick
  <2>4. CASE ReversePack(a, q)
    <3>1. PICK state : state = IF row.state = "COMPLETED" THEN "ACTIVE" ELSE row.state
      OBVIOUS
    <3>2. PICK new : new = [row EXCEPT !.packed = @ - q, !.state = state]
      OBVIOUS
    <3>3. /\ new.order = row.order /\ new.location = row.location
          /\ new.quantity = row.quantity /\ new.state = state
      BY ONLY <1>3, <3>2 DEF Allocations
    <3>4. Progress(a, new)
      BY <1>1, <2>4, <3>1, <3>2 DEF ReversePack
    <3> QED
      BY <3>1, <3>3, <3>4
  <2> QED
    BY <2>1, <2>2, <2>3, <2>4 DEF AllocationStep
<1>5. /\ t.onHand = s.onHand /\ t.reserved = s.reserved /\ t.queue = s.queue
      /\ t.demands = s.demands /\ t.status = s.status /\ t.deliveries = s.deliveries
      /\ t.allocations = [s.allocations EXCEPT ![a] = new]
  BY <1>1, <1>4, Tables, NextTables DEF Progress
<1>6. SameQuantities(s, t)
  <2> SUFFICES ASSUME NEW b \in DOMAIN s.allocations
               PROVE  /\ t.allocations[b].order = s.allocations[b].order
                      /\ t.allocations[b].location = s.allocations[b].location
                      /\ t.allocations[b].quantity = s.allocations[b].quantity
                      /\ t.allocations[b].state = "RELEASED" <=>
                           s.allocations[b].state = "RELEASED"
    BY <1>5 DEF SameQuantities
  <2>1. t.allocations[b] = IF b = a THEN new ELSE s.allocations[b]
    BY <1>5
  <2> QED
    BY <1>3, <1>4, <2>1
<1>7. SameLines(s, t)
  BY <1>5 DEF SameLines
<1>8. OrdersHold(t) /\ NoMorePromised(s, t) /\ \A o : InTurn(s, t, o)
  BY <1>2, <1>5, <1>6, <1>7, QuietStep
<1> QED
  BY <1>1, <1>8

\* A delivery order that moves on without an issue.
LEMMA SetDeliveryFair ==
  ASSUME SInv, OInv, SInv', NEW d \in DOMAIN deliveries, NEW from, NEW to,
         SetDelivery(d, from, to)
  PROVE  /\ OrdersHold(State') /\ NoMorePromised(State, State')
         /\ \A o : InTurn(State, State', o)
<1>1. PICK s, t : s = State /\ t = State'
  OBVIOUS
<1>2. Sound(s) /\ OrdersHold(s) /\ Sound(t) /\ d \in DOMAIN s.deliveries
  BY <1>1, Tables DEF SInv, OInv
<1>3. /\ t.onHand = s.onHand /\ t.reserved = s.reserved /\ t.queue = s.queue
      /\ t.demands = s.demands /\ t.status = s.status /\ t.allocations = s.allocations
      /\ t.deliveries = [s.deliveries EXCEPT ![d].status = to]
  BY <1>1, Tables, NextTables DEF SetDelivery
<1>4. SameQuantities(s, t)
  BY <1>3 DEF SameQuantities
<1>5. SameLines(s, t)
  BY <1>2, <1>3, StatusKeepsLines
<1>6. OrdersHold(t) /\ NoMorePromised(s, t) /\ \A o : InTurn(s, t, o)
  BY <1>2, <1>3, <1>4, <1>5, QuietStep
<1> QED
  BY <1>1, <1>6

\* A new delivery order.
LEMMA CreateDeliveryFair ==
  ASSUME SInv, OInv, NEW o \in Orders, CreateDelivery(o)
  PROVE  /\ OrdersHold(State') /\ NoMorePromised(State, State')
         /\ InTurn(State, State', o)
<1>1. PICK s, t : s = State /\ t = State'
  OBVIOUS
<1>2. Sound(s) /\ OrdersHold(s) /\ Sound(t) /\ s \in States /\ t \in States
  <2>1. SInv'
    BY CreateDeliverySound
  <2> QED
    BY <1>1, <2>1 DEF SInv, OInv, Sound
<1>3. PICK lines \in [1..MaxAllocations -> Quantities \union {0}] :
        /\ \E a \in Rows(s, o) : lines[a] > 0
        /\ \A a \in 1..MaxAllocations : lines[a] > 0 => a \in Rows(s, o)
        /\ deliveries' = Append(deliveries, [order |-> o, lines |-> lines, status |-> "draft"])
  BY <1>1 DEF CreateDelivery
<1>4. PICK new : new = [order |-> o, lines |-> lines, status |-> "draft"]
  OBVIOUS
<1>5. /\ t.onHand = s.onHand /\ t.reserved = s.reserved /\ t.queue = s.queue
      /\ t.demands = s.demands /\ t.status = s.status /\ t.allocations = s.allocations
      /\ t.deliveries = Append(s.deliveries, new)
  BY <1>1, <1>3, <1>4, Tables, NextTables DEF CreateDelivery
<1>6. \E a \in 1..MaxAllocations : new.lines[a] > 0
  <2>1. PICK a \in Rows(s, o) : lines[a] > 0
    BY <1>3
  <2>2. a \in 1..MaxAllocations
    BY <1>2, LineType DEF Rows
  <2> QED
    BY <1>4, <2>1, <2>2
<1>7. \A d \in DOMAIN t.deliveries :
        \E a \in 1..MaxAllocations : t.deliveries[d].lines[a] > 0
  <2>1. PICK n : n = Len(s.deliveries)
    OBVIOUS
  <2>2. s.deliveries \in Seq(Deliveries) /\ n \in Nat /\ DOMAIN s.deliveries = 1..n
    BY <1>2, <2>1, Columns, TableRows
  <2>3. /\ DOMAIN t.deliveries = 1..(n + 1) /\ t.deliveries[n + 1] = new
        /\ \A d \in 1..n : t.deliveries[d] = s.deliveries[d]
    BY <1>5, <2>1, <2>2
  <2> SUFFICES ASSUME NEW d \in 1..(n + 1)
               PROVE  \E a \in 1..MaxAllocations : t.deliveries[d].lines[a] > 0
    BY <2>3
  <2>4. CASE d = n + 1
    BY <1>6, <2>3, <2>4
  <2>5. CASE d # n + 1
    <3>1. d \in 1..n
      BY <2>2, <2>5
    <3> QED
      BY <1>2, <2>2, <2>3, <3>1 DEF OrdersHold
  <2> QED
    BY <2>4, <2>5
<1>8. OrdersHold(t)
  BY <1>2, <1>5, <1>7 DEF OrdersHold, InQueueOnce
<1>9. NoMorePromised(s, t)
  <2>1. SameQuantities(s, t)
    BY <1>5 DEF SameQuantities
  <2> QED
    BY <1>2, <1>5, <2>1, SamePromises
<1>10. InTurn(s, t, o)
  BY <1>2, <1>5, QuietInTurn
<1> QED
  BY <1>1, <1>8, <1>9, <1>10

\* Issuing a delivery order takes stock and its reservations together.
LEMMA IssueFair ==
  ASSUME SInv, OInv, NEW d \in DOMAIN deliveries, NEW st \in Shipped, Issue(d, st)
  PROVE  /\ OrdersHold(State') /\ NoMorePromised(State, State')
         /\ \A o : InTurn(State, State', o)
<1>0. PICK s, g : s = State /\ g = Load(State, d)
  OBVIOUS
<1>1. PICK t :
        /\ Sound(t) /\ Commit(t)
        /\ t.status = s.status /\ t.queue = s.queue /\ t.demands = s.demands
        /\ t.deliveries = [s.deliveries EXCEPT ![d].status = st]
        /\ t.allocations = [a \in DOMAIN s.allocations |-> AdjustedRow(s, d, 1, a)]
        /\ \A l \in Locations : /\ g[l] \in Nat
                                /\ s.onHand[l] = t.onHand[l] + g[l]
                                /\ s.reserved[l] = t.reserved[l] + g[l]
  <2>1. PICK t : /\ Sound(t) /\ Commit(t)
                /\ t.status = status /\ t.queue = queue /\ t.demands = demands
                /\ t.deliveries = [deliveries EXCEPT ![d].status = st]
                /\ t.allocations = [a \in DOMAIN allocations |-> AdjustedRow(State, d, 1, a)]
                /\ \A l \in Locations : /\ Load(State, d)[l] \in Nat
                                        /\ onHand[l] = t.onHand[l] + Load(State, d)[l]
                                        /\ reserved[l] = t.reserved[l] + Load(State, d)[l]
    BY IssueTables
  <2>2. /\ s.onHand = onHand /\ s.reserved = reserved /\ s.status = status
        /\ s.queue = queue /\ s.demands = demands
        /\ s.allocations = allocations /\ s.deliveries = deliveries
    BY <1>0, Tables
  <2> QED
    BY <1>0, <2>1, <2>2
<1>2. /\ Sound(s) /\ OrdersHold(s) /\ s \in States /\ t \in States
      /\ d \in DOMAIN s.deliveries /\ State' = t
  <2>1. t \in States
    BY <1>1 DEF Sound
  <2> QED
    BY <1>0, <1>1, <2>1, CommitIs, Tables DEF SInv, OInv, Sound
<1>3. SameQuantities(s, t)
  <2> SUFFICES ASSUME NEW a \in DOMAIN s.allocations
               PROVE  /\ t.allocations[a].order = s.allocations[a].order
                      /\ t.allocations[a].location = s.allocations[a].location
                      /\ t.allocations[a].quantity = s.allocations[a].quantity
                      /\ t.allocations[a].state = s.allocations[a].state
    BY <1>1 DEF SameQuantities
  <2>1. t.allocations[a] = AdjustedRow(s, d, 1, a)
    BY <1>1
  <2>2. s.allocations[a] \in Allocations
    BY <1>2, TableRows
  <2> QED
    BY <2>1, <2>2 DEF AdjustedRow, Allocations
<1>4. SameLines(s, t)
  <2>1. Sound(s) /\ d \in DOMAIN s.deliveries
        /\ t.deliveries = [s.deliveries EXCEPT ![d].status = st]
    BY <1>1, <1>2
  <2> QED
    BY ONLY <2>1, StatusKeepsLines
<1>5. Total(t.onHand) - Total(t.reserved) = Total(s.onHand) - Total(s.reserved)
  <2>1. PICK f, r, f1, r1 : /\ f = t.onHand /\ r = t.reserved
                            /\ f1 = s.onHand /\ r1 = s.reserved
    OBVIOUS
  <2>2. /\ \A l \in Locations : f[l] \in Int
        /\ \A l \in Locations : r[l] \in Int
        /\ \A l \in Locations : g[l] \in Int
    BY <1>1, <1>2, <2>1, Columns
  <2>3. /\ \A l \in Locations : f1[l] = f[l] + g[l]
        /\ \A l \in Locations : r1[l] = r[l] + g[l]
    BY <1>1, <2>1
  <2>4. Total(f1) = Total(f) + Total(g) /\ Total(f) \in Int /\ Total(g) \in Int
    BY ONLY <2>2, <2>3, TotalOfTwo
  <2>5. Total(r1) = Total(r) + Total(g) /\ Total(r) \in Int
    BY ONLY <2>2, <2>3, TotalOfTwo
  <2>6. Total(f) - Total(r) = Total(f1) - Total(r1)
    BY ONLY <2>4, <2>5
  <2> QED
    BY <2>1, <2>6
<1>6. OrdersHold(t) /\ NoMorePromised(s, t) /\ \A o : InTurn(s, t, o)
  BY <1>1, <1>2, <1>3, <1>4, <1>5, QuietStep
<1> QED
  BY <1>0, <1>2, <1>6

\* Turning a hold into reservations promises nothing.
LEMMA AllocatesPromises ==
  ASSUME NEW s, Sound(s), s.allocations = allocations, NEW o \in Orders,
         s.status[o] = "confirmed", s.demands[o].state = "ACTIVE",
         NEW plan \in [Locations -> Nat],
         \A l \in Locations : plan[l] <= Candidate(s, l),
         Total(plan) <= Remaining(s, o), Allocates(s, o, plan)
  PROVE  \E t : /\ Sound(t) /\ Commit(t) /\ NoMorePromised(s, t)
                /\ t.status = s.status /\ t.queue = s.queue
                /\ t.demands = s.demands /\ t.deliveries = s.deliveries
<1>1. PICK t : /\ Sound(t) /\ Commit(t)
               /\ t.onHand = s.onHand /\ t.status = s.status /\ t.queue = s.queue
               /\ t.demands = s.demands /\ t.deliveries = s.deliveries
               /\ \A l \in Locations : t.reserved[l] = s.reserved[l] + plan[l]
               /\ \A p \in Orders :
                    Allocated(t, p) = Allocated(s, p) + (IF p = o THEN Total(plan) ELSE 0)
  BY AllocatesTables
<1>2. s \in States /\ t \in States
  BY <1>1 DEF Sound
<1>3. /\ Total(t.reserved) = Total(s.reserved) + Total(plan)
      /\ Total(s.reserved) \in Int /\ Total(plan) \in Int
  <2>1. PICK f, h : f = s.reserved /\ h = t.reserved
    OBVIOUS
  <2>2. /\ \A l \in Locations : f[l] \in Int
        /\ \A l \in Locations : plan[l] \in Int
        /\ \A l \in Locations : h[l] = f[l] + plan[l]
    BY <1>1, <1>2, <2>1, Columns
  <2>3. Total(h) = Total(f) + Total(plan) /\ Total(f) \in Int /\ Total(plan) \in Int
    BY ONLY <2>2, TotalOfTwo
  <2> QED
    BY <2>1, <2>3
<1>4. \A p \in Orders \ {o} : Hold(t, p) = Hold(s, p)
  <2> SUFFICES ASSUME NEW p \in Orders \ {o} PROVE Hold(t, p) = Hold(s, p)
    OBVIOUS
  <2>1. Allocated(s, p) \in Nat
    BY <1>2, AllocatedType
  <2>2. Allocated(t, p) = Allocated(s, p) + 0
    BY <1>1
  <2>3. Allocated(t, p) = Allocated(s, p)
    BY <2>1, <2>2
  <2> QED
    BY <1>1, <2>3 DEF Hold
<1>5. Hold(t, o) = Hold(s, o) - Total(plan)
  <2>1. PICK x, y, z, y1 : /\ x = s.demands[o].reserved /\ y = Allocated(s, o)
                           /\ z = Total(plan) /\ y1 = Allocated(t, o)
    OBVIOUS
  <2>2. x \in Nat /\ y \in Nat /\ z \in Int /\ y1 = y + z
    BY <1>1, <1>2, <1>3, <2>1, AllocatedType, TableRows, RowColumns
  <2>3. x - y1 = (x - y) - z
    BY ONLY <2>2
  <2>4. Hold(t, o) = x - y1 /\ Hold(s, o) = x - y
    BY <1>1, <2>1 DEF Hold
  <2> QED
    BY <2>1, <2>3, <2>4
<1>6. HoldsOf(t, Orders) = HoldsOf(s, Orders) + Hold(t, o) - Hold(s, o)
  BY <1>2, <1>4, HoldsChange
<1>7. NoMorePromised(s, t)
  <2>1. PICK h, r, r1, k, k1, x, x1, z :
          /\ h = Total(s.onHand) /\ r = Total(s.reserved) /\ r1 = Total(t.reserved)
          /\ k = HoldsOf(s, Orders) /\ k1 = HoldsOf(t, Orders)
          /\ x = Hold(s, o) /\ x1 = Hold(t, o) /\ z = Total(plan)
    OBVIOUS
  <2>2. /\ h \in Int /\ r \in Int /\ r1 = r + z /\ k \in Int /\ k1 = k + x1 - x
        /\ x \in Int /\ x1 = x - z /\ z \in Int
    BY <1>2, <1>3, <1>5, <1>6, <2>1, UncommittedType, HoldType
  <2>3. h - r1 - k1 >= h - r - k
    BY ONLY <2>2
  <2> QED
    BY <1>1, <2>1, <2>3 DEF Uncommitted, NoMorePromised
<1> QED
  BY <1>1, <1>7

\* Allocating exact scopes.
LEMMA AllocateManualFair ==
  ASSUME SInv, OInv, NEW o \in Orders, AllocateManual(o)
  PROVE  /\ OrdersHold(State') /\ NoMorePromised(State, State')
         /\ InTurn(State, State', o)
<1>1. PICK s : s = State
  OBVIOUS
<1>2. /\ Sound(s) /\ OrdersHold(s) /\ s.allocations = allocations
      /\ s.status[o] = "confirmed" /\ s.demands[o].state = "ACTIVE"
  BY <1>1, Tables DEF SInv, OInv, AllocateManual, Allocatable
<1>3. PICK plan \in ManualPlans(s, Remaining(s, o)) : Allocates(s, o, plan)
  BY <1>1 DEF AllocateManual
<1>4. /\ plan \in [Locations -> Quantities \union {0}]
      /\ \A l \in Locations : plan[l] <= Candidate(s, l)
      /\ Total(plan) <= Remaining(s, o)
  BY DEF ManualPlans
<1>5. plan \in [Locations -> Nat]
  <2>1. Quantities \union {0} \subseteq Nat
    BY FulfillmentAssumption
  <2> QED
    BY <1>4, <2>1
<1>6. PICK t : /\ Sound(t) /\ Commit(t) /\ NoMorePromised(s, t)
               /\ t.status = s.status /\ t.queue = s.queue
               /\ t.demands = s.demands /\ t.deliveries = s.deliveries
  BY ONLY <1>2, <1>3, <1>4, <1>5, o \in Orders, AllocatesPromises
<1>7. State' = t
  BY <1>6, CommitIs DEF Sound
<1>8. OrdersHold(t)
  BY <1>2, <1>6, OrdersHoldOn DEF SameLines
<1>9. InTurn(s, t, o)
  BY <1>2, <1>6, QuietInTurn
<1> QED
  BY <1>1, <1>6, <1>7, <1>8, <1>9

\* Allocating anew.
LEMMA AllocateUpToFair ==
  ASSUME SInv, OInv, NEW o \in Orders, NEW target \in Nat, Allocated(State, o) <= target,
         AllocateUpTo(o, target)
  PROVE  /\ OrdersHold(State') /\ NoMorePromised(State, State')
         /\ InTurn(State, State', o)
<1>1. PICK s, u : s = State /\ u = Reconciled(s, o, target)
  OBVIOUS
<1>2. /\ Sound(s) /\ OrdersHold(s) /\ s \in States /\ s.allocations = allocations
      /\ s.status[o] = "confirmed" /\ s.demands[o].state = "ACTIVE"
      /\ target <= s.demands[o].ordered /\ Allocated(s, o) <= target
  BY <1>1, Tables DEF SInv, OInv, Sound, AllocateUpTo, Allocatable
<1>3. Remaining(u, o) > 0 /\ Allocates(u, o, AutoPlan(u, Remaining(u, o)))
  BY <1>1 DEF AllocateUpTo
<1>4. Sound(u) /\ SameButDemands(s, u)
  BY <1>1, <1>2, ReconciledSound
<1>5. NoMorePromised(s, u)
  BY <1>1, <1>2, ReconciledPromises
<1>6. /\ u.demands[o].state = "ACTIVE"
      /\ \A p \in Orders \ {o} : u.demands[p] = s.demands[p]
  <2>1. PICK held : held = Clamp(Allocated(s, o) + Free(s, o), Allocated(s, o), target)
    OBVIOUS
  <2>2. /\ u.demands[o] = [state |-> s.demands[o].state, ordered |-> s.demands[o].ordered,
                           target |-> target, reserved |-> held,
                           backordered |-> target - held]
        /\ \A p \in Orders \ {o} : u.demands[p] = s.demands[p]
    BY <1>1, <1>2, <2>1, ReconciledRow
  <2> QED
    BY <1>2, <2>2
<1>7. u.status[o] = "confirmed" /\ u.allocations = allocations
  BY <1>2, <1>4 DEF SameButDemands
<1>8. PICK quantity, plan : quantity = Remaining(u, o) /\ plan = AutoPlan(u, quantity)
  OBVIOUS
<1>9. quantity \in Nat
  BY <1>4, <1>6, <1>8, RemainingType
<1>10. /\ plan \in [Locations -> Nat]
       /\ \A l \in Locations : plan[l] <= Candidate(u, l)
       /\ Total(plan) <= quantity
  BY <1>4, <1>8, <1>9, AutoPlanFits
<1>11. Allocates(u, o, plan) /\ Total(plan) <= Remaining(u, o) /\ u.demands[o].state = "ACTIVE"
  BY <1>3, <1>6, <1>8, <1>10
<1>12. PICK t : /\ Sound(t) /\ Commit(t) /\ NoMorePromised(u, t)
                /\ t.status = u.status /\ t.queue = u.queue
                /\ t.demands = u.demands /\ t.deliveries = u.deliveries
  BY ONLY <1>4, <1>7, <1>10, <1>11, o \in Orders, AllocatesPromises
<1>13. State' = t
  BY <1>12, CommitIs DEF Sound
<1>14. NoMorePromised(s, t)
  BY <1>2, <1>4, <1>5, <1>12, PromisesOn DEF Sound
<1>15. OrdersHold(t)
  <2>1. \A p \in Orders : t.status[p] = "draft" =>
          s.status[p] = "draft" /\ t.demands[p].reserved = s.demands[p].reserved
    BY <1>2, <1>4, <1>6, <1>12 DEF SameButDemands
  <2>2. t.queue = s.queue /\ SameLines(s, t)
    BY <1>4, <1>12 DEF SameButDemands, SameLines
  <2> QED
    BY <1>2, <2>1, <2>2, OrdersHoldOn
<1>16. InTurn(s, t, o)
  <2>1. t.queue = s.queue
    BY <1>4, <1>12 DEF SameButDemands
  <2> QED
    BY <1>2, <1>6, <1>12, <2>1, QuietInTurn
<1> QED
  BY <1>1, <1>13, <1>14, <1>15, <1>16

\* Confirming a draft: the orders that wait are served before it, and it gets
\* what is left.
LEMMA ConfirmFair ==
  ASSUME SInv, OInv, NEW o \in Orders, NEW q \in Quantities, Confirm(o, q),
         NEW none, none \notin Orders
  PROVE  /\ OrdersHold(State') /\ NoMorePromised(State, State')
         /\ InTurn(State, State', none)
<1>1. PICK s, u, v, w : /\ s = State /\ u = Queued(s, o)
                        /\ v = Replenished(u) /\ w = WithDemand(v, o, q)
  OBVIOUS
<1>2. Sound(s) /\ OrdersHold(s) /\ s.status[o] = "draft" /\ Commit(w)
  BY <1>1, Tables DEF SInv, OInv, Confirm, Queued
<1>3. q \in Nat
  BY FulfillmentAssumption
<1>4. /\ Sound(u) /\ Rows(u, o) = {}
      /\ u.onHand = s.onHand /\ u.reserved = s.reserved /\ u.demands = s.demands
      /\ u.allocations = s.allocations /\ u.deliveries = s.deliveries
      /\ u.queue = Append(s.queue, o)
      /\ u.status = [s.status EXCEPT ![o] = "confirmed"]
  <2>1. Sound(s) /\ s.status[o] = "draft" /\ u = Queued(s, o)
    BY <1>1, <1>2
  <2> QED
    BY <2>1, QueuedSound
<1>5. /\ Sound(v) /\ SameButDemands(u, v) /\ DemandsGrow(u, v) /\ Rows(v, o) = {}
  BY <1>1, <1>4, ReplenishedSound, DemandsApart
<1>6. /\ Sound(w) /\ SameButDemands(v, w) /\ NoMorePromised(v, w)
      /\ \A p \in Orders \ {o} : w.demands[p] = v.demands[p]
  <2>1. Sound(w)
    BY <1>1, <1>3, <1>5, WithDemandSound
  <2>2. /\ SameButDemands(v, w) /\ NoMorePromised(v, w)
        /\ \A p \in Orders \ {o} : w.demands[p] = v.demands[p]
    BY <1>1, <1>3, <1>5, WithDemandPromises
  <2> QED
    BY <2>1, <2>2
<1>7. s \in States /\ u \in States /\ v \in States /\ w \in States
  BY <1>2, <1>4, <1>5, <1>6 DEF Sound
<1>8. State' = w
  BY <1>2, <1>7, CommitIs
<1>9. PICK n : n = Len(s.queue)
  OBVIOUS
<1>10. /\ n \in Nat /\ Len(u.queue) = n + 1 /\ u.queue[n + 1] = o
       /\ \A i \in 1..n : u.queue[i] = s.queue[i] /\ s.queue[i] \in Orders \ {o}
  <2>1. s.queue \in Seq(Orders) /\ n \in Nat
    BY <1>7, <1>9, Columns, TableRows
  <2>2. \A i \in 1..n : s.queue[i] \in Orders /\ s.status[s.queue[i]] # "draft"
    BY <1>2, <1>7, <1>9, TableRows DEF OrdersHold
  <2> QED
    BY <1>2, <1>4, <1>9, <2>1, <2>2
<1>11. InQueueOnce(u)
  <2> SUFFICES ASSUME NEW i \in 1..(n + 1), NEW j \in 1..(n + 1), i # j
               PROVE  u.queue[i] # u.queue[j]
    BY <1>10 DEF InQueueOnce
  <2>1. i \in 1..n \/ i = n + 1
    BY <1>10
  <2>2. j \in 1..n \/ j = n + 1
    BY <1>10
  <2>3. \A x, y \in 1..n : x # y => s.queue[x] # s.queue[y]
    BY <1>2, <1>9 DEF OrdersHold, InQueueOnce
  <2> QED
    BY <1>10, <2>1, <2>2, <2>3
<1>12. /\ NoMorePromised(u, v)
       /\ \A p \in Orders : ~Pending(u, p) => v.demands[p] = u.demands[p]
       /\ \A i, j \in 1..Len(u.queue) :
            /\ i < j /\ Pending(u, u.queue[i])
            /\ v.demands[u.queue[j]] # u.demands[u.queue[j]]
            => v.demands[u.queue[i]].backordered = 0
  <2>1. Sound(u) /\ InQueueOnce(u) /\ v = Replenished(u)
    BY <1>1, <1>4, <1>11
  <2> QED
    BY ONLY <2>1, ReplenishedInTurn
<1>13. NoMorePromised(s, w)
  <2>1. SameQuantities(s, u)
    BY <1>4 DEF SameQuantities
  <2>2. NoMorePromised(s, u)
    BY <1>4, <1>7, <2>1, SamePromises
  <2>3. NoMorePromised(s, v)
    BY <1>7, <1>12, <2>2, PromisesOn
  <2> QED
    BY <1>6, <1>7, <2>3, PromisesOn
<1>14. \A p \in Orders \ {o} :
         /\ u.status[p] = s.status[p] /\ w.status[p] = s.status[p]
         /\ Pending(s, p) => Pending(u, p)
         /\ w.demands[p].reserved >= s.demands[p].reserved
         /\ s.status[p] # "confirmed" => w.demands[p] = s.demands[p]
  <2> SUFFICES ASSUME NEW p \in Orders \ {o}
               PROVE  /\ u.status[p] = s.status[p] /\ w.status[p] = s.status[p]
                      /\ Pending(s, p) => Pending(u, p)
                      /\ w.demands[p].reserved >= s.demands[p].reserved
                      /\ s.status[p] # "confirmed" => w.demands[p] = s.demands[p]
    OBVIOUS
  <2>1. u.status[p] = s.status[p] /\ w.status[p] = u.status[p]
    BY <1>4, <1>5, <1>6, <1>7, Columns DEF SameButDemands
  <2>2. Untouched(s, p) => Untouched(u, p)
    <3>1. Rows(u, p) = Rows(s, p)
      BY <1>4 DEF Rows
    <3>2. \A a, x : OnDeliveries(u, a, x) = OnDeliveries(s, a, x)
      BY <1>4 DEF OnDeliveries
    <3> QED
      BY <1>4, <3>1, <3>2 DEF Untouched
  <2>3. Pending(s, p) => Pending(u, p)
    BY <1>4, <2>1, <2>2 DEF Pending
  <2>4. w.demands[p].reserved >= s.demands[p].reserved
    BY <1>4, <1>5, <1>6 DEF DemandsGrow
  <2>5. s.status[p] # "confirmed" => w.demands[p] = s.demands[p]
    BY <1>4, <1>6, <1>12, <2>1 DEF Pending
  <2> QED
    BY <2>1, <2>3, <2>4, <2>5
<1>15. w.demands[o].reserved >= s.demands[o].reserved
  <2>1. s.demands[o].reserved = 0
    BY <1>2 DEF OrdersHold
  <2>2. w.demands[o].reserved \in Nat
    BY <1>7, TableRows, RowColumns
  <2> QED
    BY <2>1, <2>2
<1>16. w.queue = u.queue /\ w.status = u.status /\ w.deliveries = s.deliveries
  BY <1>4, <1>5, <1>6 DEF SameButDemands
<1>17. InTurn(s, w, none)
  <2>1. \A p \in Orders : w.demands[p].reserved >= s.demands[p].reserved
    BY <1>14, <1>15
  <2>2. \A i \in 1..Len(s.queue) : w.queue[i] = s.queue[i]
    BY <1>9, <1>10, <1>16
  <2>3. ASSUME NEW i \in 1..Len(s.queue), NEW j \in 1..Len(s.queue), i < j,
               Pending(s, s.queue[i]),
               w.demands[s.queue[j]].reserved > s.demands[s.queue[j]].reserved
        PROVE  ~Pending(w, s.queue[i])
    <3>1. PICK p, r : p = s.queue[i] /\ r = s.queue[j]
      OBVIOUS
    <3>2. /\ p \in Orders \ {o} /\ r \in Orders \ {o} /\ u.queue[i] = p /\ u.queue[j] = r
          /\ i \in 1..Len(u.queue) /\ j \in 1..Len(u.queue)
      BY <1>9, <1>10, <3>1
    <3>3. Pending(u, p)
      BY <1>14, <2>3, <3>1, <3>2
    <3>4. v.demands[r] # u.demands[r]
      <4>1. s.demands[r].reserved \in Nat
        BY <1>7, <3>2, TableRows, RowColumns
      <4>2. ~(s.demands[r].reserved > s.demands[r].reserved)
        BY <4>1
      <4> QED
        BY <1>4, <1>6, <2>3, <3>1, <3>2, <4>2
    <3>5. v.demands[p].backordered = 0
      BY <1>12, <2>3, <3>2, <3>3, <3>4
    <3>6. w.demands[p].backordered = 0
      BY <1>6, <3>2, <3>5
    <3> QED
      BY <3>1, <3>6 DEF Pending
  <2> QED
    BY <2>1, <2>2, <2>3 DEF InTurn
<1>18. OrdersHold(w)
  <2>1. InQueueOnce(w)
    BY <1>11, <1>16 DEF InQueueOnce
  <2>2. \A i \in 1..Len(w.queue) : w.status[w.queue[i]] # "draft"
    <3> SUFFICES ASSUME NEW i \in 1..(n + 1) PROVE u.status[u.queue[i]] # "draft"
      BY <1>10, <1>16
    <3>1. CASE i = n + 1
      BY <1>4, <1>7, <1>10, <3>1, Columns
    <3>2. CASE i # n + 1
      <4>1. i \in 1..n
        BY <1>10, <3>2
      <4>2. s.status[s.queue[i]] # "draft"
        BY <1>2, <1>9, <4>1 DEF OrdersHold
      <4> QED
        BY <1>10, <1>14, <4>1, <4>2
    <3> QED
      BY <3>1, <3>2
  <2>3. \A p \in Orders : w.status[p] = "draft" => w.demands[p].reserved = 0
    <3> SUFFICES ASSUME NEW p \in Orders, w.status[p] = "draft"
                 PROVE  w.demands[p].reserved = 0
      OBVIOUS
    <3>1. p # o
      BY <1>4, <1>7, <1>16, Columns
    <3>2. s.status[p] = "draft" /\ w.demands[p] = s.demands[p]
      BY <1>14, <3>1
    <3> QED
      BY <1>2, <3>2 DEF OrdersHold
  <2>4. \A d \in DOMAIN w.deliveries :
          \E a \in 1..MaxAllocations : w.deliveries[d].lines[a] > 0
    BY <1>2, <1>16 DEF OrdersHold
  <2> QED
    BY <2>1, <2>2, <2>3, <2>4 DEF OrdersHold
<1> QED
  BY <1>1, <1>8, <1>13, <1>17, <1>18

\* A confirmed order is unwound, gets another demand or none, and what is left is
\* offered to those that wait.
LEMMA ReleasedInTurn ==
  ASSUME NEW s, Sound(s), OrdersHold(s), NEW o \in Orders,
         \A d \in DOMAIN s.deliveries :
           s.deliveries[d].order = o => s.deliveries[d].status # "handed_over",
         NEW u, u = Released(s, o),
         NEW v, Sound(v), NoMorePromised(u, v), KeepsTurns(u, v, o),
         \A p \in Orders \ {o} : v.demands[p] = u.demands[p],
         v.deliveries = u.deliveries, v.status[o] # "draft",
         NEW w, w = Replenished(v)
  PROVE  /\ Sound(w) /\ OrdersHold(w) /\ InTurn(s, w, o)
         /\ NothingShipped(s, o) => NoMorePromised(s, w)
         /\ \A d \in DOMAIN s.deliveries :
              s.deliveries[d].order = o => w.deliveries[d].status = "cancelled"
<1>1. Sound(u) /\ InQueueOnce(s)
  BY ReleasedSound DEF OrdersHold
<1>2. /\ KeepsTurns(s, u, o)
      /\ NothingShipped(s, o) => u.demands = s.demands /\ NoMorePromised(s, u)
  BY <1>1, ReleasedPromises
<1>3. KeepsTurns(s, v, o) /\ v.queue = s.queue
  <2>1. KeepsTurns(s, v, o)
    BY <1>1, <1>2, TurnsKeptOn
  <2> QED
    BY <2>1 DEF KeepsTurns
<1>4. InQueueOnce(v)
  BY <1>1, <1>3 DEF InQueueOnce
<1>5. Sound(w) /\ SameButDemands(v, w) /\ KeepsTurns(v, w, o)
  BY <1>4, ReplenishedSound, ReplenishedKeepsTurns
<1>6. KeepsTurns(s, w, o)
  BY <1>3, <1>5, TurnsKeptOn
<1>7. w.status = v.status /\ w.deliveries = u.deliveries /\ w.queue = s.queue
  BY <1>3, <1>5 DEF SameButDemands
<1>8. OrdersHold(w)
  BY <1>6, <1>7, TurnsHold
<1>9. /\ NoMorePromised(v, w)
      /\ \A p \in Orders : ~Pending(v, p) => w.demands[p] = v.demands[p]
      /\ \A i, j \in 1..Len(v.queue) :
           /\ i < j /\ Pending(v, v.queue[i])
           /\ w.demands[v.queue[j]] # v.demands[v.queue[j]]
           => w.demands[v.queue[i]].backordered = 0
  BY <1>4, ReplenishedInTurn
<1>10. ASSUME NEW i \in 1..Len(s.queue), NEW j \in 1..Len(s.queue),
              i < j, s.queue[i] = o, s.queue[j] # o, Pending(s, o),
              w.demands[s.queue[j]].reserved > s.demands[s.queue[j]].reserved
       PROVE  ~Pending(w, o)
  <2>1. PICK r : r = s.queue[j]
    OBVIOUS
  <2>2. r \in Orders \ {o} /\ s.demands[r].reserved \in Nat
    BY <1>10, <2>1, TableRows, RowColumns DEF Sound
  <2>3. u.demands = s.demands
    <3>1. Untouched(s, o)
      BY <1>10 DEF Pending
    <3> QED
      BY <1>2, <3>1, NothingShippedYet
  <2>4. w.demands[r] # v.demands[r]
    <3>1. v.demands[r] = s.demands[r] /\ w.demands[r].reserved > s.demands[r].reserved
      BY <1>10, <2>1, <2>2, <2>3
    <3> QED
      BY <2>2, <3>1
  <2>5. CASE Pending(v, o)
    <3>1. w.demands[o].backordered = 0
      BY <1>3, <1>9, <1>10, <2>1, <2>4, <2>5
    <3> QED
      BY <3>1 DEF Pending
  <2>6. CASE ~Pending(v, o)
    <3>1. w.demands[o] = v.demands[o] /\ Untouched(w, o) = Untouched(v, o)
      BY <1>5, <1>9, <2>6, DemandsApart
    <3> QED
      BY <1>7, <2>6, <3>1 DEF Pending
  <2> QED
    BY <2>5, <2>6
<1>11. InTurn(s, w, o)
  BY <1>6, <1>10, TurnsAreInTurn
<1>12. ASSUME NothingShipped(s, o) PROVE NoMorePromised(s, w)
  <2>1. s \in States /\ u \in States /\ v \in States /\ w \in States
    BY <1>1, <1>5 DEF Sound
  <2>2. NoMorePromised(s, v)
    BY <1>2, <1>12, <2>1, PromisesOn
  <2> QED
    BY <1>9, <2>1, <2>2, PromisesOn
<1>13. \A d \in DOMAIN s.deliveries :
         s.deliveries[d].order = o => w.deliveries[d].status = "cancelled"
  <2>1. PICK x : x = DeliveriesUnwound(s, o)
    OBVIOUS
  <2>2. Sound(x) /\ UnwoundTo(s, o, x, Len(s.deliveries))
    BY <2>1, DeliveriesUnwoundSound
  <2>3. \A d \in DOMAIN s.deliveries : d <= Len(s.deliveries)
    <3>1. Len(s.deliveries) \in Nat /\ DOMAIN s.deliveries = 1..Len(s.deliveries)
      BY TableRows DEF Sound
    <3> QED
      BY <3>1
  <2>4. /\ DOMAIN x.deliveries = DOMAIN s.deliveries
        /\ \A d \in DOMAIN s.deliveries :
             /\ x.deliveries[d].order = s.deliveries[d].order
             /\ s.deliveries[d].order = o => x.deliveries[d].status = "cancelled"
    BY <2>2, <2>3 DEF UnwoundTo
  <2>5. \A d \in DOMAIN x.deliveries :
          x.deliveries[d].order = o => x.deliveries[d].status = "cancelled"
    BY <2>4
  <2>6. u = AllocationsReleased(x, o)
    BY <2>1 DEF Released
  <2>7. u.deliveries = x.deliveries
    BY <2>2, <2>5, <2>6, AllocationsReleasedSound
  <2> QED
    BY <1>7, <2>4, <2>7
<1> QED
  BY <1>5, <1>8, <1>11, <1>12, <1>13

\* What a request about a confirmed order may cost the warehouse: nothing, unless
\* a delivery order comes back with it.
LEMMA ReleasedOrReverses ==
  ASSUME NEW s, s = State, NEW w, w = State', Sound(s), NEW o,
         NothingShipped(s, o) => NoMorePromised(s, w),
         \A d \in DOMAIN s.deliveries :
           s.deliveries[d].order = o => w.deliveries[d].status = "cancelled"
  PROVE  NoMorePromised(s, w) \/ ReversesIssues
<1>1. CASE NothingShipped(s, o)
  BY <1>1
<1>2. CASE ~NothingShipped(s, o)
  <2>1. PICK d \in DOMAIN s.deliveries : /\ s.deliveries[d].order = o
                                         /\ s.deliveries[d].status \in Shipped
    BY <1>2 DEF NothingShipped
  <2>2. w.deliveries[d].status \notin Shipped
    BY <2>1 DEF Shipped
  <2>3. s.deliveries = deliveries /\ w.deliveries = deliveries'
    BY Tables, NextTables
  <2> QED
    BY <2>1, <2>2, <2>3 DEF ReversesIssues
<1> QED
  BY <1>1, <1>2

\* Amending a confirmed order.
LEMMA AmendFair ==
  ASSUME SInv, OInv, NEW o \in Orders, NEW q \in Quantities, Amend(o, q)
  PROVE  /\ OrdersHold(State')
         /\ NoMorePromised(State, State') \/ ReversesIssues
         /\ InTurn(State, State', o)
<1>1. PICK s, u, v, w : /\ s = State /\ u = Released(s, o)
                        /\ v = WithDemand(u, o, q) /\ w = Replenished(v)
  OBVIOUS
<1>2. /\ Sound(s) /\ OrdersHold(s) /\ Releasable(o) /\ Commit(w)
      /\ s.status[o] = "confirmed" /\ q \in Nat
  BY <1>1, Tables, FulfillmentAssumption DEF SInv, OInv, Amend
<1>3. \A d \in DOMAIN s.deliveries :
        s.deliveries[d].order = o => s.deliveries[d].status # "handed_over"
  BY <1>1, <1>2, ReleasableOrder
<1>4. Sound(u) /\ Rows(u, o) = {} /\ u.status = s.status
  BY <1>1, <1>2, <1>3, ReleasedSound
<1>5. Sound(v)
  BY <1>1, <1>2, <1>4, WithDemandSound
<1>6. /\ SameButDemands(u, v) /\ NoMorePromised(u, v) /\ KeepsTurns(u, v, o)
      /\ \A p \in Orders \ {o} : v.demands[p] = u.demands[p]
  BY <1>1, <1>2, <1>4, WithDemandPromises
<1>7. v.deliveries = u.deliveries /\ v.status[o] # "draft"
  BY <1>2, <1>4, <1>6 DEF SameButDemands
<1>8. /\ Sound(w) /\ OrdersHold(w) /\ InTurn(s, w, o)
      /\ NothingShipped(s, o) => NoMorePromised(s, w)
      /\ \A d \in DOMAIN s.deliveries :
           s.deliveries[d].order = o => w.deliveries[d].status = "cancelled"
  BY <1>1, <1>2, <1>3, <1>5, <1>6, <1>7, ReleasedInTurn
<1>9. w = State'
  BY <1>2, <1>8, CommitIs DEF Sound
<1>10. NoMorePromised(s, w) \/ ReversesIssues
  BY <1>1, <1>2, <1>8, <1>9, ReleasedOrReverses
<1> QED
  BY <1>1, <1>8, <1>9, <1>10

\* Cancelling a confirmed order.
LEMMA CancelConfirmedFair ==
  ASSUME SInv, OInv, NEW o \in Orders, CancelConfirmed(o)
  PROVE  /\ OrdersHold(State')
         /\ NoMorePromised(State, State') \/ ReversesIssues
         /\ InTurn(State, State', o)
<1>1. PICK s, u, v, w : /\ s = State /\ u = Released(s, o)
                        /\ v = CalledOff(u, o) /\ w = Replenished(v)
  OBVIOUS
<1>2. Sound(s) /\ OrdersHold(s) /\ Releasable(o) /\ Commit(w)
  BY <1>1, Tables DEF SInv, OInv, CancelConfirmed, CalledOff
<1>3. \A d \in DOMAIN s.deliveries :
        s.deliveries[d].order = o => s.deliveries[d].status # "handed_over"
  BY <1>1, <1>2, ReleasableOrder
<1>4. Sound(u) /\ Rows(u, o) = {} /\ u.status = s.status
  BY <1>1, <1>2, <1>3, ReleasedSound
<1>5. /\ Sound(v)
      /\ v.onHand = u.onHand /\ v.reserved = u.reserved /\ v.queue = u.queue
      /\ v.allocations = u.allocations /\ v.deliveries = u.deliveries
      /\ v.status = [u.status EXCEPT ![o] = "cancelled"]
      /\ v.demands = [u.demands EXCEPT ![o].state = "CANCELLED"]
  <2>1. Sound(u) /\ Rows(u, o) = {} /\ v = CalledOff(u, o)
    BY <1>1, <1>4
  <2> QED
    BY <2>1, CalledOffSound
<1>6. /\ \A p \in Orders \ {o} : v.status[p] = u.status[p]
      /\ \A p \in Orders \ {o} : v.demands[p] = u.demands[p]
      /\ v.status[o] = "cancelled" /\ v.demands[o].state = "CANCELLED"
  <2>1. u \in States
    BY <1>4 DEF Sound
  <2>2. u.demands[o] \in Demands /\ u.demands \in [Orders -> Demands]
        /\ u.status \in [Orders -> {"draft", "confirmed", "cancelled"}]
    BY <2>1, Columns, TableRows
  <2>3. v.demands[o] = [u.demands[o] EXCEPT !.state = "CANCELLED"]
    BY <1>5, <2>2
  <2> QED
    BY <1>5, <2>2, <2>3 DEF Demands
<1>7. NoMorePromised(u, v) /\ KeepsTurns(u, v, o)
  BY <1>4, <1>5, <1>6, CancelledPromises
<1>8. /\ Sound(w) /\ OrdersHold(w) /\ InTurn(s, w, o)
      /\ NothingShipped(s, o) => NoMorePromised(s, w)
      /\ \A d \in DOMAIN s.deliveries :
           s.deliveries[d].order = o => w.deliveries[d].status = "cancelled"
  <2>1. /\ Sound(s) /\ OrdersHold(s) /\ u = Released(s, o)
        /\ Sound(v) /\ NoMorePromised(u, v) /\ KeepsTurns(u, v, o)
        /\ v.deliveries = u.deliveries /\ v.status[o] # "draft" /\ w = Replenished(v)
    BY <1>1, <1>2, <1>5, <1>6, <1>7
  <2>2. \A p \in Orders \ {o} : v.demands[p] = u.demands[p]
    BY <1>6
  <2> QED
    BY ONLY <1>3, <2>1, <2>2, o \in Orders, ReleasedInTurn
<1>9. w = State'
  BY <1>2, <1>8, CommitIs DEF Sound
<1>10. NoMorePromised(s, w) \/ ReversesIssues
  BY <1>1, <1>2, <1>8, <1>9, ReleasedOrReverses
<1> QED
  BY <1>1, <1>8, <1>9, <1>10

\* Reversing the issue of a delivery order.
LEMMA ReverseIssueFair ==
  ASSUME SInv, OInv, NEW d \in DOMAIN deliveries, ReverseIssue(d),
         NEW none, none \notin Orders
  PROVE  OrdersHold(State') /\ ReversesIssues /\ InTurn(State, State', none)
<1>1. PICK s, t : s = State /\ t = IssueReversed(s, d)
  OBVIOUS
<1>2. /\ Sound(s) /\ OrdersHold(s) /\ InQueueOnce(s) /\ d \in DOMAIN s.deliveries
      /\ s.deliveries[d].status \in Shipped /\ Commit(t)
  BY <1>1, Tables DEF SInv, OInv, OrdersHold, ReverseIssue
<1>3. Sound(t) /\ Unshipped(s, t, d, "ready_to_dispatch")
  BY <1>1, <1>2, IssueReversedSound
<1>4. t = State'
  BY <1>2, <1>3, CommitIs DEF Sound
<1>5. KeepsTurns(s, t, none)
  BY <1>1, <1>2, IssueReversedKeepsTurns
<1>6. OrdersHold(t)
  BY <1>2, <1>5, TurnsHold
<1>7. InTurn(s, t, none)
  BY <1>2, <1>5, TurnsOfAll
<1>8. ReversesIssues
  <2>1. s.deliveries = deliveries /\ t.deliveries = deliveries'
    BY <1>1, <1>4, Tables, NextTables
  <2>2. t.deliveries = [s.deliveries EXCEPT ![d].status = "ready_to_dispatch"]
    BY <1>3 DEF Unshipped
  <2>3. s.deliveries[d] \in Deliveries
    BY <1>2, TableRows DEF Sound
  <2>4. t.deliveries[d].status = "ready_to_dispatch"
    BY <1>2, <2>2, <2>3 DEF Deliveries
  <2>5. t.deliveries[d].status \notin Shipped
    BY <2>4 DEF Shipped
  <2> QED
    BY <1>2, <2>1, <2>5 DEF ReversesIssues
<1> QED
  BY <1>1, <1>4, <1>6, <1>7, <1>8

\* A document of another part: what it brings in is offered to those that wait.
LEMMA PostStockFair ==
  ASSUME SInv, OInv, NEW delta \in Postings, PostStock(delta), NEW none, none \notin Orders
  PROVE  /\ OrdersHold(State')
         /\ NoMorePromised(State, State') \/ TakesStock(delta)
         /\ InTurn(State, State', none)
<1>1. PICK s, u, v, t : /\ s = State /\ u = Moved(s, delta) /\ v = Replenished(u)
                        /\ t = IF \E l \in Locations : delta[l] > 0 THEN v ELSE u
  OBVIOUS
<1>2. Sound(s) /\ OrdersHold(s) /\ s \in States
  BY <1>1 DEF SInv, OInv, Sound
<1>3. MayPost(s.onHand, s.reserved, delta) /\ Commit(t)
  BY <1>1, Tables DEF PostStock
<1>4. \A l \in Locations : delta[l] \in Int /\ s.onHand[l] \in Nat
                           /\ s.onHand[l] + delta[l] >= s.reserved[l]
  <2> SUFFICES ASSUME NEW l \in Locations
               PROVE  delta[l] \in Int /\ s.onHand[l] \in Nat
                      /\ s.onHand[l] + delta[l] >= s.reserved[l]
    OBVIOUS
  <2>1. delta[l] \in Int
    BY FulfillmentAssumption
  <2>2. PICK x, y, z : x = s.onHand[l] /\ y = s.reserved[l] /\ z = delta[l]
    OBVIOUS
  <2>3. x \in Nat /\ y \in Nat /\ y <= x /\ z \in Int /\ (z < 0 => x + z >= y)
    BY <1>2, <1>3, <2>1, <2>2, Columns DEF Sound, Covered, MayPost
  <2>4. x + z >= y
    BY ONLY <2>3
  <2> QED
    BY <2>1, <2>2, <2>3, <2>4
<1>5. Sound(u) /\ SameButStock(s, u) /\ u \in States
  <2>1. Sound(u) /\ SameButStock(s, u)
    BY <1>1, <1>2, <1>4, MovedSound
  <2> QED
    BY <2>1 DEF Sound
<1>6. KeepsTurns(s, u, none)
  <2>1. \A p : Rows(u, p) = Rows(s, p)
    BY <1>5, StockApart
  <2>2. \A p : Untouched(u, p) = Untouched(s, p)
    BY <1>5, <2>1, StockApart DEF Untouched, SameButStock
  <2>3. SameLines(s, u)
    BY <1>5 DEF SameButStock, SameLines
  <2> QED
    BY <1>2, <1>5, <2>2, <2>3, OthersLeftAlone DEF SameButStock
<1>7. InQueueOnce(u)
  BY <1>2, <1>5 DEF OrdersHold, InQueueOnce, SameButStock
<1>8. Sound(v) /\ KeepsTurns(u, v, none) /\ NoMorePromised(u, v)
  <2>1. Sound(u) /\ InQueueOnce(u) /\ v = Replenished(u)
    BY <1>1, <1>5, <1>7
  <2> QED
    BY ONLY <2>1, ReplenishedSound, ReplenishedKeepsTurns, ReplenishedInTurn
<1>9. KeepsTurns(s, v, none)
  BY <1>2, <1>5, <1>6, <1>8, TurnsKeptOn
<1>10. Sound(t) /\ KeepsTurns(s, t, none)
  BY <1>1, <1>5, <1>6, <1>8, <1>9
<1>11. t = State'
  BY <1>3, <1>10, CommitIs DEF Sound
<1>12. OrdersHold(t)
  BY <1>2, <1>10, TurnsHold
<1>13. InTurn(s, t, none)
  BY <1>2, <1>10, TurnsOfAll
<1>14. ASSUME \A l \in Locations : ~(delta[l] < 0)
       PROVE  NoMorePromised(s, t)
  <2>1. \A l \in Locations : u.onHand[l] = s.onHand[l] + delta[l]
    <3>1. u.onHand = Posted(s.onHand, delta)
      BY <1>1, <1>2, MovedFields
    <3> QED
      BY <3>1 DEF Posted
  <2>2. /\ \A l \in Locations : s.onHand[l] \in Int
        /\ \A l \in Locations : u.onHand[l] \in Int
        /\ \A l \in Locations : s.onHand[l] <= u.onHand[l]
    BY <1>4, <1>14, <2>1
  <2>3. Total(s.onHand) <= Total(u.onHand)
    BY <2>2, LocationsAssumption, SumMonotone DEF Total
  <2>4. \A p : Hold(u, p) = Hold(s, p)
    BY <1>5, StockApart DEF Hold, SameButStock
  <2>5. HoldsOf(u, Orders) = HoldsOf(s, Orders) /\ u.reserved = s.reserved
    <3>1. [p \in Orders |-> Hold(u, p)] = [p \in Orders |-> Hold(s, p)]
      BY <2>4
    <3> QED
      BY <1>5, <3>1 DEF HoldsOf, SameButStock
  <2>6. PICK h, h1, r, k : /\ h = Total(s.onHand) /\ h1 = Total(u.onHand)
                           /\ r = Total(s.reserved) /\ k = HoldsOf(s, Orders)
    OBVIOUS
  <2>7. h \in Int /\ h1 \in Int /\ r \in Int /\ k \in Int /\ h <= h1
    BY <1>2, <1>5, <2>3, <2>6, UncommittedType
  <2>8. h1 - r - k >= h - r - k
    BY ONLY <2>7
  <2>9. NoMorePromised(s, u)
    BY <2>5, <2>6, <2>8 DEF Uncommitted, NoMorePromised
  <2>10. NoMorePromised(s, v)
    BY <1>2, <1>5, <1>8, <2>9, PromisesOn DEF Sound
  <2> QED
    BY <1>1, <2>9, <2>10
<1>15. NoMorePromised(s, t) \/ TakesStock(delta)
  BY <1>14 DEF TakesStock
<1> QED
  BY <1>1, <1>11, <1>12, <1>13, <1>15

-----------------------------------------------------------------------------
(* Every step is fair.                                                     *)

\* What a step does to the promises and the turns: it promises nothing twice but
\* by a document that takes held stock or an issue that comes back, and only the
\* order it is about may lose its hold or pass an older one.
FairStep ==
  /\ OrdersHold(State')
  /\ \/ NoMorePromised(State, State')
     \/ ReversesIssues
     \/ \E delta \in Postings : TakesStock(delta)
  /\ \E o : InTurn(State, State', o) /\ (o \in Orders => OwnStep(o))

\* What happens to a sales order.
LEMMA OrderStepFair ==
  ASSUME SInv, OInv, NEW o \in Orders, OrderStep(o)
  PROVE  FairStep
<1>1. PICK none : none \notin Orders
  BY NotAnOrder
<1>2. ASSUME NEW q \in Quantities, Confirm(o, q) PROVE FairStep
  BY <1>1, <1>2, ConfirmFair DEF FairStep
<1>3. ASSUME ~ \E q \in Quantities : Confirm(o, q) PROVE FairStep
  <2>1. OwnStep(o)
    BY <1>3 DEF OwnStep
  <2>2. SUFFICES /\ OrdersHold(State')
                 /\ NoMorePromised(State, State') \/ ReversesIssues
                 /\ InTurn(State, State', o)
    BY <2>1 DEF FairStep
  <2>3. PICK s : s = State
    OBVIOUS
  <2>4. s \in States /\ Sound(s)
    BY <2>3 DEF SInv, Sound
  <2>5. Allocated(State, o) \in Nat /\ demands[o].ordered \in Nat
    BY <2>3, <2>4, Tables, AllocatedType, TableRows, RowColumns
  <2>6. CASE \E q \in Quantities : Amend(o, q)
    BY <2>6, AmendFair
  <2>7. CASE \E q \in Quantities : AllocateQuantity(o, q)
    <3>1. PICK q \in Quantities : AllocateQuantity(o, q)
      BY <2>7
    <3>2. q \in Nat
      BY FulfillmentAssumption
    <3>3. PICK target : target = Allocated(State, o) + q
      OBVIOUS
    <3>4. target \in Nat /\ Allocated(State, o) <= target
      BY <2>5, <3>2, <3>3
    <3>5. AllocateUpTo(o, target)
      BY <3>1, <3>3 DEF AllocateQuantity
    <3> QED
      BY <3>4, <3>5, AllocateUpToFair
  <2>8. CASE AllocateAuto(o)
    <3>1. PICK target : target = demands[o].ordered
      OBVIOUS
    <3>2. AllocateUpTo(o, target)
      BY <2>8, <3>1 DEF AllocateAuto
    <3>3. target \in Nat /\ Allocated(State, o) <= target
      BY <2>5, <3>1, <3>2 DEF AllocateUpTo, Allocatable
    <3> QED
      BY <3>2, <3>3, AllocateUpToFair
  <2>9. CASE CancelDraft(o)
    BY <2>9, CancelDraftFair
  <2>10. CASE CancelConfirmed(o)
    BY <2>10, CancelConfirmedFair
  <2>11. CASE AllocateManual(o)
    BY <2>11, AllocateManualFair
  <2>12. CASE CreateDelivery(o)
    BY <2>12, CreateDeliveryFair
  <2> QED
    BY <1>3, <2>6, <2>7, <2>8, <2>9, <2>10, <2>11, <2>12 DEF OrderStep
<1> QED
  BY <1>2, <1>3

\* What happens to a delivery order.
LEMMA DeliveryStepFair ==
  ASSUME SInv, OInv, NEW d \in DOMAIN deliveries, DeliveryStep(d)
  PROVE  FairStep
<1>1. PICK none : none \notin Orders
  BY NotAnOrder
<1>2. SInv'
  BY DeliveryStepSound
<1>3. ASSUME NEW from, NEW to, SetDelivery(d, from, to) PROVE FairStep
  BY <1>1, <1>2, <1>3, SetDeliveryFair DEF FairStep
<1>4. CASE ConfirmDelivery(d) \/ CancelDelivery(d) \/ ReleaseDelivery(d)
  BY <1>3, <1>4 DEF ConfirmDelivery, CancelDelivery, ReleaseDelivery
<1>5. CASE \E st \in Shipped : Issue(d, st)
  BY <1>1, <1>5, IssueFair DEF FairStep
<1>6. CASE ReverseIssue(d)
  BY <1>1, <1>6, ReverseIssueFair DEF FairStep
<1> QED
  BY <1>4, <1>5, <1>6 DEF DeliveryStep

\* Every step.
LEMMA NextFair ==
  ASSUME SInv, OInv, Next
  PROVE  FairStep
<1>1. PICK none : none \notin Orders
  BY NotAnOrder
<1>2. ASSUME NEW o \in Orders, OrderStep(o) PROVE FairStep
  BY <1>2, OrderStepFair
<1>3. ASSUME NEW delta \in Postings, PostStock(delta) PROVE FairStep
  BY <1>1, <1>3, PostStockFair DEF FairStep
<1>4. ASSUME NEW a \in DOMAIN allocations, NEW q \in Quantities, AllocationStep(a, q)
      PROVE  FairStep
  BY <1>1, <1>4, AllocationStepFair DEF FairStep
<1>5. ASSUME NEW d \in DOMAIN deliveries, DeliveryStep(d) PROVE FairStep
  BY <1>5, DeliveryStepFair
<1> QED
  BY <1>2, <1>3, <1>4, <1>5 DEF Next

\* The queue of the empty tables is empty, and drafts hold nothing.
LEMMA InitOrdersHold == Init => OInv
<1> SUFFICES ASSUME Init PROVE OInv
  OBVIOUS
<1>1. PICK s : s = State
  OBVIOUS
<1>2. /\ s.queue = <<>> /\ s.deliveries = <<>>
      /\ s.demands = [o \in Orders |-> NoDemand]
  BY <1>1, Tables DEF Init
<1>3. /\ 1..Len(s.queue) = {} /\ DOMAIN s.deliveries = {}
      /\ \A o \in Orders : s.demands[o].reserved = 0
  BY <1>2 DEF NoDemand
<1> QED
  BY <1>1, <1>3 DEF OInv, OrdersHold, InQueueOnce

\* The orders keep their order: one that is confirmed is queued once and is never
\* a draft again, drafts hold nothing, and delivery orders take something.
THEOREM OrdersStay == Spec => [](SInv /\ OInv)
<1>1. Init => SInv /\ OInv
  BY InitSound, InitOrdersHold
<1>2. SInv /\ OInv /\ [Next]_vars => (SInv /\ OInv)'
  <2> SUFFICES ASSUME SInv, OInv, [Next]_vars PROVE SInv' /\ OInv'
    OBVIOUS
  <2>1. SInv'
    BY NextSound
  <2>2. CASE Next
    BY <2>1, <2>2, NextFair DEF FairStep, OInv
  <2>3. CASE UNCHANGED vars
    <3>1. State' = State
      BY <2>3 DEF vars, State
    <3> QED
      BY <2>1, <3>1 DEF OInv
  <2> QED
    BY <2>2, <2>3
<1> QED
  BY <1>1, <1>2, PTL DEF Spec

\* No step promises stock that is already promised, except that a document takes
\* held stock out or an issue is reversed: confirming, amending, cancelling,
\* allocating, picking and issuing, in any order, never oversell, since every
\* hold is set within what is left over beside the holds of the others.
THEOREM PromisedOnce == Spec => NeverPromisedTwice
<1> DEFINE Once == \/ Uncommitted(State, Orders)' >= 0
                   \/ Uncommitted(State, Orders)' >= Uncommitted(State, Orders)
                   \/ ReversesIssues
                   \/ \E delta \in Postings : TakesStock(delta)
<1>1. SInv /\ OInv /\ [Next]_vars => [Once]_vars
  <2> SUFFICES ASSUME SInv, OInv, Next PROVE Once
    OBVIOUS
  <2>1. FairStep
    BY NextFair
  <2>2. PICK t : t = State'
    OBVIOUS
  <2>3. Uncommitted(State, Orders)' = Uncommitted(t, Orders)
    BY <2>2
  <2>4. \/ NoMorePromised(State, t) \/ ReversesIssues
        \/ \E delta \in Postings : TakesStock(delta)
    BY <2>1, <2>2 DEF FairStep
  <2> QED
    BY <2>3, <2>4 DEF NoMorePromised
<1> QED
  BY <1>1, OrdersStay, PTL DEF Spec, NeverPromisedTwice

\* "Never take existing holds away from another order": what an order holds or has
\* allocated shrinks only by a request about that order, although receipts,
\* reversals and the amendments of the others reconcile every order that waits.
THEOREM HoldsStay == Spec => HoldsAreKept
<1> DEFINE Kept == \A o \in Orders : demands'[o].reserved < demands[o].reserved => OwnStep(o)
<1>1. SInv /\ OInv /\ [Next]_vars => [Kept]_vars
  <2> SUFFICES ASSUME SInv, OInv, Next,
                      NEW o \in Orders, demands'[o].reserved < demands[o].reserved
               PROVE  OwnStep(o)
    OBVIOUS
  <2>1. SInv' /\ FairStep
    BY NextSound, NextFair
  <2>2. PICK p : InTurn(State, State', p) /\ (p \in Orders => OwnStep(p))
    BY <2>1 DEF FairStep
  <2>3. PICK s, t : s = State /\ t = State'
    OBVIOUS
  <2>4. s.demands[o].reserved \in Nat /\ t.demands[o].reserved \in Nat
    <3>1. s \in States /\ t \in States
      BY <2>1, <2>3 DEF SInv, Sound
    <3> QED
      BY <3>1, TableRows, RowColumns
  <2>5. t.demands[o].reserved < s.demands[o].reserved
    BY <2>3, Tables, NextTables
  <2>6. ~(t.demands[o].reserved >= s.demands[o].reserved)
    BY <2>4, <2>5
  <2>7. o = p
    BY <2>2, <2>3, <2>6 DEF InTurn
  <2> QED
    BY <2>2, <2>7
<1> QED
  BY <1>1, OrdersStay, PTL DEF Spec, HoldsAreKept

\* "Oldest confirmed demand first": an order gains by a receipt, a cancellation or
\* another order's amendment only when every older order that waited is served.
THEOREM ServedInTurn == Spec => OldestFirst
<1> DEFINE First == \A i, j \in DOMAIN queue :
                      /\ i < j
                      /\ demands'[queue[j]].reserved > demands[queue[j]].reserved
                      /\ Pending(State, queue[i])
                      => \/ ~Pending(State, queue[i])'
                         \/ OwnStep(queue[j])
<1>1. SInv /\ OInv /\ [Next]_vars => [First]_vars
  <2> SUFFICES ASSUME SInv, OInv, Next, NEW i \in DOMAIN queue, NEW j \in DOMAIN queue, i < j,
                      demands'[queue[j]].reserved > demands[queue[j]].reserved,
                      Pending(State, queue[i]), ~OwnStep(queue[j])
               PROVE  ~Pending(State, queue[i])'
    OBVIOUS
  <2>1. FairStep
    BY NextFair
  <2>2. PICK p : InTurn(State, State', p) /\ (p \in Orders => OwnStep(p))
    BY <2>1 DEF FairStep
  <2>3. PICK s, t : s = State /\ t = State'
    OBVIOUS
  <2>4. /\ s.queue = queue /\ s.demands = demands
        /\ t.queue = queue' /\ t.demands = demands'
    BY <2>3, Tables, NextTables
  <2>5. /\ DOMAIN s.queue = 1..Len(s.queue)
        /\ \A x \in 1..Len(s.queue) : s.queue[x] \in Orders
    BY <2>3, TableRows DEF SInv, Sound
  <2>6. i \in 1..Len(s.queue) /\ j \in 1..Len(s.queue) /\ s.queue[j] # p
    BY <2>2, <2>4, <2>5
  <2>7. ~Pending(t, s.queue[i]) /\ t.queue[i] = s.queue[i]
    BY <2>2, <2>3, <2>4, <2>6 DEF InTurn
  <2>8. Pending(State, queue[i])' = Pending(t, t.queue[i])
    BY <2>3, <2>4
  <2> QED
    BY <2>7, <2>8
<1> QED
  BY <1>1, OrdersStay, PTL DEF Spec, OldestFirst
=============================================================================
