--------------------------- MODULE CodCustody_proofs ---------------------------
(***************************************************************************)
(* Custody and the unwinding of collections, for any number of requests    *)
(* under way, collections, handovers and allocations.  A request commits   *)
(* on what it saw when it began, so the invariant says what nobody can     *)
(* have changed since then: what a handover was allowed to carry, and that *)
(* no handover stands of a collection under reversal.                      *)
(***************************************************************************)
EXTENDS CodCustody, Sums

-----------------------------------------------------------------------------
(* Sums over the two tables, as operators on the table.                    *)

AllocationRows == [payment : Collections, receivable : Collections,
                   amount : Nat \ {0}, reversed : BOOLEAN]

ActiveIn(t) == {i \in DOMAIN t : ~t[i].reversed}
PaidIn(t, c) == {i \in ActiveIn(t) : t[i].payment = c}
SettledIn(t, d) == {i \in ActiveIn(t) : t[i].receivable = d}
AmountIn(t, rows) == SumFunctionOnSet([i \in rows |-> t[i].amount], rows)

StandingIn(hs, c) ==
  {h \in Handovers : ~hs[h].reversed /\ c \in DOMAIN hs[h].lines}
HandedIn(hs, c) ==
  SumFunctionOnSet([h \in StandingIn(hs, c) |-> hs[h].lines[c]], StandingIn(hs, c))

-----------------------------------------------------------------------------
(* The inductive invariant.                                                *)

LineSets == Sheets \union {NoLines}
HandoverRows == [lines : LineSets, reversed : BOOLEAN]
RequestRows == [op : Operations \union {"none"}, of : SUBSET (Collections \union Handovers),
                lines : LineSets, listed : SUBSET Nat]

Typed ==
  /\ tripOpen \in BOOLEAN
  /\ collections \in [Collections -> [method : Methods \union {"none"},
                                      received : Received \union {0}, reversed : BOOLEAN]]
  /\ payments \in [Collections -> {"none", "posted", "reversed"}]
  /\ allocations \in Seq(AllocationRows)
  /\ handovers \in [Handovers -> HandoverRows]
  /\ acceptances \in [Handovers -> {"none", "active", "reversed"}]
  /\ requests \in [Requests -> RequestRows]

\* No document is allocated beyond its amount.
WithinAmounts == \A c \in Collections : Unallocated(c) >= 0 /\ Owed(c) >= 0

\* An assignment without a collection, and a handover that was not written,
\* have nothing that could be undone.
NotYetWritten ==
  /\ \A c \in Collections : ~Recorded(c) => collections[c] = NoCollection
  /\ \A h \in Handovers : ~HandedOver(h) => ~handovers[h].reversed

\* A request names one document, and a handover the amounts it carries.
IsWhole(r) ==
  /\ r.op = "none" => r = Idle
  /\ r.op \in {"hand over", "accept", "reverse handover"} => \E h \in Handovers : r.of = {h}
  /\ r.op = "hand over" => r.lines \in Sheets
  /\ r.op = "reverse collection" => \E c \in Collections : r.of = {c}

\* What a request saw when it began still holds of the tables it commits to.
\* The custody a handover looked at can only have grown; nothing stands of a
\* collection under reversal, and what was listed are rows of its payment.
StillHolds(r, cs, hs, t) ==
  /\ r.op = "reverse handover" => \A h \in r.of : DOMAIN hs[h].lines # {}
  /\ r.op = "hand over" =>
       /\ \A h \in r.of : DOMAIN hs[h].lines = {}
       /\ \A c \in DOMAIN r.lines : r.lines[c] + HandedIn(hs, c) <= cs[c].received
  /\ r.op = "reverse collection" =>
       \A c \in r.of :
         /\ cs[c].method # "none" /\ ~cs[c].reversed
         /\ StandingIn(hs, c) = {}
         /\ \A i \in r.listed : i \in DOMAIN t /\ t[i].payment = c

RequestsHold ==
  \A q \in Requests :
    IsWhole(requests[q]) /\ StillHolds(requests[q], collections, handovers, allocations)

\* One handover of the trip at a time, and one reversal of a collection.
Exclude(r, s) ==
  /\ ~(r.op = "hand over" /\ s.op = "hand over")
  /\ r.op = "reverse collection" /\ s.op = "reverse collection" => r.of # s.of

OneAtATime == \A p, q \in Requests : p # q => Exclude(requests[p], requests[q])

IInv ==
  /\ Typed
  /\ WithinAmounts
  /\ NotYetWritten
  /\ RequestsHold
  /\ OneAtATime
  /\ HandedOverWithinReceived
  /\ ReversedCollectionSettlesNothing

-----------------------------------------------------------------------------
(* The tables.                                                             *)

\* The sums of the model are the sums over its tables, before and after a step.
LEMMA TablesBefore ==
  /\ \A c : RowsOf(c) = PaidIn(allocations, c) /\ RowsTo(c) = SettledIn(allocations, c)
  /\ \A rows : AmountOf(rows) = AmountIn(allocations, rows)
  /\ \A c : LinesOf(c) = StandingIn(handovers, c)
  /\ \A c : HandedOverAmount(c) = HandedIn(handovers, c)
<1>1. \A c : LinesOf(c) = StandingIn(handovers, c)
  BY DEF LinesOf, StandingIn, Standing, HandedOver
<1> QED
  BY <1>1 DEF RowsOf, RowsTo, ActiveRows, ActiveIn, PaidIn, SettledIn, AmountOf, AmountIn,
              HandedOverAmount, HandedIn

\* The same for the tables a step leaves behind.
LEMMA TablesAfter ==
  /\ \A c : RowsOf(c)' = PaidIn(allocations', c) /\ RowsTo(c)' = SettledIn(allocations', c)
  /\ \A c : Unallocated(c)' = collections'[c].received - AmountIn(allocations', PaidIn(allocations', c))
  /\ \A d : Owed(d)' = Due[d] - AmountIn(allocations', SettledIn(allocations', d))
  /\ \A c : LinesOf(c)' = StandingIn(handovers', c)
  /\ \A c : HandedOverAmount(c)' = HandedIn(handovers', c)
<1>1. \A c : LinesOf(c)' = StandingIn(handovers', c)
  BY DEF LinesOf, StandingIn, Standing, HandedOver
<1> QED
  BY <1>1 DEF RowsOf, RowsTo, ActiveRows, ActiveIn, PaidIn, SettledIn, AmountOf, AmountIn,
              HandedOverAmount, HandedIn, Unallocated, Owed

\* The rows of a table of allocations.
LEMMA TableRows ==
  ASSUME NEW t \in Seq(AllocationRows)
  PROVE  /\ Len(t) \in Nat /\ DOMAIN t = 1..Len(t) /\ IsFiniteSet(DOMAIN t)
         /\ \A i \in DOMAIN t : /\ t[i] \in AllocationRows
                                /\ t[i].amount \in Nat /\ t[i].amount # 0
                                /\ t[i].reversed \in BOOLEAN
<1>1. Len(t) \in Nat /\ DOMAIN t = 1..Len(t)
  OBVIOUS
<1>2. IsFiniteSet(1..Len(t))
  BY <1>1, FS_Interval
<1>3. \A i \in DOMAIN t : t[i] \in AllocationRows
  BY <1>1
<1> QED
  BY <1>1, <1>2, <1>3 DEF AllocationRows

\* A part of the allocations has an amount, and a part of it no larger one.
LEMMA AmountType ==
  ASSUME NEW t \in Seq(AllocationRows), NEW rows, rows \subseteq DOMAIN t
  PROVE  /\ IsFiniteSet(rows)
         /\ AmountIn(t, rows) \in Nat
         /\ \A part \in SUBSET rows : AmountIn(t, part) <= AmountIn(t, rows)
<1> DEFINE f == [i \in rows |-> t[i].amount]
<1>1. IsFiniteSet(rows)
  BY TableRows, FS_Subset
<1>2. \A i \in rows : f[i] \in Nat
  BY TableRows
<1>3. AmountIn(t, rows) \in Nat
  BY <1>1, <1>2, SumNat DEF AmountIn
<1>4. ASSUME NEW part \in SUBSET rows
      PROVE  AmountIn(t, part) <= AmountIn(t, rows)
  <2>1. SumFunctionOnSet(f, part) <= SumFunctionOnSet(f, rows)
    <3> HIDE DEF f
    <3> QED
      BY <1>1, <1>2, SumSubset
  <2>2. AmountIn(t, part) = SumFunctionOnSet(f, part)
    BY <1>1, FS_Subset, SumCongruence DEF AmountIn
  <2> QED
    BY <2>1, <2>2 DEF AmountIn
<1> QED
  BY <1>1, <1>3, <1>4

\* Two tables with the same amounts in some rows have the same sum over them.
LEMMA SameAmounts ==
  ASSUME NEW t, NEW u, NEW rows, IsFiniteSet(rows), \A i \in rows : t[i].amount = u[i].amount
  PROVE  AmountIn(t, rows) = AmountIn(u, rows)
  BY SumCongruence DEF AmountIn

\* One more allocation raises the sum of its payment and of its receivable.
LEMMA AmountsAfterAppend ==
  ASSUME NEW t \in Seq(AllocationRows), NEW r \in AllocationRows, ~r.reversed
  PROVE  LET u == Append(t, r)
         IN /\ u \in Seq(AllocationRows)
            /\ \A c : /\ AmountIn(u, PaidIn(u, c)) =
                           AmountIn(t, PaidIn(t, c)) + (IF r.payment = c THEN r.amount ELSE 0)
                      /\ AmountIn(u, SettledIn(u, c)) =
                           AmountIn(t, SettledIn(t, c)) + (IF r.receivable = c THEN r.amount ELSE 0)
                      /\ r.payment # c => PaidIn(u, c) = PaidIn(t, c)
<1> DEFINE u == Append(t, r)
           n == Len(t)
<1>1. /\ n \in Nat /\ DOMAIN t = 1..n /\ DOMAIN u = 1..(n + 1) /\ u \in Seq(AllocationRows)
      /\ \A i \in 1..n : u[i] = t[i] /\ t[i] \in AllocationRows
      /\ u[n + 1] = r
  OBVIOUS
<1>2. r.amount \in Nat
  BY DEF AllocationRows
<1>3. ASSUME NEW rows, rows \subseteq DOMAIN t
      PROVE  /\ AmountIn(u, rows) = AmountIn(t, rows)
             /\ AmountIn(u, rows \union {n + 1}) = AmountIn(t, rows) + r.amount
  <2> DEFINE f == [i \in rows \union {n + 1} |-> u[i].amount]
  <2>1. IsFiniteSet(rows) /\ n + 1 \notin rows /\ AmountIn(t, rows) \in Nat
    BY <1>1, <1>3, AmountType
  <2>2. \A i \in rows : f[i] = t[i].amount /\ f[i] \in Int
    BY <1>1, <1>3, TableRows
  <2>3. f[n + 1] = r.amount /\ f[n + 1] \in Int
    BY <1>1, <1>2
  <2>4. SumFunctionOnSet(f, rows) = AmountIn(t, rows)
    <3> DEFINE g == [i \in rows |-> t[i].amount]
    <3>1. \A i \in rows : f[i] = g[i]
      BY <2>2
    <3>2. AmountIn(t, rows) = SumFunctionOnSet(g, rows)
      BY DEF AmountIn
    <3> HIDE DEF f, g, u, n
    <3> QED
      BY <2>1, <3>1, <3>2, SumCongruence
  <2>5. SumFunctionOnSet(f, rows \union {n + 1}) = f[n + 1] + SumFunctionOnSet(f, rows)
    <3> HIDE DEF f, u, n
    <3> QED
      BY <2>1, <2>2, <2>3, SumAdd
  <2>6. AmountIn(u, rows) = AmountIn(t, rows)
    <3>1. \A i \in rows : u[i].amount = t[i].amount
      BY <1>1, <1>3
    <3> HIDE DEF u
    <3> QED
      BY <2>1, <3>1, SameAmounts
  <2>7. AmountIn(u, rows \union {n + 1}) = SumFunctionOnSet(f, rows \union {n + 1})
    BY DEF AmountIn
  <2> HIDE DEF f, u, n
  <2> QED
    BY <1>2, <2>1, <2>3, <2>4, <2>5, <2>6, <2>7
<1>4. \A c : /\ PaidIn(t, c) \subseteq DOMAIN t /\ SettledIn(t, c) \subseteq DOMAIN t
             /\ PaidIn(u, c) = IF r.payment = c THEN PaidIn(t, c) \union {n + 1} ELSE PaidIn(t, c)
             /\ SettledIn(u, c) = IF r.receivable = c THEN SettledIn(t, c) \union {n + 1}
                                                      ELSE SettledIn(t, c)
  <2> HIDE DEF u
  <2>1. \A i : i \in ActiveIn(u) <=> i \in ActiveIn(t) \/ i = n + 1
    BY <1>1 DEF ActiveIn
  <2> QED
    BY <1>1, <2>1 DEF PaidIn, SettledIn, ActiveIn
<1>5. \A c : AmountIn(t, PaidIn(t, c)) \in Nat /\ AmountIn(t, SettledIn(t, c)) \in Nat
  BY <1>4, AmountType
<1> HIDE DEF u, n
<1>6. ASSUME NEW c
      PROVE  /\ AmountIn(u, PaidIn(u, c)) =
                  AmountIn(t, PaidIn(t, c)) + (IF r.payment = c THEN r.amount ELSE 0)
             /\ r.payment # c => PaidIn(u, c) = PaidIn(t, c)
  <2>1. CASE r.payment = c
    BY <1>3, <1>4, <2>1
  <2>2. CASE r.payment # c
    <3>1. PaidIn(u, c) = PaidIn(t, c)
      BY <1>4, <2>2
    <3>2. AmountIn(u, PaidIn(t, c)) = AmountIn(t, PaidIn(t, c))
      BY <1>3, <1>4
    <3> QED
      BY <1>5, <2>2, <3>1, <3>2
  <2> QED
    BY <2>1, <2>2
<1>7. ASSUME NEW c
      PROVE  AmountIn(u, SettledIn(u, c)) =
               AmountIn(t, SettledIn(t, c)) + (IF r.receivable = c THEN r.amount ELSE 0)
  <2>1. CASE r.receivable = c
    BY <1>3, <1>4, <2>1
  <2>2. CASE r.receivable # c
    <3>1. SettledIn(u, c) = SettledIn(t, c)
      BY <1>4, <2>2
    <3>2. AmountIn(u, SettledIn(t, c)) = AmountIn(t, SettledIn(t, c))
      BY <1>3, <1>4
    <3> QED
      BY <1>5, <2>2, <3>1, <3>2
  <2> QED
    BY <2>1, <2>2
<1> QED
  BY <1>1, <1>6, <1>7 DEF u

\* Table u is table t with some rows reversed.
HasReversed(t, rows, u) ==
  u = [i \in DOMAIN t |-> IF i \in rows THEN [t[i] EXCEPT !.reversed = TRUE] ELSE t[i]]

\* Reversing rows takes them out of both sides and raises no sum.
LEMMA AmountsAfterReversal ==
  ASSUME NEW t \in Seq(AllocationRows), NEW rows, NEW u, HasReversed(t, rows, u)
  PROVE  /\ u \in Seq(AllocationRows)
         /\ DOMAIN u = DOMAIN t
         /\ \A i \in DOMAIN t : u[i].payment = t[i].payment
         /\ \A c : /\ PaidIn(u, c) = PaidIn(t, c) \ rows
                   /\ AmountIn(u, PaidIn(u, c)) <= AmountIn(t, PaidIn(t, c))
                   /\ AmountIn(u, SettledIn(u, c)) <= AmountIn(t, SettledIn(t, c))
<1>1. \A i \in DOMAIN t : /\ u[i] \in AllocationRows /\ u[i].payment = t[i].payment
                          /\ u[i].receivable = t[i].receivable /\ u[i].amount = t[i].amount
                          /\ u[i].reversed <=> (t[i].reversed \/ i \in rows)
  <2> TAKE i \in DOMAIN t
  <2>1. t[i] \in AllocationRows
    OBVIOUS
  <2> QED
    BY <2>1 DEF AllocationRows, HasReversed
<1>2. u \in Seq(AllocationRows) /\ DOMAIN u = DOMAIN t
  <2>1. Len(t) \in Nat /\ DOMAIN t = 1..Len(t)
    OBVIOUS
  <2>2. DOMAIN u = 1..Len(t)
    BY <2>1 DEF HasReversed
  <2>3. u = [i \in 1..Len(t) |-> u[i]]
    BY <2>1 DEF HasReversed
  <2> QED
    BY <1>1, <2>1, <2>2, <2>3
<1>3. \A c : PaidIn(u, c) = PaidIn(t, c) \ rows /\ SettledIn(u, c) = SettledIn(t, c) \ rows
  BY <1>1, <1>2 DEF PaidIn, SettledIn, ActiveIn
<1>4. ASSUME NEW all, all \subseteq DOMAIN t
      PROVE  AmountIn(u, all \ rows) <= AmountIn(t, all)
  <2>1. IsFiniteSet(all) /\ AmountIn(t, all \ rows) <= AmountIn(t, all)
    BY <1>4, AmountType
  <2>2. IsFiniteSet(all \ rows) /\ \A i \in all \ rows : u[i].amount = t[i].amount
    BY <1>1, <1>4, <2>1, FS_Subset
  <2> QED
    BY <2>1, <2>2, SameAmounts
<1>5. \A c : PaidIn(t, c) \subseteq DOMAIN t /\ SettledIn(t, c) \subseteq DOMAIN t
  BY DEF PaidIn, SettledIn, ActiveIn
<1> QED
  BY <1>1, <1>2, <1>3, <1>4, <1>5

\* The lines of standing handovers of a collection, and their sum.
LEMMA HandedType ==
  ASSUME NEW hs \in [Handovers -> HandoverRows], NEW c
  PROVE  /\ IsFiniteSet(StandingIn(hs, c))
         /\ \A h \in StandingIn(hs, c) : hs[h].lines[c] \in Nat
         /\ HandedIn(hs, c) \in Nat
<1>1. IsFiniteSet(StandingIn(hs, c))
  BY CodAssumption, FS_Subset DEF StandingIn
<1>2. ASSUME NEW h \in StandingIn(hs, c)
      PROVE  hs[h].lines[c] \in Nat
  <2>1. hs[h].lines \in Sheets /\ c \in DOMAIN hs[h].lines
    BY DEF StandingIn, HandoverRows, LineSets, NoLines
  <2>2. hs[h].lines[c] \in Range(hs[h].lines)
    BY <2>1 DEF Range
  <2> QED
    BY <2>1, <2>2, CodAssumption
<1>3. HandedIn(hs, c) \in Nat
  BY <1>1, <1>2, SumNat DEF HandedIn
<1> QED
  BY <1>1, <1>2, <1>3

\* A sheet carries a positive amount of each of its collections.
LEMMA SheetType ==
  ASSUME NEW lines \in Sheets
  PROVE  /\ DOMAIN lines # {} /\ DOMAIN lines \subseteq Collections
         /\ \A c \in DOMAIN lines : lines[c] \in Nat
  BY CodAssumption DEF Range

\* Writing a handover adds its lines to what was handed over.
LEMMA HandedAfterWriting ==
  ASSUME NEW hs \in [Handovers -> HandoverRows], NEW h \in Handovers, NEW lines \in Sheets,
         DOMAIN hs[h].lines = {},
         NEW us, us[h].lines = lines, ~us[h].reversed, \A k \in Handovers \ {h} : us[k] = hs[k]
  PROVE  \A c : IF c \in DOMAIN lines
                  THEN HandedIn(us, c) = HandedIn(hs, c) + lines[c]
                  ELSE StandingIn(us, c) = StandingIn(hs, c) /\ HandedIn(us, c) = HandedIn(hs, c)
<1>2. us[h].lines = lines /\ ~us[h].reversed /\ \A k \in Handovers \ {h} : us[k] = hs[k]
  OBVIOUS
<1>3. ASSUME NEW c \in DOMAIN lines
      PROVE  HandedIn(us, c) = HandedIn(hs, c) + lines[c]
  <2> DEFINE S == StandingIn(hs, c)
             f == [k \in S \union {h} |-> us[k].lines[c]]
  <2>1. StandingIn(us, c) = S \union {h} /\ h \notin S
    BY <1>2 DEF StandingIn
  <2>2. IsFiniteSet(S) /\ HandedIn(hs, c) \in Nat /\ lines[c] \in Nat
    BY HandedType, SheetType
  <2>3. ASSUME NEW k \in S
        PROVE  f[k] = hs[k].lines[c] /\ f[k] \in Int
    <3>1. us[k] = hs[k]
      BY <1>2, <2>1 DEF StandingIn
    <3>2. hs[k].lines[c] \in Int
      BY HandedType
    <3> QED
      BY <3>1, <3>2
  <2>4. f[h] = lines[c]
    BY <1>2
  <2>5. SumFunctionOnSet(f, S) = HandedIn(hs, c)
    BY <2>2, <2>3, SumCongruence DEF HandedIn
  <2>6. HandedIn(us, c) = SumFunctionOnSet(f, S \union {h})
    BY <2>1 DEF HandedIn
  <2> HIDE DEF f, S
  <2>7. SumFunctionOnSet(f, S \union {h}) = f[h] + SumFunctionOnSet(f, S)
    BY <2>1, <2>2, <2>3, <2>4, SumAdd
  <2> QED
    BY <2>2, <2>4, <2>5, <2>6, <2>7
<1>4. ASSUME NEW c, c \notin DOMAIN lines
      PROVE  StandingIn(us, c) = StandingIn(hs, c) /\ HandedIn(us, c) = HandedIn(hs, c)
  <2>1. StandingIn(us, c) = StandingIn(hs, c) /\ h \notin StandingIn(hs, c)
    BY <1>2, <1>4 DEF StandingIn
  <2>2. \A k \in StandingIn(hs, c) : us[k] = hs[k]
    BY <1>2, <2>1 DEF StandingIn
  <2> QED
    BY <2>1, <2>2, HandedType, SumCongruence DEF HandedIn
<1> QED
  BY <1>3, <1>4

\* Reversing a handover takes its lines away and touches no other.
LEMMA HandedAfterReversal ==
  ASSUME NEW hs \in [Handovers -> HandoverRows],
         NEW us \in [Handovers -> HandoverRows],
         \A k \in Handovers : us[k].lines = hs[k].lines /\ (hs[k].reversed => us[k].reversed)
  PROVE  \A c : StandingIn(us, c) \subseteq StandingIn(hs, c) /\ HandedIn(us, c) <= HandedIn(hs, c)
<1>1. \A k \in Handovers : us[k].lines = hs[k].lines
  OBVIOUS
<1>2. \A k \in Handovers : hs[k].reversed => us[k].reversed
  OBVIOUS
<1>3. ASSUME NEW c
      PROVE  StandingIn(us, c) \subseteq StandingIn(hs, c) /\ HandedIn(us, c) <= HandedIn(hs, c)
  <2> DEFINE f == [k \in StandingIn(hs, c) |-> hs[k].lines[c]]
  <2>1. StandingIn(us, c) \subseteq StandingIn(hs, c)
    BY <1>1, <1>2 DEF StandingIn
  <2>2. IsFiniteSet(StandingIn(hs, c)) /\ IsFiniteSet(StandingIn(us, c))
        /\ \A k \in StandingIn(hs, c) : f[k] \in Nat
    BY <1>1, HandedType
  <2>3. \A k \in StandingIn(us, c) : f[k] = us[k].lines[c]
    BY <1>1, <2>1 DEF StandingIn
  <2>4. HandedIn(us, c) = SumFunctionOnSet(f, StandingIn(us, c))
    <3> DEFINE g == [k \in StandingIn(us, c) |-> us[k].lines[c]]
    <3>1. \A k \in StandingIn(us, c) : g[k] = f[k]
      BY <2>3
    <3>2. HandedIn(us, c) = SumFunctionOnSet(g, StandingIn(us, c))
      BY DEF HandedIn
    <3> HIDE DEF f, g
    <3> QED
      BY <2>2, <3>1, <3>2, SumCongruence
  <2>5. HandedIn(hs, c) = SumFunctionOnSet(f, StandingIn(hs, c))
    BY DEF HandedIn
  <2> HIDE DEF f
  <2> QED
    BY <2>1, <2>2, <2>4, <2>5, SumSubset
<1> QED
  BY <1>3

-----------------------------------------------------------------------------
(* Requests.                                                               *)

\* The invariant in terms of the tables after a step.
LEMMA InvariantAfter ==
  ASSUME Typed', RequestsHold', OneAtATime', NotYetWritten',
         \A c \in Collections :
           /\ collections'[c].received - AmountIn(allocations', PaidIn(allocations', c)) >= 0
           /\ Due[c] - AmountIn(allocations', SettledIn(allocations', c)) >= 0
           /\ HandedIn(handovers', c) <= collections'[c].received
           /\ collections'[c].reversed => payments'[c] # "posted" /\ PaidIn(allocations', c) = {}
  PROVE  IInv'
  BY TablesAfter DEF IInv, WithinAmounts, HandedOverWithinReceived, ReversedCollectionSettlesNothing

\* The invariant in terms of the tables before a step.
LEMMA InvariantBefore ==
  ASSUME IInv, NEW c \in Collections
  PROVE  /\ collections[c].received \in Nat
         /\ AmountIn(allocations, PaidIn(allocations, c)) \in Nat
         /\ AmountIn(allocations, SettledIn(allocations, c)) \in Nat
         /\ HandedIn(handovers, c) \in Nat /\ Due[c] \in Nat
         /\ Unallocated(c) = collections[c].received - AmountIn(allocations, PaidIn(allocations, c))
         /\ Owed(c) = Due[c] - AmountIn(allocations, SettledIn(allocations, c))
         /\ collections[c].received - AmountIn(allocations, PaidIn(allocations, c)) >= 0
         /\ Due[c] - AmountIn(allocations, SettledIn(allocations, c)) >= 0
         /\ HandedIn(handovers, c) <= collections[c].received
         /\ collections[c].reversed => payments[c] # "posted" /\ PaidIn(allocations, c) = {}
<1>1. collections[c].received \in Nat /\ Due[c] \in Nat
  <2>1. collections[c].received \in Received \union {0}
    BY DEF IInv, Typed
  <2>2. Received \subseteq Nat \ {0} /\ Due \in [Collections -> Nat]
    BY CodAssumption
  <2>3. Due[c] \in Nat
    BY <2>2
  <2>4. \A x \in Received \union {0} : x \in Nat
    BY <2>2
  <2> QED
    BY <2>1, <2>3, <2>4
<1>2. /\ AmountIn(allocations, PaidIn(allocations, c)) \in Nat
      /\ AmountIn(allocations, SettledIn(allocations, c)) \in Nat
  BY AmountType DEF IInv, Typed, PaidIn, SettledIn, ActiveIn
<1>3. HandedIn(handovers, c) \in Nat
  BY HandedType DEF IInv, Typed
<1>4. /\ Unallocated(c) = collections[c].received - AmountIn(allocations, PaidIn(allocations, c))
      /\ Owed(c) = Due[c] - AmountIn(allocations, SettledIn(allocations, c))
  BY TablesBefore DEF Unallocated, Owed
<1> QED
  BY <1>1, <1>2, <1>3, <1>4, TablesBefore
     DEF IInv, WithinAmounts, HandedOverWithinReceived, ReversedCollectionSettlesNothing

\* Nothing is asked of a request that is not under way.
LEMMA IdleHolds ==
  ASSUME NEW cs, NEW hs, NEW t
  PROVE  IsWhole(Idle) /\ StillHolds(Idle, cs, hs, t) /\ Idle \in RequestRows
  BY DEF IsWhole, StillHolds, Idle, RequestRows, LineSets

\* Handovers stand as they did or are taken back, more is received, other
\* collections are reversed, allocations are added: what does not disturb r.
Undisturbed(r, cs, hs, t, cs2, hs2, t2) ==
  /\ \A h \in Handovers : DOMAIN hs2[h].lines = DOMAIN hs[h].lines
  /\ \A c \in Collections :
       /\ cs[c].received \in Nat /\ cs2[c].received \in Nat
       /\ HandedIn(hs, c) \in Nat /\ HandedIn(hs2, c) \in Nat
       /\ cs[c].received <= cs2[c].received /\ HandedIn(hs2, c) <= HandedIn(hs, c)
       /\ StandingIn(hs2, c) \subseteq StandingIn(hs, c)
       /\ r.op = "reverse collection" /\ r.of = {c} /\ cs[c].method # "none" => cs2[c] = cs[c]
  /\ \A i \in DOMAIN t : i \in DOMAIN t2 /\ t2[i].payment = t[i].payment

\* What an undisturbed request saw goes on holding.
LEMMA HoldsOn ==
  ASSUME NEW r, NEW cs, NEW hs, NEW t, NEW cs2, NEW hs2, NEW t2,
         IsWhole(r), StillHolds(r, cs, hs, t), Undisturbed(r, cs, hs, t, cs2, hs2, t2)
  PROVE  StillHolds(r, cs2, hs2, t2)
<1>1. ASSUME r.op = "reverse handover", NEW h \in r.of
      PROVE  DOMAIN hs2[h].lines # {}
  <2>1. h \in Handovers /\ DOMAIN hs[h].lines # {}
    BY <1>1 DEF IsWhole, StillHolds
  <2> QED
    BY <2>1 DEF Undisturbed
<1>2. ASSUME r.op = "hand over", NEW c \in DOMAIN r.lines
      PROVE  r.lines[c] + HandedIn(hs2, c) <= cs2[c].received
  <2>1. c \in Collections /\ r.lines[c] \in Nat
    BY <1>2, SheetType DEF IsWhole
  <2>2. r.lines[c] + HandedIn(hs, c) <= cs[c].received
    BY <1>2 DEF StillHolds
  <2>3. /\ cs[c].received \in Nat /\ cs2[c].received \in Nat
        /\ HandedIn(hs, c) \in Nat /\ HandedIn(hs2, c) \in Nat
        /\ cs[c].received <= cs2[c].received /\ HandedIn(hs2, c) <= HandedIn(hs, c)
    BY <2>1 DEF Undisturbed
  <2> QED
    BY <2>1, <2>2, <2>3
<1>3. ASSUME r.op = "hand over", NEW h \in r.of
      PROVE  DOMAIN hs2[h].lines = {}
  <2>1. h \in Handovers /\ DOMAIN hs[h].lines = {}
    BY <1>3 DEF IsWhole, StillHolds
  <2> QED
    BY <2>1 DEF Undisturbed
<1>4. ASSUME r.op = "reverse collection", NEW c \in r.of
      PROVE  /\ cs2[c].method # "none" /\ ~cs2[c].reversed
             /\ StandingIn(hs2, c) = {}
             /\ \A i \in r.listed : i \in DOMAIN t2 /\ t2[i].payment = c
  <2>1. c \in Collections /\ r.of = {c}
    BY <1>4 DEF IsWhole
  <2>2. /\ cs[c].method # "none" /\ ~cs[c].reversed /\ StandingIn(hs, c) = {}
        /\ \A i \in r.listed : i \in DOMAIN t /\ t[i].payment = c
    BY <1>4 DEF StillHolds
  <2>3. cs2[c] = cs[c] /\ StandingIn(hs2, c) \subseteq StandingIn(hs, c)
    BY <1>4, <2>1, <2>2 DEF Undisturbed
  <2>4. \A i \in r.listed : i \in DOMAIN t2 /\ t2[i].payment = c
    BY <2>2 DEF Undisturbed
  <2>5. StandingIn(hs2, c) = {}
    BY <2>2, <2>3
  <2>6. cs2[c].method # "none" /\ ~cs2[c].reversed
    BY <2>2, <2>3
  <2> QED
    BY <2>4, <2>5, <2>6
<1> QED
  BY <1>1, <1>2, <1>3, <1>4 DEF StillHolds

\* When requests only end, it is enough that the others still hold.
LEMMA RequestsAfter ==
  ASSUME IInv, NEW ended,
         requests' = [q \in Requests |-> IF q \in ended THEN Idle ELSE requests[q]],
         \A q \in Requests \ ended :
           StillHolds(requests[q], collections', handovers', allocations')
  PROVE  /\ requests' \in [Requests -> RequestRows]
         /\ RequestsHold' /\ OneAtATime'
<1>1. requests' \in [Requests -> RequestRows]
  BY IdleHolds DEF IInv, Typed
<1>2. RequestsHold'
  BY IdleHolds DEF IInv, RequestsHold
<1>3. OneAtATime'
  BY DEF IInv, OneAtATime, Exclude, Idle
<1> QED
  BY <1>1, <1>2, <1>3

\* A request that begins, while the tables stay as they are.
LEMMA BeginStep ==
  ASSUME IInv, NEW q \in Requests, NEW r \in RequestRows,
         requests' = [requests EXCEPT ![q] = r],
         UNCHANGED <<tripOpen, collections, payments, allocations, handovers, acceptances>>,
         IsWhole(r), StillHolds(r, collections, handovers, allocations),
         \A p \in Requests : Exclude(r, requests[p]) /\ Exclude(requests[p], r)
  PROVE  IInv'
<1>1. Typed'
  BY DEF IInv, Typed
<1>2. RequestsHold'
  BY DEF IInv, Typed, RequestsHold
<1>3. OneAtATime'
  BY DEF IInv, Typed, OneAtATime
<1>4. NotYetWritten'
  BY DEF IInv, NotYetWritten, Recorded, HandedOver
<1> QED
  BY <1>1, <1>2, <1>3, <1>4, InvariantBefore, InvariantAfter

-----------------------------------------------------------------------------
(* The steps.                                                              *)

\* Nothing is collected and nothing runs at first.
LEMMA InvInit == Init => IInv
<1> SUFFICES ASSUME Init PROVE IInv
  OBVIOUS
<1>1. /\ \A c : PaidIn(allocations, c) = {} /\ SettledIn(allocations, c) = {}
      /\ \A c : StandingIn(handovers, c) = {}
  BY DEF Init, PaidIn, SettledIn, ActiveIn, StandingIn, NoHandover, NoLines
<1>2. \A t : AmountIn(t, {}) = 0
  BY SumEmpty DEF AmountIn
<1>3. \A c : HandedIn(handovers, c) = 0
  BY <1>1, SumEmpty DEF HandedIn
<1>4. Typed
  <2>1. NoCollection \in [method : Methods \union {"none"},
                          received : Received \union {0}, reversed : BOOLEAN]
    BY DEF NoCollection
  <2>2. NoHandover \in HandoverRows
    BY DEF NoHandover, HandoverRows, LineSets
  <2>3. <<>> \in Seq(AllocationRows)
    OBVIOUS
  <2> QED
    BY <2>1, <2>2, <2>3, IdleHolds DEF Init, Typed
<1>5. NotYetWritten
  BY DEF Init, NotYetWritten, Recorded, NoHandover
<1>6. RequestsHold /\ OneAtATime
  BY IdleHolds DEF Init, RequestsHold, OneAtATime, Exclude, Idle
<1>7. ASSUME NEW c \in Collections
      PROVE  /\ Unallocated(c) >= 0 /\ Owed(c) >= 0
             /\ HandedOverAmount(c) <= collections[c].received
             /\ ~collections[c].reversed
  <2>1. Due[c] \in Nat /\ collections[c] = NoCollection
    BY CodAssumption DEF Init
  <2> QED
    BY <1>1, <1>2, <1>3, <2>1, TablesBefore DEF Unallocated, Owed, NoCollection
<1> QED
  BY <1>4, <1>5, <1>6, <1>7
     DEF IInv, WithinAmounts, HandedOverWithinReceived, ReversedCollectionSettlesNothing

\* No request begins or ends, and the tables change under those under way.
LEMMA RequestsStay ==
  ASSUME IInv, requests' = requests,
         \A q \in Requests : StillHolds(requests[q], collections', handovers', allocations')
  PROVE  requests' \in [Requests -> RequestRows] /\ RequestsHold' /\ OneAtATime'
<1>1. requests' \in [Requests -> RequestRows] /\ OneAtATime'
  BY DEF IInv, Typed, OneAtATime
<1>2. RequestsHold'
  BY DEF IInv, RequestsHold
<1> QED
  BY <1>1, <1>2

\* A collection is new, so no request under way is about it.
LEMMA RecordStep ==
  ASSUME IInv, NEW c \in Collections, NEW method \in Methods, NEW paid \in Received \union {0},
         RecordCollection(c, method, paid)
  PROVE  IInv'
<1> DEFINE applied == AppliedToDelivery(c, paid)
           r == Row(c, c, applied)
           t == allocations
<1>1. /\ collections[c] = NoCollection /\ paid \in Nat
      /\ collections' = [collections EXCEPT ![c] =
                           [method |-> method, received |-> paid, reversed |-> FALSE]]
      /\ UNCHANGED <<tripOpen, handovers, acceptances, requests>>
  BY CodAssumption DEF RecordCollection, IInv, NotYetWritten
<1>2. /\ collections'[c].received = paid /\ ~collections'[c].reversed
      /\ collections'[c].method = method /\ method # "none"
      /\ \A d \in Collections \ {c} : collections'[d] = collections[d]
      /\ collections[c].received = 0 /\ ~Recorded(c)
  BY <1>1 DEF IInv, Typed, NoCollection, Methods, Recorded
<1>3. /\ AmountIn(t, PaidIn(t, c)) = 0
      /\ Owed(c) = Due[c] - AmountIn(t, SettledIn(t, c)) /\ Owed(c) \in Int /\ Owed(c) >= 0
  BY <1>2, InvariantBefore
<1>4. applied \in Int /\ applied <= paid /\ applied <= Owed(c) /\ applied >= 0
  BY <1>1, <1>3 DEF AppliedToDelivery, Least
<1>5. \/ allocations' = t
      \/ /\ allocations' = Append(t, r) /\ applied > 0
         /\ payments' = [payments EXCEPT ![c] = "posted"]
  BY DEF RecordCollection
<1>6. \/ payments' = payments
      \/ payments' = [payments EXCEPT ![c] = "posted"]
  BY DEF RecordCollection
<1>7. t \in Seq(AllocationRows)
  BY DEF IInv, Typed
<1>8. allocations' # t => r \in AllocationRows /\ ~r.reversed /\ r.payment = c /\ r.receivable = c
                          /\ r.amount = applied
  BY <1>4, <1>5 DEF AllocationRows, Row
<1> HIDE DEF applied, r, t
<1>9. /\ allocations' \in Seq(AllocationRows)
      /\ \A i \in DOMAIN t : i \in DOMAIN allocations' /\ allocations'[i] = t[i]
      /\ \A d : d # c => /\ PaidIn(allocations', d) = PaidIn(t, d)
                         /\ AmountIn(allocations', PaidIn(allocations', d)) = AmountIn(t, PaidIn(t, d))
                         /\ d \in Collections =>
                              AmountIn(allocations', SettledIn(allocations', d)) = AmountIn(t, SettledIn(t, d))
      /\ AmountIn(allocations', PaidIn(allocations', c)) <= paid
      /\ AmountIn(allocations', SettledIn(allocations', c)) <= Due[c]
  <2>1. CASE allocations' = t
    BY <1>1, <1>3, <1>7, <2>1, InvariantBefore DEF t
  <2>2. CASE allocations' # t
    <3>1. allocations' = Append(t, r) /\ r \in AllocationRows /\ ~r.reversed
      BY <1>5, <1>8, <2>2
    <3>2. \A i \in DOMAIN t : i \in DOMAIN allocations' /\ allocations'[i] = t[i]
      BY <1>7, <3>1, TableRows
    <3>3. /\ AmountIn(t, SettledIn(t, c)) \in Nat /\ Due[c] \in Nat
          /\ \A d \in Collections : AmountIn(t, PaidIn(t, d)) \in Nat /\ AmountIn(t, SettledIn(t, d)) \in Nat
      BY InvariantBefore DEF t
    <3>4. \A d : AmountIn(t, PaidIn(t, d)) \in Nat /\ AmountIn(t, SettledIn(t, d)) \in Nat
      BY <1>7, AmountType DEF PaidIn, SettledIn, ActiveIn
    <3>5. \A d : d # c => /\ PaidIn(allocations', d) = PaidIn(t, d)
                          /\ AmountIn(allocations', PaidIn(allocations', d)) = AmountIn(t, PaidIn(t, d))
                          /\ AmountIn(allocations', SettledIn(allocations', d)) = AmountIn(t, SettledIn(t, d))
      BY <1>7, <1>8, <2>2, <3>1, <3>4, AmountsAfterAppend
    <3>6. /\ AmountIn(allocations', PaidIn(allocations', c)) = AmountIn(t, PaidIn(t, c)) + applied
          /\ AmountIn(allocations', SettledIn(allocations', c)) = AmountIn(t, SettledIn(t, c)) + applied
      BY <1>7, <1>8, <2>2, <3>1, AmountsAfterAppend
    <3>7. allocations' \in Seq(AllocationRows)
      BY <1>7, <3>1, AmountsAfterAppend
    <3> QED
      BY <1>3, <1>4, <3>2, <3>3, <3>5, <3>6, <3>7
  <2> QED
    BY <2>1, <2>2
<1>10. RequestsHold' /\ OneAtATime' /\ requests' \in [Requests -> RequestRows]
  <2> SUFFICES ASSUME NEW q \in Requests
               PROVE  StillHolds(requests[q], collections', handovers', allocations')
    BY <1>1, RequestsStay
  <2>1. IsWhole(requests[q]) /\ StillHolds(requests[q], collections, handovers, t)
    BY DEF IInv, RequestsHold, t
  <2>2. \A d \in Collections : collections[d].method # "none" => collections'[d] = collections[d]
    BY <1>2 DEF Recorded
  <2>3. \A d \in Collections :
          /\ collections[d].received \in Nat /\ collections'[d].received \in Nat
          /\ collections[d].received <= collections'[d].received
          /\ HandedIn(handovers, d) \in Nat /\ HandedIn(handovers', d) <= HandedIn(handovers, d)
    BY <1>1, <1>2, InvariantBefore
  <2>4. \A i \in DOMAIN t : i \in DOMAIN allocations' /\ allocations'[i].payment = t[i].payment
    BY <1>9
  <2> QED
    <3>1. Undisturbed(requests[q], collections, handovers, t, collections', handovers', allocations')
      BY <1>1, <2>2, <2>3, <2>4 DEF Undisturbed
    <3> QED
      BY <2>1, <3>1, HoldsOn
<1>11. Typed'
  <2>1. collections' \in [Collections -> [method : Methods \union {"none"},
                                          received : Received \union {0}, reversed : BOOLEAN]]
    BY <1>1 DEF IInv, Typed
  <2>2. payments' \in [Collections -> {"none", "posted", "reversed"}]
    BY <1>6 DEF IInv, Typed
  <2> QED
    BY <1>1, <1>9, <1>10, <2>1, <2>2 DEF IInv, Typed
<1>12. NotYetWritten'
  BY <1>1, <1>2 DEF IInv, NotYetWritten, Recorded, HandedOver
<1>13. \A d \in Collections :
         /\ collections'[d].received - AmountIn(allocations', PaidIn(allocations', d)) >= 0
         /\ Due[d] - AmountIn(allocations', SettledIn(allocations', d)) >= 0
         /\ HandedIn(handovers', d) <= collections'[d].received
         /\ collections'[d].reversed => payments'[d] # "posted" /\ PaidIn(allocations', d) = {}
  <2> TAKE d \in Collections
  <2>1. CASE d = c
    <3>1. HandedIn(handovers, c) <= paid
      BY <1>1, <1>2, InvariantBefore
    <3>2. AmountIn(allocations', PaidIn(allocations', c)) \in Nat /\ AmountIn(allocations', SettledIn(allocations', c)) \in Nat
      BY <1>9, AmountType DEF PaidIn, SettledIn, ActiveIn
    <3>3. Due[c] \in Nat
      BY CodAssumption
    <3> QED
      BY <1>1, <1>2, <1>9, <2>1, <3>1, <3>2, <3>3
  <2>2. CASE d # c
    <3>1. payments'[d] = payments[d]
      BY <1>6, <2>2 DEF IInv, Typed
    <3> QED
      BY <1>1, <1>2, <1>9, <2>2, <3>1, InvariantBefore DEF t
  <2> QED
    BY <2>1, <2>2
<1> QED
  BY <1>10, <1>11, <1>12, <1>13, InvariantAfter

\* A step that leaves the money tables alone.
LEMMA SameTables ==
  ASSUME IInv, UNCHANGED <<collections, payments, allocations, handovers>>,
         Typed', RequestsHold', OneAtATime'
  PROVE  IInv'
<1>1. NotYetWritten'
  BY DEF IInv, NotYetWritten, Recorded, HandedOver
<1> QED
  BY <1>1, InvariantBefore, InvariantAfter

\* The trip closes, or an acceptance is taken back: no money table changes.
LEMMA AsideStep ==
  ASSUME IInv, UNCHANGED <<collections, payments, allocations, handovers, requests>>,
         tripOpen' \in BOOLEAN, acceptances' \in [Handovers -> {"none", "active", "reversed"}]
  PROVE  IInv'
<1>1. requests' \in [Requests -> RequestRows] /\ RequestsHold' /\ OneAtATime'
  BY RequestsStay DEF IInv, RequestsHold
<1>2. Typed'
  BY <1>1 DEF IInv, Typed
<1> QED
  BY <1>1, <1>2, SameTables

\* The four kinds of requests, each after its look.
LEMMA BeginHandoverStep ==
  ASSUME IInv, NEW q \in Requests, NEW h \in Handovers, NEW lines \in Sheets,
         BeginHandover(q, h, lines)
  PROVE  IInv'
<1> DEFINE r == Request("hand over", h, lines, {})
<1>1. r \in RequestRows /\ IsWhole(r)
  BY DEF RequestRows, Request, Operations, LineSets, IsWhole
<1>2. r.op = "hand over" /\ r.of = {h} /\ r.lines = lines
  BY DEF Request
<1>3. ASSUME NEW c \in DOMAIN lines
      PROVE  lines[c] + HandedIn(handovers, c) <= collections[c].received
  <2>1. c \in Collections /\ lines[c] \in Nat /\ lines[c] # 0
    BY CodAssumption DEF Range
  <2>2. lines[c] <= Custody(c)
    BY DEF BeginHandover
  <2>3. HandedIn(handovers, c) \in Nat /\ collections[c].received \in Nat
    BY <2>1, InvariantBefore
  <2>4. Custody(c) = 0 \/ Custody(c) = collections[c].received - HandedIn(handovers, c)
    BY TablesBefore DEF Custody
  <2> QED
    BY <2>1, <2>2, <2>3, <2>4
<1>4. StillHolds(r, collections, handovers, allocations)
  BY <1>2, <1>3 DEF StillHolds, BeginHandover, HandedOver
<1>5. \A p \in Requests : Exclude(r, requests[p]) /\ Exclude(requests[p], r)
  BY <1>2 DEF BeginHandover, TripUnlocked, Exclude
<1>6. /\ requests' = [requests EXCEPT ![q] = r]
      /\ UNCHANGED <<tripOpen, collections, payments, allocations, handovers, acceptances>>
  BY DEF BeginHandover
<1> HIDE DEF r
<1> QED
  BY <1>1, <1>4, <1>5, <1>6, BeginStep

\* A request to accept a handover may find it reversed: it relies on nothing.
LEMMA BeginAcceptanceStep ==
  ASSUME IInv, NEW q \in Requests, NEW h \in Handovers, BeginAcceptance(q, h)
  PROVE  IInv'
<1> DEFINE r == Request("accept", h, NoLines, {})
<1>1. r \in RequestRows /\ IsWhole(r) /\ r.op = "accept"
  BY DEF RequestRows, Request, Operations, LineSets, IsWhole
<1>2. /\ requests' = [requests EXCEPT ![q] = r]
      /\ UNCHANGED <<tripOpen, collections, payments, allocations, handovers, acceptances>>
  BY DEF BeginAcceptance
<1> HIDE DEF r
<1>3. StillHolds(r, collections, handovers, allocations)
  BY <1>1 DEF StillHolds
<1>4. \A p \in Requests : Exclude(r, requests[p]) /\ Exclude(requests[p], r)
  BY <1>1 DEF Exclude
<1> QED
  BY <1>1, <1>2, <1>3, <1>4, BeginStep

\* A request to reverse a handover has seen it stand, and shuts out whoever
\* would reverse it too.
LEMMA BeginHandoverReversalStep ==
  ASSUME IInv, NEW q \in Requests, NEW h \in Handovers, BeginHandoverReversal(q, h)
  PROVE  IInv'
<1> DEFINE r == Request("reverse handover", h, NoLines, {})
<1>1. r \in RequestRows /\ IsWhole(r) /\ r.op = "reverse handover" /\ r.of = {h}
  BY DEF RequestRows, Request, Operations, LineSets, IsWhole
<1>2. /\ requests' = [requests EXCEPT ![q] = r]
      /\ UNCHANGED <<tripOpen, collections, payments, allocations, handovers, acceptances>>
  BY DEF BeginHandoverReversal
<1> HIDE DEF r
<1>3. StillHolds(r, collections, handovers, allocations)
  BY <1>1 DEF StillHolds, BeginHandoverReversal, Standing, HandedOver
<1>4. \A p \in Requests : Exclude(r, requests[p]) /\ Exclude(requests[p], r)
  BY <1>1 DEF Exclude
<1> QED
  BY <1>1, <1>2, <1>3, <1>4, BeginStep

\* A request to reverse a collection remembers the allocations it has found.
LEMMA BeginCollectionReversalStep ==
  ASSUME IInv, NEW q \in Requests, NEW c \in Collections, BeginCollectionReversal(q, c)
  PROVE  IInv'
<1> DEFINE r == Request("reverse collection", c, NoLines, RowsOf(c))
<1>1. /\ RowsOf(c) \in SUBSET Nat
      /\ \A i \in RowsOf(c) : i \in DOMAIN allocations /\ allocations[i].payment = c
  BY TableRows DEF RowsOf, ActiveRows, IInv, Typed
<1>2. r \in RequestRows /\ IsWhole(r)
  BY <1>1 DEF RequestRows, Request, Operations, LineSets, IsWhole
<1>3. r.op = "reverse collection" /\ r.of = {c} /\ r.listed = RowsOf(c)
  BY DEF Request
<1>4. /\ requests' = [requests EXCEPT ![q] = r]
      /\ UNCHANGED <<tripOpen, collections, payments, allocations, handovers, acceptances>>
  BY DEF BeginCollectionReversal
<1> HIDE DEF r
<1>5. StillHolds(r, collections, handovers, allocations)
  BY <1>1, <1>3, TablesBefore DEF StillHolds, BeginCollectionReversal, Recorded
<1>6. \A p \in Requests : Exclude(r, requests[p]) /\ Exclude(requests[p], r)
  <2> TAKE p \in Requests
  <2>1. requests[p].op = "reverse collection" => requests[p].of # {c}
    BY DEF BeginCollectionReversal, Busy
  <2> QED
    BY <1>3, <2>1 DEF Exclude
<1> QED
  BY <1>2, <1>4, <1>5, <1>6, BeginStep

\* What each kind of request commits.
LEMMA FinishAcceptanceStep ==
  ASSUME IInv, NEW q \in Requests, FinishAcceptance(q)
  PROVE  IInv'
<1>1. requests' = [p \in Requests |-> IF p \in {q} THEN Idle ELSE requests[p]]
  BY DEF FinishAcceptance, IInv, Typed
<1>2. UNCHANGED <<tripOpen, collections, payments, allocations, handovers>>
  BY DEF FinishAcceptance
<1>3. requests' \in [Requests -> RequestRows] /\ RequestsHold' /\ OneAtATime'
  BY <1>1, <1>2, RequestsAfter DEF IInv, RequestsHold
<1>4. acceptances' \in [Handovers -> {"none", "active", "reversed"}]
  BY DEF FinishAcceptance, IInv, Typed
<1>5. Typed'
  BY <1>2, <1>3, <1>4 DEF IInv, Typed
<1> QED
  BY <1>2, <1>3, <1>5, SameTables

\* A handover carries what it was allowed, and waited for collections under reversal.
LEMMA FinishHandoverStep ==
  ASSUME IInv, NEW q \in Requests, FinishHandover(q)
  PROVE  IInv'
<1> DEFINE r == requests[q]
           lines == r.lines
<1>1. r.op = "hand over" /\ IsWhole(r) /\ StillHolds(r, collections, handovers, allocations)
  BY DEF FinishHandover, IInv, RequestsHold
<1>2. PICK h \in Handovers : r.of = {h}
  BY <1>1 DEF IsWhole
<1>3. lines \in Sheets /\ DOMAIN handovers[h].lines = {}
  BY <1>1, <1>2 DEF IsWhole, StillHolds
<1>4. handovers' = [handovers EXCEPT ![h] = [lines |-> lines, reversed |-> FALSE]]
  BY <1>2 DEF FinishHandover, IInv, Typed
<1>5. /\ requests' = [p \in Requests |-> IF p \in {q} THEN Idle ELSE requests[p]]
      /\ UNCHANGED <<tripOpen, collections, payments, allocations, acceptances>>
  BY DEF FinishHandover, IInv, Typed
<1>6. handovers \in [Handovers -> HandoverRows]
  BY DEF IInv, Typed
<1>7. /\ handovers' \in [Handovers -> HandoverRows]
      /\ \A c : IF c \in DOMAIN lines
                  THEN HandedIn(handovers', c) = HandedIn(handovers, c) + lines[c]
                  ELSE /\ StandingIn(handovers', c) = StandingIn(handovers, c)
                       /\ HandedIn(handovers', c) = HandedIn(handovers, c)
  <2>1. handovers' \in [Handovers -> HandoverRows]
    BY <1>3, <1>4, <1>6 DEF HandoverRows, LineSets
  <2>2. /\ handovers'[h].lines = lines /\ ~handovers'[h].reversed
        /\ \A k \in Handovers \ {h} : handovers'[k] = handovers[k]
    BY <1>4, <1>6
  <2> HIDE DEF lines
  <2> QED
    BY <1>3, <1>6, <2>1, <2>2, HandedAfterWriting
<1>8. \A c \in DOMAIN lines :
        /\ c \in Collections /\ lines[c] \in Nat
        /\ lines[c] + HandedIn(handovers, c) <= collections[c].received
        /\ \A p \in Requests : requests[p].op = "reverse collection" => c \notin requests[p].of
  BY <1>1, <1>3, SheetType DEF StillHolds, FinishHandover, RowsUnlocked, Busy
<1>9. ASSUME NEW p \in Requests \ {q}
      PROVE  StillHolds(requests[p], collections', handovers', allocations')
  <2>1. StillHolds(requests[p], collections, handovers, allocations) /\ IsWhole(requests[p])
    BY DEF IInv, RequestsHold
  <2>2. requests[p].op # "hand over"
    BY <1>1 DEF IInv, OneAtATime, Exclude
  <2>3. ASSUME requests[p].op = "reverse handover", NEW k \in requests[p].of
        PROVE  DOMAIN handovers'[k].lines # {}
    <3>1. k \in Handovers /\ DOMAIN handovers[k].lines # {}
      BY <2>1, <2>3 DEF IsWhole, StillHolds
    <3> QED
      BY <1>3, <1>4, <1>6, <3>1
  <2>4. ASSUME requests[p].op = "reverse collection", NEW c \in requests[p].of
        PROVE  StandingIn(handovers', c) = {}
    <3>1. c \notin DOMAIN lines /\ StandingIn(handovers, c) = {}
      BY <1>8, <2>1, <2>4 DEF StillHolds
    <3> QED
      BY <1>7, <3>1
  <2> QED
    BY <1>5, <2>1, <2>2, <2>3, <2>4 DEF StillHolds
<1>10. requests' \in [Requests -> RequestRows] /\ RequestsHold' /\ OneAtATime'
  BY <1>5, <1>9, RequestsAfter
<1>11. Typed'
  BY <1>5, <1>7, <1>10 DEF IInv, Typed
<1>12. NotYetWritten'
  BY <1>3, <1>4, <1>5, <1>6, SheetType DEF IInv, NotYetWritten, Recorded, HandedOver
<1>13. \A c \in Collections : HandedIn(handovers', c) <= collections'[c].received
  <2> TAKE c \in Collections
  <2>1. HandedIn(handovers, c) \in Nat /\ collections[c].received \in Nat
        /\ HandedIn(handovers, c) <= collections[c].received
    BY InvariantBefore
  <2>2. CASE c \in DOMAIN lines
    <3>1. lines[c] \in Nat /\ lines[c] + HandedIn(handovers, c) <= collections[c].received
      BY <1>8, <2>2
    <3>2. HandedIn(handovers', c) = HandedIn(handovers, c) + lines[c]
      BY <1>7, <2>2
    <3> HIDE DEF lines
    <3> QED
      BY <1>5, <2>1, <3>1, <3>2
  <2>3. CASE c \notin DOMAIN lines
    <3>1. HandedIn(handovers', c) = HandedIn(handovers, c)
      BY <1>7, <2>3
    <3> QED
      BY <1>5, <2>1, <3>1
  <2> QED
    BY <2>2, <2>3
<1> QED
  BY <1>5, <1>10, <1>11, <1>12, <1>13, InvariantBefore, InvariantAfter

\* Taking a handover back only lowers what is handed over.
LEMMA FinishHandoverReversalStep ==
  ASSUME IInv, NEW q \in Requests, FinishHandoverReversal(q)
  PROVE  IInv'
<1> DEFINE r == requests[q]
<1>1. r.op = "reverse handover" /\ IsWhole(r) /\ StillHolds(r, collections, handovers, allocations)
  BY DEF FinishHandoverReversal, IInv, RequestsHold
<1>2. PICK h \in Handovers : r.of = {h}
  BY <1>1 DEF IsWhole
<1>3. DOMAIN handovers[h].lines # {}
  BY <1>1, <1>2 DEF StillHolds
<1>4. handovers' = [handovers EXCEPT ![h].reversed = TRUE]
  BY <1>2 DEF FinishHandoverReversal, IInv, Typed
<1>5. /\ requests' = [p \in Requests |-> IF p \in {q} THEN Idle ELSE requests[p]]
      /\ UNCHANGED <<tripOpen, collections, payments, allocations, acceptances>>
  BY DEF FinishHandoverReversal, IInv, Typed
<1> HIDE DEF r
<1>6. handovers \in [Handovers -> HandoverRows]
  BY DEF IInv, Typed
<1>7. /\ handovers' \in [Handovers -> HandoverRows]
      /\ \A k \in Handovers : /\ handovers'[k].lines = handovers[k].lines
                              /\ handovers[k].reversed => handovers'[k].reversed
                              /\ k # h => handovers'[k] = handovers[k]
  BY <1>4, <1>6 DEF HandoverRows
<1>8. \A c : /\ StandingIn(handovers', c) \subseteq StandingIn(handovers, c)
             /\ HandedIn(handovers', c) <= HandedIn(handovers, c)
             /\ HandedIn(handovers, c) \in Nat /\ HandedIn(handovers', c) \in Nat
  BY <1>6, <1>7, HandedAfterReversal, HandedType
<1>9. ASSUME NEW p \in Requests \ {q}
      PROVE  StillHolds(requests[p], collections', handovers', allocations')
  <2>1. StillHolds(requests[p], collections, handovers, allocations) /\ IsWhole(requests[p])
    BY DEF IInv, RequestsHold
  <2>2. \A c \in Collections : collections[c].received \in Nat /\ collections[c].received <= collections[c].received
    BY InvariantBefore
  <2>3. Undisturbed(requests[p], collections, handovers, allocations, collections', handovers', allocations')
    BY <1>5, <1>7, <1>8, <2>2 DEF Undisturbed
  <2> QED
    BY <2>1, <2>3, HoldsOn
<1>10. requests' \in [Requests -> RequestRows] /\ RequestsHold' /\ OneAtATime'
  BY <1>5, <1>9, RequestsAfter
<1>11. Typed'
  BY <1>5, <1>7, <1>10 DEF IInv, Typed
<1>12. NotYetWritten'
  BY <1>3, <1>5, <1>7 DEF IInv, NotYetWritten, Recorded, HandedOver
<1>13. \A c \in Collections : HandedIn(handovers', c) <= collections'[c].received
  <2> TAKE c \in Collections
  <2>1. /\ HandedIn(handovers, c) \in Nat /\ collections[c].received \in Nat
        /\ HandedIn(handovers, c) <= collections[c].received
    BY InvariantBefore
  <2> QED
    BY <1>5, <1>8, <2>1
<1> QED
  BY <1>5, <1>10, <1>11, <1>12, <1>13, InvariantBefore, InvariantAfter

\* Rows are reversed, and payments and collections only of a reversed collection.
LEMMA RowsReversedStep ==
  ASSUME IInv, NEW rows, allocations' = WithReversed(rows)
  PROVE  /\ allocations' \in Seq(AllocationRows)
         /\ \A i \in DOMAIN allocations :
              i \in DOMAIN allocations' /\ allocations'[i].payment = allocations[i].payment
         /\ \A c \in Collections :
              /\ PaidIn(allocations', c) = PaidIn(allocations, c) \ rows
              /\ collections[c].received - AmountIn(allocations', PaidIn(allocations', c)) >= 0
              /\ Due[c] - AmountIn(allocations', SettledIn(allocations', c)) >= 0
<1>1. allocations \in Seq(AllocationRows)
  BY DEF IInv, Typed
<1>2. HasReversed(allocations, rows, allocations')
  BY DEF WithReversed, HasReversed
<1>3. /\ allocations' \in Seq(AllocationRows) /\ DOMAIN allocations' = DOMAIN allocations
      /\ \A i \in DOMAIN allocations : allocations'[i].payment = allocations[i].payment
      /\ \A c : /\ PaidIn(allocations', c) = PaidIn(allocations, c) \ rows
                /\ AmountIn(allocations', PaidIn(allocations', c)) <= AmountIn(allocations, PaidIn(allocations, c))
                /\ AmountIn(allocations', SettledIn(allocations', c))
                     <= AmountIn(allocations, SettledIn(allocations, c))
  BY <1>1, <1>2, AmountsAfterReversal
<1>4. ASSUME NEW c \in Collections
      PROVE  /\ collections[c].received - AmountIn(allocations', PaidIn(allocations', c)) >= 0
             /\ Due[c] - AmountIn(allocations', SettledIn(allocations', c)) >= 0
  <2>1. /\ AmountIn(allocations', PaidIn(allocations', c)) \in Nat
        /\ AmountIn(allocations', SettledIn(allocations', c)) \in Nat
    BY <1>3, AmountType DEF PaidIn, SettledIn, ActiveIn
  <2> QED
    BY <1>3, <2>1, InvariantBefore
<1> QED
  BY <1>3, <1>4

\* Nothing of the collection stands, and no row of its payment is left.
LEMMA FinishCollectionReversalStep ==
  ASSUME IInv, NEW q \in Requests, FinishCollectionReversal(q)
  PROVE  IInv'
<1> DEFINE r == requests[q]
<1>1. r.op = "reverse collection" /\ IsWhole(r) /\ StillHolds(r, collections, handovers, allocations)
  BY DEF FinishCollectionReversal, IInv, RequestsHold
<1>2. PICK c \in Collections : r.of = {c}
  BY <1>1 DEF IsWhole
<1>3. CommitCollectionReversal(c, r.listed)
  BY <1>2 DEF FinishCollectionReversal
<1>4. /\ requests' = [p \in Requests |-> IF p \in {q} THEN Idle ELSE requests[p]]
      /\ UNCHANGED <<tripOpen, handovers, acceptances>>
  BY DEF FinishCollectionReversal, IInv, Typed
<1>5. CASE UNCHANGED <<collections, payments, allocations>>
  <2>1. \A p \in Requests \ {q} : StillHolds(requests[p], collections', handovers', allocations')
    BY <1>4, <1>5 DEF IInv, RequestsHold
  <2>2. requests' \in [Requests -> RequestRows] /\ RequestsHold' /\ OneAtATime'
    BY <1>4, <2>1, RequestsAfter
  <2>3. Typed'
    BY <1>4, <1>5, <2>2 DEF IInv, Typed
  <2> QED
    BY <1>4, <1>5, <2>2, <2>3, SameTables
<1>6. CASE ~UNCHANGED <<collections, payments, allocations>>
  <2>1. /\ RowsOf(c) \subseteq r.listed
        /\ collections' = [collections EXCEPT ![c].reversed = TRUE]
        /\ payments' = [payments EXCEPT ![c] = IF @ = "posted" THEN "reversed" ELSE @]
        /\ allocations' = WithReversed(r.listed)
    BY <1>3, <1>6 DEF CommitCollectionReversal, Reversible
  <2>2. /\ collections' \in [Collections -> [method : Methods \union {"none"},
                                             received : Received \union {0}, reversed : BOOLEAN]]
        /\ \A d \in Collections : /\ collections'[d].received = collections[d].received
                                  /\ collections'[d].method = collections[d].method
                                  /\ d # c => collections'[d] = collections[d]
    BY <2>1 DEF IInv, Typed
  <2>3. /\ payments' \in [Collections -> {"none", "posted", "reversed"}]
        /\ payments'[c] # "posted" /\ \A d \in Collections \ {c} : payments'[d] = payments[d]
    BY <2>1 DEF IInv, Typed
  <2>4. /\ allocations' \in Seq(AllocationRows)
        /\ \A i \in DOMAIN allocations :
             i \in DOMAIN allocations' /\ allocations'[i].payment = allocations[i].payment
        /\ \A d \in Collections :
             /\ PaidIn(allocations', d) = PaidIn(allocations, d) \ r.listed
             /\ collections[d].received - AmountIn(allocations', PaidIn(allocations', d)) >= 0
             /\ Due[d] - AmountIn(allocations', SettledIn(allocations', d)) >= 0
    BY <2>1, RowsReversedStep
  <2>5. PaidIn(allocations', c) = {}
    BY <2>1, <2>4, TablesBefore
  <2>6. ASSUME NEW p \in Requests \ {q}
        PROVE  StillHolds(requests[p], collections', handovers', allocations')
    <3>1. StillHolds(requests[p], collections, handovers, allocations) /\ IsWhole(requests[p])
      BY DEF IInv, RequestsHold
    <3>2. requests[p].op = "reverse collection" => requests[p].of # {c}
      BY <1>1, <1>2 DEF IInv, OneAtATime, Exclude
    <3>3. \A d \in Collections : /\ collections[d].received \in Nat /\ collections'[d].received \in Nat
                                 /\ collections[d].received <= collections'[d].received
                                 /\ HandedIn(handovers, d) \in Nat
                                 /\ HandedIn(handovers, d) <= HandedIn(handovers, d)
      BY <2>2, InvariantBefore
    <3>4. Undisturbed(requests[p], collections, handovers, allocations, collections', handovers', allocations')
      BY <1>4, <2>2, <2>4, <3>2, <3>3 DEF Undisturbed
    <3> QED
      BY <3>1, <3>4, HoldsOn
  <2>7. requests' \in [Requests -> RequestRows] /\ RequestsHold' /\ OneAtATime'
    BY <1>4, <2>6, RequestsAfter
  <2>8. Typed'
    BY <1>4, <2>2, <2>3, <2>4, <2>7 DEF IInv, Typed
  <2>9. NotYetWritten'
    <3>1. collections[c].method # "none"
      BY <1>1, <1>2 DEF StillHolds
    <3> QED
      BY <1>4, <2>2, <3>1 DEF IInv, NotYetWritten, Recorded, HandedOver
  <2>10. ASSUME NEW d \in Collections
         PROVE  collections'[d].reversed => payments'[d] # "posted" /\ PaidIn(allocations', d) = {}
    <3>1. CASE d = c
      BY <2>3, <2>5, <3>1
    <3>2. CASE d # c
      BY <2>2, <2>3, <2>4, <3>2, InvariantBefore
    <3> QED
      BY <3>1, <3>2
  <2>11. \A d \in Collections : HandedIn(handovers', d) <= collections'[d].received
    BY <1>4, <2>2, InvariantBefore
  <2> QED
    BY <2>2, <2>4, <2>7, <2>8, <2>9, <2>10, <2>11, InvariantAfter
<1> QED
  BY <1>5, <1>6

\* Accounting works on the payments while requests are under way: the rows keep
\* their payment, and the collections and handovers stay.
LEMMA AccountingStep ==
  ASSUME IInv, UNCHANGED <<tripOpen, collections, handovers, acceptances, requests>>,
         payments' \in [Collections -> {"none", "posted", "reversed"}],
         allocations' \in Seq(AllocationRows),
         \A i \in DOMAIN allocations :
           i \in DOMAIN allocations' /\ allocations'[i].payment = allocations[i].payment,
         \A c \in Collections :
           /\ collections[c].received - AmountIn(allocations', PaidIn(allocations', c)) >= 0
           /\ Due[c] - AmountIn(allocations', SettledIn(allocations', c)) >= 0
           /\ collections[c].reversed =>
                payments'[c] # "posted" /\ PaidIn(allocations', c) = {}
  PROVE  IInv'
<1>1. \A c \in Collections : /\ collections[c].received \in Nat
                             /\ collections[c].received <= collections[c].received
                             /\ HandedIn(handovers, c) \in Nat
                             /\ HandedIn(handovers, c) <= HandedIn(handovers, c)
  BY InvariantBefore
<1>2. ASSUME NEW q \in Requests
      PROVE  StillHolds(requests[q], collections', handovers', allocations')
  <2>1. IsWhole(requests[q]) /\ StillHolds(requests[q], collections, handovers, allocations)
    BY DEF IInv, RequestsHold
  <2>2. Undisturbed(requests[q], collections, handovers, allocations, collections', handovers', allocations')
    BY <1>1 DEF Undisturbed
  <2> QED
    BY <2>1, <2>2, HoldsOn
<1>3. requests' \in [Requests -> RequestRows] /\ RequestsHold' /\ OneAtATime'
  BY <1>2, RequestsStay
<1>4. Typed'
  BY <1>3 DEF IInv, Typed
<1>5. NotYetWritten'
  BY DEF IInv, NotYetWritten, Recorded, HandedOver
<1>6. \A c \in Collections : HandedIn(handovers', c) <= collections'[c].received
  BY InvariantBefore
<1> QED
  BY <1>3, <1>4, <1>5, <1>6, InvariantAfter

\* An allocation takes no more than is left on both sides.
LEMMA AllocateStep ==
  ASSUME IInv, NEW c \in Collections, NEW d \in Collections, NEW amount \in Amounts,
         Allocate(c, d, amount)
  PROVE  IInv'
<1> DEFINE r == Row(c, d, amount)
           t == allocations
<1>1. amount \in Nat /\ amount # 0
  BY CodAssumption
<1>2. r \in AllocationRows /\ ~r.reversed /\ r.payment = c /\ r.receivable = d /\ r.amount = amount
  BY <1>1 DEF AllocationRows, Row
<1>3. t \in Seq(AllocationRows)
  BY DEF IInv, Typed
<1>4. allocations' = Append(t, r)
  BY DEF Allocate
<1> HIDE DEF r, t
<1>5. /\ allocations' \in Seq(AllocationRows)
      /\ \A i \in DOMAIN t : i \in DOMAIN allocations' /\ allocations'[i] = t[i]
  BY <1>2, <1>3, <1>4, AmountsAfterAppend, TableRows
<1>6. \A e : /\ AmountIn(allocations', PaidIn(allocations', e)) =
                  AmountIn(t, PaidIn(t, e)) + (IF c = e THEN amount ELSE 0)
             /\ AmountIn(allocations', SettledIn(allocations', e)) =
                  AmountIn(t, SettledIn(t, e)) + (IF d = e THEN amount ELSE 0)
             /\ c # e => PaidIn(allocations', e) = PaidIn(t, e)
  BY <1>2, <1>3, <1>4, AmountsAfterAppend
<1>7. amount <= Unallocated(c) /\ amount <= Owed(d)
  BY DEF Allocate
<1>8. ASSUME NEW e \in Collections
      PROVE  /\ collections[e].received - AmountIn(allocations', PaidIn(allocations', e)) >= 0
             /\ Due[e] - AmountIn(allocations', SettledIn(allocations', e)) >= 0
  <2>1. /\ collections[e].received \in Nat /\ Due[e] \in Nat
        /\ AmountIn(t, PaidIn(t, e)) \in Nat /\ AmountIn(t, SettledIn(t, e)) \in Nat
        /\ collections[e].received - AmountIn(t, PaidIn(t, e)) >= 0
        /\ Due[e] - AmountIn(t, SettledIn(t, e)) >= 0
        /\ Unallocated(e) = collections[e].received - AmountIn(t, PaidIn(t, e))
        /\ Owed(e) = Due[e] - AmountIn(t, SettledIn(t, e))
    BY InvariantBefore DEF t
  <2>2. collections[e].received - AmountIn(allocations', PaidIn(allocations', e)) >= 0
    BY <1>1, <1>6, <1>7, <2>1
  <2>3. Due[e] - AmountIn(allocations', SettledIn(allocations', e)) >= 0
    BY <1>1, <1>6, <1>7, <2>1
  <2> QED
    BY <2>2, <2>3
<1>9. payments' = payments /\ payments[c] = "posted"
  BY DEF Allocate
<1>10. \A e \in Collections : collections[e].reversed =>
         payments'[e] # "posted" /\ PaidIn(allocations', e) = {}
  BY <1>6, <1>9, InvariantBefore DEF t
<1>11. payments' \in [Collections -> {"none", "posted", "reversed"}]
  BY <1>9 DEF IInv, Typed
<1>12. UNCHANGED <<tripOpen, collections, handovers, acceptances, requests>>
  BY DEF Allocate
<1> QED
  BY <1>5, <1>8, <1>10, <1>11, <1>12, AccountingStep DEF t

\* Reversing one allocation gives its amount back to the payment and the debt.
LEMMA ReverseAllocationStep ==
  ASSUME IInv, NEW i \in ActiveRows, ReverseAllocation(i)
  PROVE  IInv'
<1>1. /\ allocations' = WithReversed({i}) /\ payments' = payments
      /\ UNCHANGED <<tripOpen, collections, handovers, acceptances, requests>>
  BY DEF ReverseAllocation
<1>2. payments' \in [Collections -> {"none", "posted", "reversed"}]
  BY <1>1 DEF IInv, Typed
<1>3. \A c \in Collections : collections[c].reversed =>
        payments'[c] # "posted" /\ PaidIn(allocations', c) = {}
  BY <1>1, RowsReversedStep, InvariantBefore
<1> QED
  BY <1>1, <1>2, <1>3, RowsReversedStep, AccountingStep

\* A payment without allocations may go: nothing is settled by it.
LEMMA ReversePaymentStep ==
  ASSUME IInv, NEW c \in Collections, ReversePayment(c)
  PROVE  IInv'
<1>1. /\ payments' = [payments EXCEPT ![c] = "reversed"] /\ allocations' = allocations
      /\ UNCHANGED <<tripOpen, collections, handovers, acceptances, requests>>
  BY DEF ReversePayment
<1>2. payments' \in [Collections -> {"none", "posted", "reversed"}] /\ allocations \in Seq(AllocationRows)
  BY <1>1 DEF IInv, Typed
<1>3. \A d \in Collections : payments'[d] = "posted" => payments[d] = "posted"
  BY <1>1 DEF IInv, Typed
<1> QED
  BY <1>1, <1>2, <1>3, InvariantBefore, AccountingStep

-----------------------------------------------------------------------------
\* Every step of the trip keeps the invariant.
LEMMA InvStep == IInv /\ [Next]_vars => IInv'
<1> SUFFICES ASSUME IInv, [Next]_vars PROVE IInv'
  OBVIOUS
<1>1. ASSUME NEW c \in Collections, NEW method \in Methods, NEW paid \in Received \union {0},
             RecordCollection(c, method, paid)
      PROVE  IInv'
  BY <1>1, RecordStep
<1>2. ASSUME NEW q \in Requests, NEW h \in Handovers, NEW lines \in Sheets, BeginHandover(q, h, lines)
      PROVE  IInv'
  BY <1>2, BeginHandoverStep
<1>3. ASSUME NEW q \in Requests, NEW h \in Handovers, BeginAcceptance(q, h)
      PROVE  IInv'
  BY <1>3, BeginAcceptanceStep
<1>4. ASSUME NEW q \in Requests, NEW h \in Handovers, BeginHandoverReversal(q, h)
      PROVE  IInv'
  BY <1>4, BeginHandoverReversalStep
<1>5. ASSUME NEW q \in Requests, NEW c \in Collections, BeginCollectionReversal(q, c)
      PROVE  IInv'
  BY <1>5, BeginCollectionReversalStep
<1>6. ASSUME NEW q \in Requests, FinishHandover(q)
      PROVE  IInv'
  BY <1>6, FinishHandoverStep
<1>7. ASSUME NEW q \in Requests, FinishAcceptance(q)
      PROVE  IInv'
  BY <1>7, FinishAcceptanceStep
<1>8. ASSUME NEW q \in Requests, FinishHandoverReversal(q)
      PROVE  IInv'
  BY <1>8, FinishHandoverReversalStep
<1>9. ASSUME NEW q \in Requests, FinishCollectionReversal(q)
      PROVE  IInv'
  BY <1>9, FinishCollectionReversalStep
<1>10. ASSUME NEW h \in Handovers, ReverseAcceptance(h)
       PROVE  IInv'
  <2>1. acceptances' \in [Handovers -> {"none", "active", "reversed"}] /\ tripOpen' \in BOOLEAN
    BY <1>10 DEF ReverseAcceptance, IInv, Typed
  <2> QED
    BY <1>10, <2>1, AsideStep DEF ReverseAcceptance
<1>11. CASE CloseTrip
  BY <1>11, AsideStep DEF CloseTrip, IInv, Typed
<1>12. ASSUME NEW c \in Collections, NEW d \in Collections, NEW amount \in Amounts, Allocate(c, d, amount)
       PROVE  IInv'
  BY <1>12, AllocateStep
<1>13. ASSUME NEW i \in ActiveRows, ReverseAllocation(i)
       PROVE  IInv'
  BY <1>13, ReverseAllocationStep
<1>14. ASSUME NEW c \in Collections, ReversePayment(c)
       PROVE  IInv'
  BY <1>14, ReversePaymentStep
<1>15. CASE UNCHANGED vars
  BY <1>15, AsideStep DEF vars, IInv, Typed
<1> QED
  BY <1>1, <1>2, <1>3, <1>4, <1>5, <1>6, <1>7, <1>8, <1>9, <1>10, <1>11, <1>12, <1>13, <1>14, <1>15
     DEF Next

\* The invariant holds in every reachable state.
THEOREM CustodyInvariant == Spec => []IInv
  BY InvInit, InvStep, PTL DEF Spec

\* The tables hold whole rows, and no document is allocated beyond its amount.
THEOREM CustodyTypeCorrect == Spec => []TypeOK
<1>1. IInv => TypeOK
  <2> SUFFICES ASSUME IInv PROVE TypeOK
    OBVIOUS
  <2>1. \A i \in DOMAIN allocations :
          /\ allocations[i].payment \in Collections /\ allocations[i].receivable \in Collections
          /\ allocations[i].amount \in Nat \ {0} /\ allocations[i].reversed \in BOOLEAN
    BY TableRows DEF IInv, Typed, AllocationRows
  <2>2. \A h \in Handovers : handovers[h].lines \in Sheets \union {NoLines} /\ handovers[h].reversed \in BOOLEAN
    BY DEF IInv, Typed, HandoverRows, LineSets
  <2>3. \A q \in Requests : requests[q] = Idle \/ requests[q].op \in Operations
    BY DEF IInv, Typed, RequestRows, RequestsHold, IsWhole
  <2> QED
    BY <2>1, <2>2, <2>3 DEF TypeOK, IInv, Typed, WithinAmounts
<1> QED
  BY <1>1, CustodyInvariant, PTL

\* The driver hands over no more of a collection than was received.
THEOREM HandoversAreCovered == Spec => []HandedOverWithinReceived
  BY CustodyInvariant, PTL DEF IInv

\* A reversed collection has no posted payment and settles no receivable.
THEOREM ReversalIsWhole == Spec => []ReversedCollectionSettlesNothing
  BY CustodyInvariant, PTL DEF IInv

\* Only the commit of its reversal reverses a collection, and then no handover
\* of it stands.
LEMMA UnwindStep ==
  ASSUME IInv, [Next]_vars, NEW c \in Collections, collections'[c].reversed, ~collections[c].reversed
  PROVE  LinesOf(c) = {}
<1>1. PICK q \in Requests : FinishCollectionReversal(q)
  <2>1. collections'[c] # collections[c]
    OBVIOUS
  <2>2. \A d \in Collections, method \in Methods, paid \in Received \union {0} :
          ~RecordCollection(d, method, paid)
    <3> SUFFICES ASSUME NEW d \in Collections, NEW method \in Methods, NEW paid \in Received \union {0},
                        RecordCollection(d, method, paid)
                 PROVE  FALSE
      OBVIOUS
    <3> QED
      BY DEF RecordCollection, IInv, Typed
  <2> QED
    BY <2>1, <2>2 DEF Next, vars, BeginHandover, BeginAcceptance, BeginHandoverReversal,
       BeginCollectionReversal, FinishHandover, FinishAcceptance, FinishHandoverReversal,
       ReverseAcceptance, CloseTrip, Allocate, ReverseAllocation, ReversePayment
<1>2. requests[q].op = "reverse collection"
  BY <1>1 DEF FinishCollectionReversal
<1>3. IsWhole(requests[q]) /\ StillHolds(requests[q], collections, handovers, allocations)
  BY DEF IInv, RequestsHold
<1>4. c \in requests[q].of
  <2>1. PICK d \in requests[q].of : CommitCollectionReversal(d, requests[q].listed)
    BY <1>1 DEF FinishCollectionReversal
  <2>2. d \in Collections /\ requests[q].of = {d}
    BY <1>2, <1>3, <2>1 DEF IsWhole
  <2>3. c = d
    BY <2>1, <2>2 DEF CommitCollectionReversal, IInv, Typed
  <2> QED
    BY <2>1, <2>3
<1> QED
  BY <1>2, <1>3, <1>4, TablesBefore DEF StillHolds

\* Collections are unwound in order.
THEOREM UnwindingIsOrdered == Spec => UnwoundInOrder
<1>1. IInv /\ [Next]_vars =>
        [\A c \in Collections :
           collections'[c].reversed /\ ~collections[c].reversed => LinesOf(c) = {}]_vars
  BY UnwindStep
<1> QED
  BY <1>1, CustodyInvariant, PTL DEF Spec, UnwoundInOrder
=============================================================================
