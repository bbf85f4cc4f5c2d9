--------------------- MODULE CustomerReceivables_proofs ---------------------
(***************************************************************************)
(* The account of a customer reconciles, for any documents, clerks and     *)
(* amounts.                                                                *)
(*                                                                         *)
(* The argument has two layers.  The first speaks of tables only: a table  *)
(* of documents, a bag of allocation rows and a balance Agree, and each    *)
(* thing a transaction does to them (it posts a document, it reverses one, *)
(* it applies a credit to debits, it takes a row back, it takes back all   *)
(* rows of a credit) leaves them agreeing.  The second says of each action *)
(* which of these it does, and what it does to the quantities of the order *)
(* line and of its returns.                                                *)
(***************************************************************************)
EXTENDS CustomerReceivables, Sums

-----------------------------------------------------------------------------
(* Tables of documents and allocation rows.                                *)

\* The states of a row of receivable_documents.
DocumentRecords == [status : Statuses, original : 0..MaxAmount, allocated : 0..MaxAmount]

IsLive(doc) == doc.status \notin {"none", "reversed"}

\* What one document says of itself.
Whole(doc) ==
  /\ doc.allocated <= doc.original
  /\ IsLive(doc) => doc.status = StatusFor(doc.original, doc.allocated)
  /\ doc.status = "none" => doc = NoDocument

\* AllocatedTo, of any bag of rows.
AllocatedIn(rows, d) ==
  LET touching == {r \in BagToSet(rows) : d \in {r.source, r.target}}
  IN SumFunctionOnSet([r \in touching |-> rows[r] * r.amount], touching)

\* What live documents are worth, allocated or not.
LiveAmount(doc) == IF IsLive(doc) THEN doc.original ELSE 0
Face(docs, S) == SumFunctionOnSet([d \in S |-> LiveAmount(docs[d])], S)

RowsAreKept(rows) == IsABag(rows) /\ BagToSet(rows) \subseteq Rows /\ IsFiniteSet(BagToSet(rows))

\* A row touches live documents, and the row of a refund is all of it.
RowsTouchLive(docs, rows) ==
  \A row \in BagToSet(rows) :
    /\ IsLive(docs[row.source]) /\ IsLive(docs[row.target])
    /\ row.target \in Refunds => row.amount = docs[row.target].original

\* Documents, rows and balance agree.
Agree(docs, rows, bal) ==
  /\ docs \in [Documents -> DocumentRecords]
  /\ \A d \in Documents : Whole(docs[d])
  /\ RowsAreKept(rows)
  /\ RowsTouchLive(docs, rows)
  /\ \A d \in Documents : docs[d].allocated = AllocatedIn(rows, d)
  /\ bal \in Int
  /\ bal = Face(docs, Debits) - Face(docs, Credits)

-----------------------------------------------------------------------------
(* The inductive invariant.                                                *)

\* A request names a payment that nobody else posts.
RequestRecords ==
  [payment : Payments, posting : {0} \union Paid, items : UNION {[T -> Amounts] : T \in SUBSET Sales}]

RequestsHold ==
  \A c \in Clerks :
    requests[c] # None =>
      /\ requests[c] \in RequestRecords
      /\ requests[c].posting # 0 =>
           /\ ~Exists(requests[c].payment)
           /\ \A b \in Clerks \ {c} :
                requests[b] # None => requests[b].payment # requests[c].payment

\* A credit comes from goods that were received against a sale.
ReturnsHold ==
  \A r \in Returns :
    /\ returns[r].status # "none" => returns[r].issue \in Sales
    /\ Exists(r) => returns[r].status = "received"
    /\ Live(r) => adjustments[r].quantity >= 1

\* A sale that is owed delivered something.
SalesDelivered == \A s \in Sales : Live(s) => delivered[s] >= 1

TablesTyped ==
  /\ delivered \in [Sales -> 0..LineQuantity]
  /\ issues \in [Sales -> {"none", "POSTED", "REVERSED"}]
  /\ trip \in {"dispatched", "recovered", "closed"}
  /\ attempted \subseteq Deliveries
  /\ returns \in [Returns -> [status : {"none", "draft", "received", "cancelled"},
                              issue : Sales \union {None}, requested : 0..LineQuantity,
                              accepted : 0..LineQuantity]]
  /\ adjustments \in [Returns -> [quantity : 0..LineQuantity, amount : 0..MaxAmount]]
  /\ refundOf \in [Refunds -> Credits \union {None}]
  /\ DOMAIN requests = Clerks

RInv ==
  /\ TablesTyped
  /\ Agree(documents, allocations, balance)
  /\ RequestsHold
  /\ ReturnsHold
  /\ SalesDelivered
  /\ CreditsWithinSales
  /\ LineBilledOnce

-----------------------------------------------------------------------------
(* Bags of allocation rows.                                                *)

Touches(row, d) == d \in {row.source, row.target}

\* What the copies of a row add to the amount allocated of a document.
Share(rows, d) ==
  [row \in DOMAIN rows |-> IF Touches(row, d) THEN rows[row] * row.amount ELSE 0]

\* Some copies of an amount are worth at least the amount.
LEMMA CopiesWorth ==
  ASSUME NEW n \in Nat \ {0}, NEW a \in Nat
  PROVE  n * a \in Nat /\ a <= n * a
<1>1. PICK m \in Nat : n = m + 1
  BY n - 1 \in Nat /\ n = (n - 1) + 1
<1>2. n * a = m * a + a /\ m * a \in Nat
  BY <1>1
<1> QED
  BY <1>2

\* The rows kept have a source, a target, an amount and a number of copies.
LEMMA RowFacts ==
  ASSUME NEW rows, RowsAreKept(rows), NEW row \in DOMAIN rows
  PROVE  /\ row \in Rows /\ row.source \in Credits /\ row.target \in Debits
         /\ row.amount \in 1..MaxAmount /\ row.amount \in Nat \ {0}
         /\ rows[row] \in Nat \ {0}
         /\ rows[row] * row.amount \in Nat /\ row.amount <= rows[row] * row.amount
<1>1. row \in Rows /\ rows[row] \in Nat \ {0}
  BY DEF RowsAreKept, BagToSet, IsABag
<1>2. row.source \in Credits /\ row.target \in Debits /\ row.amount \in 1..MaxAmount
  BY <1>1 DEF Rows
<1>3. row.amount \in Nat \ {0}
  BY <1>2, ReceivablesAssumption DEF ReceivablesAssumption
<1>4. PICK n \in Nat \ {0}, a \in Nat : n = rows[row] /\ a = row.amount
  BY <1>1, <1>3
<1>5. n * a \in Nat /\ a <= n * a
  BY CopiesWorth
<1> QED
  BY <1>1, <1>2, <1>3, <1>4, <1>5

\* The amount allocated is a sum of shares over all rows.
LEMMA AllocatedAsShares ==
  ASSUME NEW rows, RowsAreKept(rows), NEW d
  PROVE  /\ AllocatedIn(rows, d) = SumFunctionOnSet(Share(rows, d), DOMAIN rows)
         /\ IsFiniteSet(DOMAIN rows)
         /\ \A row \in DOMAIN rows : Share(rows, d)[row] \in Nat
         /\ AllocatedIn(rows, d) \in Nat
<1>1. PICK T : T = {r \in DOMAIN rows : Touches(r, d)}
  OBVIOUS
<1>2. PICK f : f = [r \in T |-> rows[r] * r.amount]
  OBVIOUS
<1>3. PICK g : g = Share(rows, d)
  OBVIOUS
<1>4. AllocatedIn(rows, d) = SumFunctionOnSet(f, T)
  BY <1>1, <1>2 DEF AllocatedIn, BagToSet, Touches
<1>5. IsFiniteSet(DOMAIN rows) /\ T \subseteq DOMAIN rows
  BY <1>1 DEF RowsAreKept, BagToSet
<1>6. \A row \in DOMAIN rows : g[row] \in Nat
  <2> SUFFICES ASSUME NEW row \in DOMAIN rows PROVE g[row] \in Nat
    OBVIOUS
  <2>1. rows[row] * row.amount \in Nat
    BY RowFacts
  <2> QED
    BY <1>3, <2>1 DEF Share
<1>7. (\A row \in DOMAIN rows \ T : g[row] = 0) /\ \A row \in T : g[row] = f[row]
  BY <1>1, <1>2, <1>3, <1>5 DEF Share
<1>8. SumFunctionOnSet(g, DOMAIN rows) = SumFunctionOnSet(g, T)
  BY <1>5, <1>6, <1>7, SumSupport
<1>9. SumFunctionOnSet(g, T) = SumFunctionOnSet(f, T)
  <2>1. IsFiniteSet(T)
    BY <1>5, FS_Subset
  <2> QED
    BY <1>7, <2>1, SumCongruence
<1>10. SumFunctionOnSet(g, DOMAIN rows) \in Nat
  BY <1>5, <1>6, SumNat
<1> QED
  BY <1>3, <1>4, <1>5, <1>6, <1>8, <1>9, <1>10

\* What is allocated of a document covers each of its rows.
LEMMA RowWithinAllocated ==
  ASSUME NEW rows, RowsAreKept(rows), NEW d, NEW row \in DOMAIN rows, Touches(row, d)
  PROVE  rows[row] * row.amount <= AllocatedIn(rows, d)
<1>1. PICK g : g = Share(rows, d)
  OBVIOUS
<1>2. g[row] = rows[row] * row.amount /\ g[row] \in Nat
  BY <1>1, RowFacts DEF Share
<1>3. /\ AllocatedIn(rows, d) = SumFunctionOnSet(g, DOMAIN rows) /\ IsFiniteSet(DOMAIN rows)
      /\ \A r \in DOMAIN rows : g[r] \in Nat
  BY <1>1, AllocatedAsShares
<1>4. SumFunctionOnSet(g, {row}) <= SumFunctionOnSet(g, DOMAIN rows)
  <2>1. PICK R : R = {row} /\ R \subseteq DOMAIN rows
    OBVIOUS
  <2>2. SumFunctionOnSet(g, R) <= SumFunctionOnSet(g, DOMAIN rows)
    BY ONLY <1>3, <2>1, SumSubset
  <2> QED
    BY <2>1, <2>2
<1>5. SumFunctionOnSet(g, {row}) = g[row]
  <2>1. g[row] \in Int
    BY <1>2
  <2> QED
    BY ONLY <2>1, SumSingle
<1> QED
  BY <1>2, <1>3, <1>4, <1>5

\* A document of which nothing is allocated has no rows.
LEMMA NothingAllocated ==
  ASSUME NEW rows, RowsAreKept(rows), NEW d, AllocatedIn(rows, d) = 0,
         NEW row \in DOMAIN rows
  PROVE  ~Touches(row, d)
<1> SUFFICES ASSUME Touches(row, d) PROVE FALSE
  OBVIOUS
<1>1. rows[row] * row.amount <= 0
  BY RowWithinAllocated
<1>2. rows[row] * row.amount \in Nat /\ row.amount \in Nat \ {0}
      /\ row.amount <= rows[row] * row.amount
  BY RowFacts
<1> QED
  BY <1>1, <1>2

\* Nothing is allocated of a document that no row touches.
LEMMA NoRowsNothingAllocated ==
  ASSUME NEW rows, RowsAreKept(rows), NEW d, \A row \in DOMAIN rows : ~Touches(row, d)
  PROVE  AllocatedIn(rows, d) = 0
<1>1. {r \in BagToSet(rows) : d \in {r.source, r.target}} = {}
  BY DEF BagToSet, Touches
<1> QED
  BY <1>1, SumEmpty DEF AllocatedIn

\* New rows, one copy of each, add their amounts.
LEMMA RowsAdded ==
  ASSUME NEW rows, RowsAreKept(rows), NEW N, N \subseteq Rows, IsFiniteSet(N), NEW d
  PROVE  /\ RowsAreKept(rows (+) SetToBag(N))
         /\ DOMAIN (rows (+) SetToBag(N)) = DOMAIN rows \union N
         /\ AllocatedIn(rows (+) SetToBag(N), d) =
              AllocatedIn(rows, d)
                + SumFunctionOnSet([row \in N |-> IF Touches(row, d) THEN row.amount ELSE 0], N)
<1>1. PICK more : more = rows (+) SetToBag(N)
  OBVIOUS
<1>2. PICK U : U = DOMAIN rows \union N
  OBVIOUS
<1>3. DOMAIN more = U
  BY <1>1, <1>2 DEF (+), SetToBag
<1>4. /\ IsFiniteSet(DOMAIN rows) /\ DOMAIN rows \subseteq Rows
      /\ \A row \in DOMAIN rows : rows[row] \in Nat \ {0}
  BY DEF RowsAreKept, BagToSet, IsABag
<1>5. \A row \in U : more[row] = (IF row \in DOMAIN rows THEN rows[row] ELSE 0)
                                   + (IF row \in N THEN 1 ELSE 0)
  BY <1>1, <1>2 DEF (+), SetToBag
<1>6. IsFiniteSet(U) /\ U \subseteq Rows
  BY <1>2, <1>4, FS_Union
<1>7. RowsAreKept(more)
  <2>1. \A row \in U : more[row] \in {n \in Nat : n > 0}
    BY <1>2, <1>4, <1>5
  <2>2. more = [row \in U |-> more[row]]
    BY <1>1, <1>3 DEF (+)
  <2>3. more \in [U -> {n \in Nat : n > 0}]
    BY <2>1, <2>2
  <2> QED
    BY <1>3, <1>6, <2>3 DEF RowsAreKept, BagToSet, IsABag
<1>8. PICK h : h = Share(more, d)
  OBVIOUS
<1>9. AllocatedIn(more, d) = SumFunctionOnSet(h, U)
  BY <1>3, <1>7, <1>8, AllocatedAsShares
<1>10. PICK s : s = Share(rows, d)
  OBVIOUS
<1>11. /\ AllocatedIn(rows, d) = SumFunctionOnSet(s, DOMAIN rows)
       /\ \A row \in DOMAIN rows : s[row] \in Nat
  BY <1>10, AllocatedAsShares
<1>12. PICK t : t = [row \in N |-> IF Touches(row, d) THEN row.amount ELSE 0]
  OBVIOUS
<1>13. \A row \in N : t[row] \in Nat
  <2>1. \A row \in Rows : row.amount \in Nat
    BY ReceivablesAssumption DEF ReceivablesAssumption, Rows
  <2> QED
    BY <1>12, <2>1
<1>14. PICK f : f = [row \in U |-> IF row \in DOMAIN rows THEN s[row] ELSE 0]
  OBVIOUS
<1>15. PICK g : g = [row \in U |-> IF row \in N THEN t[row] ELSE 0]
  OBVIOUS
<1>16. \A row \in U : f[row] \in Int /\ g[row] \in Int
  BY <1>11, <1>13, <1>14, <1>15
<1>17. \A row \in U : h[row] = f[row] + g[row]
  <2> SUFFICES ASSUME NEW row \in U PROVE h[row] = f[row] + g[row]
    OBVIOUS
  <2>1. row.amount \in Nat /\ row \in DOMAIN more
    BY <1>3, <1>6, ReceivablesAssumption DEF ReceivablesAssumption, Rows
  <2>2. PICK a \in Nat : a = row.amount
    BY <2>1
  <2>3. h[row] = IF Touches(row, d) THEN more[row] * a ELSE 0
    BY <1>8, <2>1, <2>2 DEF Share
  <2>4. CASE ~Touches(row, d)
    BY <2>3, <2>4, <1>10, <1>12, <1>14, <1>15 DEF Share
  <2>5. CASE Touches(row, d)
    <3>1. CASE row \in DOMAIN rows
      <4>1. PICK n \in Nat : n = rows[row]
        BY <1>4, <3>1
      <4>2. f[row] = n * a
        BY <1>10, <1>14, <2>2, <2>5, <3>1, <4>1 DEF Share
      <4>3. CASE row \in N
        <5>1. more[row] = n + 1 /\ g[row] = a
          BY <1>5, <1>12, <1>15, <2>2, <2>5, <3>1, <4>1, <4>3
        <5>2. (n + 1) * a = n * a + a
          OBVIOUS
        <5> QED
          BY <2>3, <2>5, <4>2, <5>1, <5>2
      <4>4. CASE row \notin N
        <5>1. more[row] = n /\ g[row] = 0 /\ n * a \in Int
          BY <1>5, <1>15, <3>1, <4>1, <4>4
        <5> QED
          BY <2>3, <2>5, <4>2, <5>1
      <4> QED
        BY <4>3, <4>4
    <3>2. CASE row \notin DOMAIN rows
      <4>1. row \in N /\ f[row] = 0 /\ more[row] = 1 /\ g[row] = a
        BY <1>2, <1>5, <1>12, <1>14, <1>15, <2>2, <2>5, <3>2
      <4> QED
        BY <2>3, <2>5, <4>1
    <3> QED
      BY <3>1, <3>2
  <2> QED
    BY <2>4, <2>5
<1>18. SumFunctionOnSet(h, U) = SumFunctionOnSet(f, U) + SumFunctionOnSet(g, U)
  BY ONLY <1>6, <1>16, <1>17, SumOfTwo
<1>19. SumFunctionOnSet(f, U) = SumFunctionOnSet(s, DOMAIN rows)
  <2>1. PICK R : R = DOMAIN rows
    OBVIOUS
  <2>2. R \subseteq U /\ IsFiniteSet(R) /\ (\A row \in U \ R : f[row] = 0) /\ \A row \in R : f[row] = s[row]
    BY <1>2, <1>4, <1>14, <2>1
  <2>3. SumFunctionOnSet(f, U) = SumFunctionOnSet(f, R)
    BY ONLY <1>6, <1>16, <2>2, SumSupport
  <2>4. SumFunctionOnSet(f, R) = SumFunctionOnSet(s, R)
    BY ONLY <2>2, SumCongruence
  <2> QED
    BY <2>1, <2>3, <2>4
<1>20. SumFunctionOnSet(g, U) = SumFunctionOnSet(t, N)
  <2>1. N \subseteq U /\ (\A row \in U \ N : g[row] = 0) /\ \A row \in N : g[row] = t[row]
    BY <1>2, <1>15
  <2>2. SumFunctionOnSet(g, U) = SumFunctionOnSet(g, N)
    BY ONLY <1>6, <1>16, <2>1, SumSupport
  <2>3. SumFunctionOnSet(g, N) = SumFunctionOnSet(t, N)
    BY <2>1, SumCongruence
  <2> QED
    BY <2>2, <2>3
<1> QED
  BY <1>1, <1>2, <1>3, <1>7, <1>9, <1>11, <1>12, <1>18, <1>19, <1>20

\* Taking one copy of a row back takes its amount back.
LEMMA RowTakenBack ==
  ASSUME NEW rows, RowsAreKept(rows), NEW row \in DOMAIN rows, NEW d
  PROVE  /\ RowsAreKept(rows (-) SetToBag({row}))
         /\ DOMAIN (rows (-) SetToBag({row})) \subseteq DOMAIN rows
         /\ rows[row] = 1 => row \notin DOMAIN (rows (-) SetToBag({row}))
         /\ AllocatedIn(rows (-) SetToBag({row}), d) =
              AllocatedIn(rows, d) - (IF Touches(row, d) THEN row.amount ELSE 0)
<1>1. PICK less : less = rows (-) SetToBag({row})
  OBVIOUS
<1>2. PICK R : R = DOMAIN rows
  OBVIOUS
<1>3. IsFiniteSet(R) /\ R \subseteq Rows /\ row \in R /\ \A r \in R : rows[r] \in Nat \ {0}
  BY <1>2 DEF RowsAreKept, BagToSet, IsABag
<1>4. /\ DOMAIN less \subseteq R
      /\ \A r \in R : r \in DOMAIN less <=> (r = row => rows[r] > 1)
      /\ \A r \in DOMAIN less : less[r] = IF r = row THEN rows[r] - 1 ELSE rows[r]
  BY <1>1, <1>2, <1>3 DEF (-), SetToBag
<1>5. RowsAreKept(less)
  <2>1. \A r \in DOMAIN less : less[r] \in {n \in Nat : n > 0}
    BY <1>3, <1>4
  <2>2. less = [r \in DOMAIN less |-> less[r]]
    BY <1>1 DEF (-)
  <2>3. less \in [DOMAIN less -> {n \in Nat : n > 0}]
    BY <2>1, <2>2
  <2>4. IsFiniteSet(DOMAIN less)
    BY <1>3, <1>4, FS_Subset
  <2> QED
    BY <1>3, <1>4, <2>3, <2>4 DEF RowsAreKept, BagToSet, IsABag
<1>6. PICK s : s = Share(rows, d)
  OBVIOUS
<1>7. /\ AllocatedIn(rows, d) = SumFunctionOnSet(s, R)
      /\ \A r \in R : s[r] \in Nat
  BY <1>2, <1>6, AllocatedAsShares
<1>8. PICK h : h = Share(less, d)
  OBVIOUS
<1>9. /\ AllocatedIn(less, d) = SumFunctionOnSet(h, DOMAIN less)
      /\ \A r \in DOMAIN less : h[r] \in Nat
  BY <1>5, <1>8, AllocatedAsShares
<1>10. PICK g : g = [r \in R |-> IF r \in DOMAIN less THEN h[r] ELSE 0]
  OBVIOUS
<1>11. SumFunctionOnSet(g, R) = SumFunctionOnSet(h, DOMAIN less)
  <2>1. PICK L : L = DOMAIN less
    OBVIOUS
  <2>2. /\ L \subseteq R /\ (\A r \in R \ L : g[r] = 0) /\ \A r \in L : g[r] = h[r]
        /\ \A r \in R : g[r] \in Int
    BY <1>4, <1>9, <1>10, <2>1
  <2>3. SumFunctionOnSet(g, R) = SumFunctionOnSet(g, L)
    BY ONLY <1>3, <2>2, SumSupport
  <2>4. IsFiniteSet(L)
    BY <1>3, <2>2, FS_Subset
  <2>5. SumFunctionOnSet(g, L) = SumFunctionOnSet(h, L)
    BY ONLY <2>2, <2>4, SumCongruence
  <2> QED
    BY <2>1, <2>3, <2>5
<1>12. PICK n \in Nat, a \in Nat : rows[row] = n + 1 /\ row.amount = a
  <2>1. rows[row] - 1 \in Nat /\ rows[row] = (rows[row] - 1) + 1 /\ row.amount \in Nat
    BY <1>3, RowFacts
  <2> QED
    BY <2>1
<1>13. \A r \in R \ {row} : g[r] = s[r]
  BY <1>2, <1>4, <1>6, <1>8, <1>10 DEF Share
<1>14. g[row] = IF Touches(row, d) THEN n * a ELSE 0
  <2>1. CASE n = 0
    BY <1>3, <1>4, <1>10, <1>12, <2>1
  <2>2. CASE n # 0
    <3>1. row \in DOMAIN less /\ less[row] = n
      BY <1>3, <1>4, <1>12, <2>2
    <3> QED
      BY <1>3, <1>8, <1>10, <1>12, <3>1 DEF Share
  <2> QED
    BY <2>1, <2>2
<1>15. s[row] = IF Touches(row, d) THEN n * a + a ELSE 0
  <2>1. s[row] = IF Touches(row, d) THEN (n + 1) * a ELSE 0
    BY <1>2, <1>3, <1>6, <1>12 DEF Share
  <2>2. (n + 1) * a = n * a + a
    OBVIOUS
  <2> QED
    BY <2>1, <2>2
<1>16. SumFunctionOnSet(g, R) = SumFunctionOnSet(s, R) + g[row] - s[row]
  <2>1. /\ \A r \in R : s[r] \in Int
        /\ g[row] \in Int
    BY <1>7, <1>14
  <2> QED
    BY ONLY <1>3, <1>13, <2>1, SumUpdate
<1>17. SumFunctionOnSet(s, R) \in Int
  BY <1>3, <1>7, SumType
<1>18. SumFunctionOnSet(g, R) =
         SumFunctionOnSet(s, R) - (IF Touches(row, d) THEN a ELSE 0)
  <2>1. PICK na \in Int : na = n * a
    OBVIOUS
  <2>2. PICK x \in Int : x = SumFunctionOnSet(s, R)
    BY <1>17
  <2>3. g[row] = (IF Touches(row, d) THEN na ELSE 0) /\ s[row] = (IF Touches(row, d) THEN na + a ELSE 0)
    BY <1>14, <1>15, <2>1
  <2> QED
    BY <1>16, <2>2, <2>3
<1>19. rows[row] = 1 => row \notin DOMAIN less
  BY <1>3, <1>4
<1> QED
  BY <1>1, <1>2, <1>4, <1>5, <1>7, <1>9, <1>11, <1>12, <1>18, <1>19

\* Taking back every copy of some rows takes back what they add up to.
LEMMA RowsTakenBack ==
  ASSUME NEW rows, RowsAreKept(rows), NEW gone, gone \subseteq DOMAIN rows, NEW d
  PROVE  /\ RowsAreKept(Restrict(rows, DOMAIN rows \ gone))
         /\ DOMAIN Restrict(rows, DOMAIN rows \ gone) = DOMAIN rows \ gone
         /\ AllocatedIn(Restrict(rows, DOMAIN rows \ gone), d) =
              AllocatedIn(rows, d) - SumFunctionOnSet(Share(rows, d), gone)
         /\ SumFunctionOnSet(Share(rows, d), gone) \in Nat
         /\ SumFunctionOnSet(Share(rows, d), gone) <= AllocatedIn(rows, d)
<1>1. PICK R : R = DOMAIN rows
  OBVIOUS
<1>2. PICK L : L = R \ gone
  OBVIOUS
<1>3. PICK less : less = Restrict(rows, L)
  OBVIOUS
<1>4. IsFiniteSet(R) /\ R \subseteq Rows /\ gone \subseteq R /\ \A r \in R : rows[r] \in {n \in Nat : n > 0}
  BY <1>1 DEF RowsAreKept, BagToSet, IsABag
<1>5. less = [r \in L |-> rows[r]] /\ L \subseteq R
  BY <1>2, <1>3 DEF Restrict
<1>6. RowsAreKept(less)
  <2>1. IsFiniteSet(L)
    BY <1>4, <1>5, FS_Subset
  <2>2. less \in [L -> {n \in Nat : n > 0}] /\ DOMAIN less = L
    BY <1>4, <1>5
  <2> QED
    BY <1>4, <1>5, <2>1, <2>2 DEF RowsAreKept, BagToSet, IsABag
<1>7. PICK s : s = Share(rows, d)
  OBVIOUS
<1>8. AllocatedIn(rows, d) = SumFunctionOnSet(s, R) /\ \A r \in R : s[r] \in Nat
  BY <1>1, <1>7, AllocatedAsShares
<1>9. AllocatedIn(less, d) = SumFunctionOnSet(Share(less, d), L)
  BY <1>5, <1>6, AllocatedAsShares
<1>10. SumFunctionOnSet(Share(less, d), L) = SumFunctionOnSet(s, L)
  <2>1. IsFiniteSet(L) /\ \A r \in L : Share(less, d)[r] = s[r]
    BY <1>1, <1>4, <1>5, <1>7, FS_Subset DEF Share
  <2> QED
    BY <2>1, SumCongruence
<1>11. SumFunctionOnSet(s, R) = SumFunctionOnSet(s, gone) + SumFunctionOnSet(s, R \ gone)
  <2>1. \A r \in R : s[r] \in Int
    BY <1>8
  <2> QED
    BY ONLY <1>4, <2>1, SumSplit
<1>12. SumFunctionOnSet(s, gone) \in Nat /\ SumFunctionOnSet(s, L) \in Nat
  <2>1. IsFiniteSet(gone) /\ IsFiniteSet(L)
    BY <1>4, <1>5, FS_Subset
  <2> QED
    BY <1>4, <1>5, <1>8, <2>1, SumNat
<1>13. DOMAIN less = R \ gone
  BY <1>2, <1>5
<1>14. /\ AllocatedIn(less, d) = AllocatedIn(rows, d) - SumFunctionOnSet(s, gone)
       /\ SumFunctionOnSet(s, gone) <= AllocatedIn(rows, d)
  BY <1>2, <1>8, <1>9, <1>10, <1>11, <1>12
<1> QED
  BY <1>1, <1>2, <1>3, <1>6, <1>7, <1>12, <1>13, <1>14

-----------------------------------------------------------------------------
(* Documents.                                                              *)

\* Two tables with the same originals of the same live documents.
SameFace(docs, other) ==
  \A d \in Documents :
    /\ other[d].original = docs[d].original
    /\ IsLive(other[d]) <=> IsLive(docs[d])
    /\ other[d].status = "none" <=> docs[d].status = "none"

\* The kinds of documents are finite and apart.
LEMMA DocumentSets ==
  /\ IsFiniteSet(Documents) /\ IsFiniteSet(Debits) /\ IsFiniteSet(Credits) /\ IsFiniteSet(Sales)
  /\ IsFiniteSet(Returns)
  /\ Debits \subseteq Documents /\ Credits \subseteq Documents
  /\ Sales \subseteq Debits /\ Refunds \subseteq Debits /\ Payments \subseteq Credits
  /\ Returns \subseteq Credits /\ Debits \union Credits = Documents
  /\ Debits \intersect Credits = {}
<1>1. IsFiniteSet(Documents)
  BY ReceivablesAssumption DEF ReceivablesAssumption
<1>2. IsFiniteSet(Debits) /\ IsFiniteSet(Credits)
  BY <1>1, FS_Subset DEF Documents
<1>3. IsFiniteSet(Sales)
  BY <1>2, FS_Subset DEF Debits
<1>4. IsFiniteSet(Returns)
  BY <1>2, FS_Subset DEF Credits
<1> QED
  BY <1>1, <1>2, <1>3, <1>4, ReceivablesAssumption DEF ReceivablesAssumption, Documents, Debits, Credits

\* A document of the table has a status and amounts.
LEMMA DocumentFacts ==
  ASSUME NEW docs \in [Documents -> DocumentRecords], NEW d \in Documents
  PROVE  /\ docs[d] \in DocumentRecords /\ docs[d].status \in Statuses
         /\ docs[d].original \in 0..MaxAmount /\ docs[d].original \in Nat
         /\ docs[d].allocated \in 0..MaxAmount /\ docs[d].allocated \in Nat
<1>1. docs[d] \in DocumentRecords
  OBVIOUS
<1> QED
  BY <1>1, ReceivablesAssumption DEF DocumentRecords, ReceivablesAssumption

\* A live document moves within its original amount and stays live.
LEMMA MovedDocument ==
  ASSUME NEW doc \in DocumentRecords, Whole(doc), IsLive(doc), NEW n \in Int,
         0 <= doc.allocated + n, doc.allocated + n <= doc.original
  PROVE  /\ Moved(doc, n) \in DocumentRecords
         /\ Whole(Moved(doc, n))
         /\ IsLive(Moved(doc, n))
         /\ Moved(doc, n).original = doc.original
         /\ Moved(doc, n).allocated = doc.allocated + n
         /\ Moved(doc, n).status # "none"
<1>1. /\ doc = [status |-> doc.status, original |-> doc.original, allocated |-> doc.allocated]
      /\ doc.original \in 0..MaxAmount /\ doc.allocated \in Nat /\ MaxAmount \in Nat
  BY ReceivablesAssumption DEF DocumentRecords, ReceivablesAssumption
<1>2. CASE n = 0
  BY <1>1, <1>2 DEF Moved, IsLive
<1>3. CASE n # 0
  <2>1. PICK a : a = doc.allocated + n
    OBVIOUS
  <2>2. a \in 0..MaxAmount /\ a <= doc.original
    BY <1>1, <2>1
  <2>3. PICK s : s = StatusFor(doc.original, a)
    OBVIOUS
  <2>4. s \in {"open", "settled", "partially_allocated"}
    BY <2>3 DEF StatusFor
  <2>5. Moved(doc, n) = [status |-> s, original |-> doc.original, allocated |-> a]
    BY <1>1, <1>3, <2>1, <2>3 DEF Moved
  <2>6. Moved(doc, n) \in DocumentRecords
    BY <1>1, <2>2, <2>4, <2>5 DEF DocumentRecords, Statuses
  <2>7. IsLive(Moved(doc, n)) /\ Moved(doc, n).status # "none"
    BY <2>4, <2>5 DEF IsLive
  <2> QED
    BY <2>1, <2>2, <2>3, <2>5, <2>6, <2>7 DEF Whole
<1> QED
  BY <1>2, <1>3

\* The face of a set of documents is a number, and what leaves originals and
\* live documents alone leaves it alone.
LEMMA FaceKept ==
  ASSUME NEW docs \in [Documents -> DocumentRecords], NEW other, SameFace(docs, other),
         NEW S \in SUBSET Documents
  PROVE  Face(docs, S) \in Int /\ Face(other, S) = Face(docs, S)
<1>1. PICK f : f = [d \in S |-> LiveAmount(docs[d])]
  OBVIOUS
<1>2. PICK g : g = [d \in S |-> LiveAmount(other[d])]
  OBVIOUS
<1>3. IsFiniteSet(S)
  BY DocumentSets, FS_Subset
<1>4. \A d \in S : f[d] \in Int /\ g[d] = f[d]
  <2> SUFFICES ASSUME NEW d \in S PROVE f[d] \in Int /\ g[d] = f[d]
    OBVIOUS
  <2>1. d \in Documents /\ docs[d].original \in Nat
    BY DocumentFacts
  <2> QED
    BY <1>1, <1>2, <2>1 DEF LiveAmount, SameFace
<1>5. SumFunctionOnSet(f, S) \in Int
  BY <1>3, <1>4, SumType
<1>6. SumFunctionOnSet(g, S) = SumFunctionOnSet(f, S)
  BY ONLY <1>3, <1>4, SumCongruence
<1> QED
  BY <1>1, <1>2, <1>5, <1>6 DEF Face

\* The face changes by what one document changes.
LEMMA FaceUpdate ==
  ASSUME NEW docs \in [Documents -> DocumentRecords], NEW other \in [Documents -> DocumentRecords],
         NEW c \in Documents, \A d \in Documents \ {c} : other[d] = docs[d],
         NEW S \in SUBSET Documents
  PROVE  /\ Face(docs, S) \in Int
         /\ Face(other, S) =
              IF c \in S THEN Face(docs, S) + LiveAmount(other[c]) - LiveAmount(docs[c])
              ELSE Face(docs, S)
<1>1. PICK f : f = [d \in S |-> LiveAmount(docs[d])]
  OBVIOUS
<1>2. PICK g : g = [d \in S |-> LiveAmount(other[d])]
  OBVIOUS
<1>3. IsFiniteSet(S)
  BY DocumentSets, FS_Subset
<1>4. \A d \in S : f[d] \in Int /\ g[d] \in Int
  <2> SUFFICES ASSUME NEW d \in S PROVE f[d] \in Int /\ g[d] \in Int
    OBVIOUS
  <2>1. docs[d].original \in Nat /\ other[d].original \in Nat
    BY DocumentFacts
  <2> QED
    BY <1>1, <1>2, <2>1 DEF LiveAmount
<1>5. \A d \in S \ {c} : g[d] = f[d]
  BY <1>1, <1>2
<1>6. SumFunctionOnSet(f, S) \in Int
  BY ONLY <1>3, <1>4, SumType
<1>7. CASE c \in S
  <2>1. SumFunctionOnSet(g, S) = SumFunctionOnSet(f, S) + g[c] - f[c]
    <3>1. c \in S /\ g[c] \in Int /\ \A d \in S : f[d] \in Int
      BY <1>4, <1>7
    <3> QED
      BY ONLY <1>3, <1>5, <3>1, SumUpdate
  <2> QED
    BY <1>1, <1>2, <1>6, <1>7, <2>1 DEF Face
<1>8. CASE c \notin S
  <2>1. \A d \in S : g[d] = f[d]
    BY <1>5, <1>8
  <2>2. SumFunctionOnSet(g, S) = SumFunctionOnSet(f, S)
    BY ONLY <1>3, <2>1, SumCongruence
  <2> QED
    BY <1>1, <1>2, <1>6, <1>8, <2>2 DEF Face
<1> QED
  BY <1>7, <1>8

-----------------------------------------------------------------------------
(* Posting and reversing a document.                                       *)

\* A document without rows is replaced by one of which nothing is allocated.
LEMMA AgreeReplaces ==
  ASSUME NEW docs, NEW rows, NEW bal, Agree(docs, rows, bal),
         NEW d \in Documents, docs[d].allocated = 0,
         NEW doc \in DocumentRecords, Whole(doc), doc.allocated = 0,
         NEW other, other = [docs EXCEPT ![d] = doc],
         NEW n \in Int, n = LiveAmount(doc) - LiveAmount(docs[d])
  PROVE  Agree(other, rows, IF d \in Debits THEN bal + n ELSE bal - n)
<1>1. /\ docs \in [Documents -> DocumentRecords] /\ \A e \in Documents : Whole(docs[e])
      /\ RowsAreKept(rows) /\ RowsTouchLive(docs, rows)
      /\ \A e \in Documents : docs[e].allocated = AllocatedIn(rows, e)
      /\ bal \in Int
      /\ bal = Face(docs, Debits) - Face(docs, Credits)
  BY DEF Agree
<1>2. /\ other \in [Documents -> DocumentRecords] /\ \A e \in Documents : Whole(other[e])
      /\ other[d] = doc /\ \A e \in Documents \ {d} : other[e] = docs[e]
  BY <1>1
<1>3. \A e \in Documents : other[e].allocated = docs[e].allocated
  BY <1>2
<1>4. RowsTouchLive(other, rows)
  <2> SUFFICES ASSUME NEW row \in DOMAIN rows
               PROVE  /\ IsLive(other[row.source]) /\ IsLive(other[row.target])
                      /\ row.target \in Refunds => row.amount = other[row.target].original
    BY DEF RowsTouchLive, BagToSet
  <2>1. AllocatedIn(rows, d) = 0
    BY <1>1
  <2>2. ~Touches(row, d)
    BY <1>1, <2>1, NothingAllocated
  <2>3. row.source \in Documents \ {d} /\ row.target \in Documents \ {d}
    BY <1>1, <2>2, RowFacts, DocumentSets DEF Touches
  <2> QED
    BY <1>1, <1>2, <2>3 DEF RowsTouchLive, BagToSet
<1>5. /\ Face(docs, Debits) \in Int /\ Face(docs, Credits) \in Int
      /\ Face(other, Debits) = (IF d \in Debits THEN Face(docs, Debits) + LiveAmount(doc) - LiveAmount(docs[d])
                                ELSE Face(docs, Debits))
      /\ Face(other, Credits) = (IF d \in Credits THEN Face(docs, Credits) + LiveAmount(doc) - LiveAmount(docs[d])
                                 ELSE Face(docs, Credits))
  <2>1. /\ docs \in [Documents -> DocumentRecords] /\ other \in [Documents -> DocumentRecords]
        /\ d \in Documents /\ \A e \in Documents \ {d} : other[e] = docs[e]
    BY <1>1, <1>2
  <2>2. Debits \in SUBSET Documents /\ Credits \in SUBSET Documents
    BY DocumentSets
  <2>3. \A S \in SUBSET Documents :
          /\ Face(docs, S) \in Int
          /\ Face(other, S) =
               IF d \in S THEN Face(docs, S) + LiveAmount(other[d]) - LiveAmount(docs[d])
               ELSE Face(docs, S)
    BY ONLY <2>1, FaceUpdate
  <2> QED
    BY <1>2, <2>2, <2>3
<1>6. LiveAmount(doc) \in Int /\ LiveAmount(docs[d]) \in Int
  <2>1. doc.original \in Nat /\ docs[d].original \in Nat
    BY <1>1, <1>2, DocumentFacts
  <2> QED
    BY <2>1 DEF LiveAmount
<1>7. (IF d \in Debits THEN bal + n ELSE bal - n) = Face(other, Debits) - Face(other, Credits)
  <2>1. PICK x \in Int, y \in Int, u \in Int, v \in Int :
           /\ x = Face(docs, Debits) /\ y = Face(docs, Credits)
           /\ u = LiveAmount(doc) /\ v = LiveAmount(docs[d])
    BY <1>5, <1>6
  <2>2. d \in Credits <=> d \notin Debits
    BY DocumentSets
  <2>3. CASE d \in Debits
    <3>1. Face(other, Debits) = x + u - v /\ Face(other, Credits) = y /\ bal = x - y /\ n = u - v
      BY <1>1, <1>5, <2>1, <2>2, <2>3
    <3> QED
      BY <2>3, <3>1
  <2>4. CASE d \notin Debits
    <3>1. Face(other, Debits) = x /\ Face(other, Credits) = y + u - v /\ bal = x - y /\ n = u - v
      BY <1>1, <1>5, <2>1, <2>2, <2>4
    <3> QED
      BY <2>4, <3>1
  <2> QED
    BY <2>3, <2>4
<1>8. (IF d \in Debits THEN bal + n ELSE bal - n) \in Int
  BY <1>1
<1> QED
  BY <1>1, <1>2, <1>3, <1>4, <1>7, <1>8 DEF Agree

\* Posting a document tells the ledger its amount.
LEMMA AgreePosts ==
  ASSUME NEW docs, NEW rows, NEW bal, Agree(docs, rows, bal),
         NEW d \in Documents, docs[d].status = "none", NEW a \in 0..MaxAmount
  PROVE  Agree([docs EXCEPT ![d] = Posted(a)], rows, IF d \in Debits THEN bal + a ELSE bal - a)
<1>1. docs[d] = NoDocument
  BY DEF Agree, Whole
<1>2. docs[d].allocated = 0 /\ LiveAmount(docs[d]) = 0
  BY <1>1 DEF NoDocument, LiveAmount, IsLive
<1>3. PICK doc : doc = Posted(a)
  OBVIOUS
<1>4. a \in Nat /\ MaxAmount \in Nat
  BY ReceivablesAssumption DEF ReceivablesAssumption
<1>5. /\ doc \in DocumentRecords /\ Whole(doc) /\ doc.allocated = 0
      /\ LiveAmount(doc) = a
  BY <1>3, <1>4 DEF Posted, DocumentRecords, Statuses, Whole, IsLive, StatusFor, LiveAmount
<1>6. PICK other : other = [docs EXCEPT ![d] = doc]
  OBVIOUS
<1>7. a \in Int /\ a = LiveAmount(doc) - LiveAmount(docs[d])
  BY <1>2, <1>4, <1>5
<1>8. Agree(other, rows, IF d \in Debits THEN bal + a ELSE bal - a)
  BY <1>2, <1>5, <1>6, <1>7, AgreeReplaces
<1> QED
  BY <1>3, <1>6, <1>8

\* Reversing a document that nothing is allocated of takes its amount back.
LEMMA AgreeReverses ==
  ASSUME NEW docs, NEW rows, NEW bal, Agree(docs, rows, bal),
         NEW d \in Documents, IsLive(docs[d]), docs[d].allocated = 0
  PROVE  Agree([docs EXCEPT ![d] = Reversed(@)], rows,
               IF d \in Debits THEN bal - docs[d].original ELSE bal + docs[d].original)
<1>1. docs \in [Documents -> DocumentRecords] /\ bal \in Int
  BY DEF Agree
<1>2. PICK o \in Nat : o = docs[d].original
  BY <1>1, DocumentFacts
<1>3. PICK doc : doc = Reversed(docs[d])
  OBVIOUS
<1>4. docs[d] \in DocumentRecords
  BY <1>1
<1>5. doc.status = "reversed" /\ doc.original = o /\ doc.allocated = 0 /\ doc \in DocumentRecords
  BY <1>2, <1>3, <1>4 DEF Reversed, DocumentRecords, Statuses
<1>6. Whole(doc) /\ LiveAmount(doc) = 0 /\ LiveAmount(docs[d]) = o
  BY <1>2, <1>5 DEF Whole, IsLive, LiveAmount
<1>7. PICK other : other = [docs EXCEPT ![d] = doc]
  OBVIOUS
<1>8. PICK n \in Int : n = -o
  OBVIOUS
<1>9. n = LiveAmount(doc) - LiveAmount(docs[d])
  BY <1>6, <1>8
<1>10. Agree(other, rows, IF d \in Debits THEN bal + n ELSE bal - n)
  BY <1>5, <1>6, <1>7, <1>9, AgreeReplaces
<1>11. (IF d \in Debits THEN bal + n ELSE bal - n) = IF d \in Debits THEN bal - o ELSE bal + o
  BY <1>1, <1>8
<1> QED
  BY <1>2, <1>3, <1>7, <1>10, <1>11

-----------------------------------------------------------------------------
(* Applying a credit to debits.                                            *)

\* The rows create_receivable_allocation writes, one for each item.
ItemRow(source, items, t) == [source |-> source, target |-> t, amount |-> items[t]]
ItemRows(source, items) == {ItemRow(source, items, t) : t \in DOMAIN items}

\* Amounts for some debits.
IsItems(items) ==
  /\ items = [t \in DOMAIN items |-> items[t]]
  /\ DOMAIN items \subseteq Debits
  /\ \A t \in DOMAIN items : items[t] \in 1..MaxAmount

\* The lines of an allocation request add up to a quantity.
LEMMA ItemFacts ==
  ASSUME NEW items, IsItems(items)
  PROVE  /\ IsFiniteSet(DOMAIN items)
         /\ \A t \in DOMAIN items : items[t] \in Nat \ {0}
         /\ Sum(items, DOMAIN items) = SumFunctionOnSet(items, DOMAIN items)
         /\ Sum(items, DOMAIN items) \in Nat
<1>1. PICK T : T = DOMAIN items
  OBVIOUS
<1>2. IsFiniteSet(T)
  BY <1>1, DocumentSets, FS_Subset DEF IsItems
<1>3. \A t \in T : items[t] \in Nat \ {0}
  BY <1>1, ReceivablesAssumption DEF IsItems, ReceivablesAssumption
<1>4. Sum(items, T) = SumFunctionOnSet(items, T)
  BY <1>1 DEF Sum, IsItems
<1>5. SumFunctionOnSet(items, T) \in Nat
  BY <1>2, <1>3, SumNat
<1> QED
  BY <1>1, <1>2, <1>3, <1>4, <1>5

\* The rows of items add their sum at the source and each item at its target.
LEMMA ItemRowsAdd ==
  ASSUME NEW source \in Credits, NEW items, IsItems(items), NEW d \in Documents
  PROVE  /\ ItemRows(source, items) \subseteq Rows /\ IsFiniteSet(ItemRows(source, items))
         /\ SumFunctionOnSet([row \in ItemRows(source, items) |->
                                IF Touches(row, d) THEN row.amount ELSE 0],
                             ItemRows(source, items)) =
              IF d = source THEN Sum(items, DOMAIN items)
              ELSE IF d \in DOMAIN items THEN items[d] ELSE 0
<1>1. PICK T : T = DOMAIN items
  OBVIOUS
<1>2. PICK N : N = ItemRows(source, items)
  OBVIOUS
<1>3. PICK h : h = [t \in T |-> ItemRow(source, items, t)]
  OBVIOUS
<1>4. /\ IsFiniteSet(T) /\ T \subseteq Debits
      /\ \A t \in T : items[t] \in Nat \ {0} /\ items[t] \in 1..MaxAmount
  BY <1>1, ItemFacts DEF IsItems
<1>5. /\ h \in [T -> N]
      /\ \A x, y \in T : h[x] = h[y] => x = y
      /\ \A row \in N : \E t \in T : row = h[t]
  BY <1>1, <1>2, <1>3 DEF ItemRows, ItemRow
<1>6. N \subseteq Rows
  BY <1>1, <1>2, <1>4 DEF ItemRows, ItemRow, Rows
<1>7. IsFiniteSet(N)
  <2>1. h \in Surjection(T, N)
    BY <1>5 DEF Surjection
  <2> QED
    BY ONLY <1>4, <2>1, FS_Surjection
<1>8. PICK g : g = [row \in N |-> IF Touches(row, d) THEN row.amount ELSE 0]
  OBVIOUS
<1>9. PICK f : f = [t \in T |-> IF d \in {source, t} THEN items[t] ELSE 0]
  OBVIOUS
<1>10. \A t \in T : f[t] \in Int /\ g[h[t]] = f[t]
  <2> SUFFICES ASSUME NEW t \in T PROVE f[t] \in Int /\ g[h[t]] = f[t]
    OBVIOUS
  <2>1. h[t] \in N /\ h[t].source = source /\ h[t].target = t /\ h[t].amount = items[t]
    BY <1>3, <1>5 DEF ItemRow
  <2>2. f[t] \in Int
    BY <1>4, <1>9
  <2> QED
    BY <1>8, <1>9, <2>1, <2>2 DEF Touches
<1>11. SumFunctionOnSet(g, N) = SumFunctionOnSet(f, T)
  <2>1. IsFiniteSet(T)
    BY <1>4
  <2> QED
    BY ONLY <2>1, <1>5, <1>10, SumReindexed
<1>12. SumFunctionOnSet(f, T) = IF d = source THEN Sum(items, T)
                                ELSE IF d \in T THEN items[d] ELSE 0
  <2>1. CASE d = source
    <3>1. \A t \in T : f[t] = items[t]
      BY <1>9, <2>1
    <3>2. SumFunctionOnSet(f, T) = SumFunctionOnSet(items, T)
      BY <1>4, <3>1, SumCongruence
    <3> QED
      BY <1>1, <2>1, <3>2, ItemFacts
  <2>2. CASE d # source /\ d \in T
    <3>1. PICK R : R = {d}
      OBVIOUS
    <3>2. R \subseteq T /\ (\A t \in T \ R : f[t] = 0) /\ \A t \in T : f[t] \in Int
      BY <1>9, <1>10, <2>2, <3>1
    <3>3. SumFunctionOnSet(f, T) = SumFunctionOnSet(f, R)
      BY <1>4, <3>2, SumSupport
    <3>4. f[d] \in Int /\ f[d] = items[d]
      BY <1>9, <1>10, <2>2
    <3>5. SumFunctionOnSet(f, {d}) = f[d]
      BY ONLY <3>4, SumSingle
    <3> QED
      BY <2>2, <3>1, <3>3, <3>4, <3>5
  <2>3. CASE d # source /\ d \notin T
    <3>1. {} \subseteq T /\ (\A t \in T \ {} : f[t] = 0) /\ \A t \in T : f[t] \in Int
      BY <1>9, <1>10, <2>3
    <3>2. SumFunctionOnSet(f, T) = SumFunctionOnSet(f, {})
      BY <1>4, <3>1, SumSupport
    <3> QED
      BY <2>3, <3>2, SumEmpty
  <2> QED
    BY <2>1, <2>2, <2>3
<1> QED
  BY <1>1, <1>2, <1>6, <1>7, <1>8, <1>11, <1>12

\* The items fit what remains of the source and of each live target, and the
\* item of a refund is all of it.
HasRoom(docs, source, items) ==
  /\ IsLive(docs[source])
  /\ Sum(items, DOMAIN items) <= docs[source].original - docs[source].allocated
  /\ \A t \in DOMAIN items :
       /\ IsLive(docs[t])
       /\ items[t] <= docs[t].original - docs[t].allocated
       /\ t \in Refunds => items[t] = docs[t].original

\* Each document after items are applied.
LEMMA AppliedDocument ==
  ASSUME NEW docs \in [Documents -> DocumentRecords], \A d \in Documents : Whole(docs[d]),
         NEW source \in Credits, NEW items, IsItems(items), HasRoom(docs, source, items),
         NEW d \in Documents
  PROVE  LET doc == Applied(docs, source, items)[d]
         IN  /\ doc \in DocumentRecords /\ Whole(doc)
             /\ doc.original = docs[d].original
             /\ IsLive(doc) <=> IsLive(docs[d])
             /\ doc.status = "none" <=> docs[d].status = "none"
             /\ doc.allocated =
                  docs[d].allocated + (IF d = source THEN Sum(items, DOMAIN items)
                                       ELSE IF d \in DOMAIN items THEN items[d] ELSE 0)
<1>1. PICK n : n = (IF d = source THEN Sum(items, DOMAIN items)
                    ELSE IF d \in DOMAIN items THEN items[d] ELSE 0)
  OBVIOUS
<1>2. n \in Nat
  BY <1>1, ItemFacts
<1>3. PICK doc : doc = Applied(docs, source, items)[d]
  OBVIOUS
<1>4. PICK old : old = docs[d]
  OBVIOUS
<1>5. old \in DocumentRecords /\ Whole(old) /\ old.allocated \in Nat /\ old.original \in Nat
  BY <1>4, DocumentFacts
<1>6. CASE d = source \/ d \in DOMAIN items
  <2>1. doc = Moved(old, n)
    BY <1>1, <1>3, <1>4, <1>6 DEF Applied
  <2>2. IsLive(old) /\ n <= old.original - old.allocated
    BY <1>1, <1>4, <1>6 DEF HasRoom
  <2>3. 0 <= old.allocated + n /\ old.allocated + n <= old.original
    BY <1>2, <1>5, <2>2
  <2>4. n \in Int
    BY <1>2
  <2>5. /\ Moved(old, n) \in DocumentRecords /\ Whole(Moved(old, n)) /\ IsLive(Moved(old, n))
        /\ Moved(old, n).original = old.original
        /\ Moved(old, n).allocated = old.allocated + n
        /\ Moved(old, n).status # "none"
    BY ONLY <1>5, <2>2, <2>3, <2>4, MovedDocument
  <2>6. old.status # "none"
    BY <2>2 DEF IsLive
  <2> QED
    BY <1>1, <1>3, <1>4, <2>1, <2>2, <2>5, <2>6
<1>7. CASE ~(d = source \/ d \in DOMAIN items)
  <2>1. doc = old /\ n = 0
    BY <1>1, <1>3, <1>4, <1>7 DEF Applied
  <2>2. old.allocated = old.allocated + n
    BY <1>5, <2>1
  <2> QED
    BY <1>1, <1>3, <1>4, <1>5, <2>1, <2>2
<1> QED
  BY <1>6, <1>7

\* Applying items that fit keeps documents, rows and balance in agreement.
LEMMA AgreeApplies ==
  ASSUME NEW docs, NEW rows, NEW bal, Agree(docs, rows, bal),
         NEW source \in Credits, NEW items, IsItems(items), HasRoom(docs, source, items)
  PROVE  /\ Agree(Applied(docs, source, items), rows (+) SetToBag(ItemRows(source, items)), bal)
         /\ SameFace(docs, Applied(docs, source, items))
<1>1. PICK other : other = Applied(docs, source, items)
  OBVIOUS
<1>2. PICK N : N = ItemRows(source, items)
  OBVIOUS
<1>3. PICK more : more = rows (+) SetToBag(N)
  OBVIOUS
<1>4. /\ docs \in [Documents -> DocumentRecords] /\ \A d \in Documents : Whole(docs[d])
      /\ RowsAreKept(rows) /\ RowsTouchLive(docs, rows)
      /\ \A d \in Documents : docs[d].allocated = AllocatedIn(rows, d)
      /\ bal \in Int
      /\ bal = Face(docs, Debits) - Face(docs, Credits)
  BY DEF Agree
<1>5. \A d \in Documents :
        /\ other[d] \in DocumentRecords /\ Whole(other[d])
        /\ other[d].original = docs[d].original
        /\ IsLive(other[d]) <=> IsLive(docs[d])
        /\ other[d].status = "none" <=> docs[d].status = "none"
        /\ other[d].allocated =
             docs[d].allocated + (IF d = source THEN Sum(items, DOMAIN items)
                                  ELSE IF d \in DOMAIN items THEN items[d] ELSE 0)
  BY <1>1, <1>4, AppliedDocument
<1>6. other \in [Documents -> DocumentRecords]
  <2>1. other = [d \in Documents |-> other[d]]
    BY <1>1 DEF Applied
  <2> QED
    BY <1>5, <2>1
<1>7. SameFace(docs, other)
  BY <1>5 DEF SameFace
<1>8. N \subseteq Rows /\ IsFiniteSet(N)
  <2>1. source \in Documents
    BY DocumentSets
  <2> QED
    BY <1>2, <2>1, ItemRowsAdd
<1>9. \A d \in Documents :
        /\ RowsAreKept(more) /\ DOMAIN more = DOMAIN rows \union N
        /\ AllocatedIn(more, d) =
             AllocatedIn(rows, d) + (IF d = source THEN Sum(items, DOMAIN items)
                                     ELSE IF d \in DOMAIN items THEN items[d] ELSE 0)
  <2> SUFFICES ASSUME NEW d \in Documents
               PROVE  /\ RowsAreKept(more) /\ DOMAIN more = DOMAIN rows \union N
                      /\ AllocatedIn(more, d) =
                           AllocatedIn(rows, d) + (IF d = source THEN Sum(items, DOMAIN items)
                                                   ELSE IF d \in DOMAIN items THEN items[d] ELSE 0)
    OBVIOUS
  <2>1. PICK n : n = (IF d = source THEN Sum(items, DOMAIN items)
                      ELSE IF d \in DOMAIN items THEN items[d] ELSE 0)
    OBVIOUS
  <2>2. SumFunctionOnSet([row \in N |-> IF Touches(row, d) THEN row.amount ELSE 0], N) = n
    BY <1>2, <2>1, ItemRowsAdd
  <2>3. /\ RowsAreKept(more) /\ DOMAIN more = DOMAIN rows \union N
        /\ AllocatedIn(more, d) =
             AllocatedIn(rows, d)
               + SumFunctionOnSet([row \in N |-> IF Touches(row, d) THEN row.amount ELSE 0], N)
    <3>1. RowsAreKept(rows)
      BY <1>4
    <3> QED
      BY ONLY <1>3, <1>8, <3>1, RowsAdded
  <2> QED
    BY <2>1, <2>2, <2>3
<1>10. RowsAreKept(more) /\ DOMAIN more = DOMAIN rows \union N
  <2>1. source \in Documents
    BY DocumentSets
  <2> QED
    BY <1>9, <2>1
<1>11. RowsTouchLive(other, more)
  <2> SUFFICES ASSUME NEW row \in DOMAIN more
               PROVE  /\ IsLive(other[row.source]) /\ IsLive(other[row.target])
                      /\ row.target \in Refunds => row.amount = other[row.target].original
    BY DEF RowsTouchLive, BagToSet
  <2>1. row.source \in Documents /\ row.target \in Documents
    BY <1>10, RowFacts, DocumentSets
  <2>2. /\ IsLive(docs[row.source]) /\ IsLive(docs[row.target])
        /\ row.target \in Refunds => row.amount = docs[row.target].original
    <3>1. CASE row \in DOMAIN rows
      BY <1>4, <3>1 DEF RowsTouchLive, BagToSet
    <3>2. CASE row \in N
      <4>1. PICK t \in DOMAIN items : row = [source |-> source, target |-> t, amount |-> items[t]]
        BY <1>2, <3>2 DEF ItemRows, ItemRow
      <4> QED
        BY <4>1 DEF HasRoom
    <3> QED
      BY <1>10, <3>1, <3>2
  <2> QED
    BY <1>5, <2>1, <2>2
<1>12. \A d \in Documents : other[d].allocated = AllocatedIn(more, d)
  BY <1>4, <1>5, <1>9
<1>13. bal = Face(other, Debits) - Face(other, Credits)
  <2>1. Face(other, Debits) = Face(docs, Debits) /\ Face(other, Credits) = Face(docs, Credits)
    BY <1>4, <1>7, DocumentSets, FaceKept
  <2> QED
    BY <1>4, <2>1
<1>14. Agree(other, more, bal)
  BY <1>4, <1>5, <1>6, <1>10, <1>11, <1>12, <1>13 DEF Agree
<1> QED
  BY <1>1, <1>2, <1>3, <1>7, <1>14

-----------------------------------------------------------------------------
(* Taking allocations back.                                                *)

\* Documents from which as much is taken back as from their rows.
LEMMA AgreeMovesBack ==
  ASSUME NEW docs, NEW rows, NEW bal, Agree(docs, rows, bal),
         NEW m, \A d \in Documents : m[d] \in Nat /\ m[d] <= AllocatedIn(rows, d),
         NEW other, other = [d \in Documents |-> Moved(docs[d], -m[d])],
         NEW less, RowsAreKept(less), DOMAIN less \subseteq DOMAIN rows,
         \A d \in Documents : AllocatedIn(less, d) = AllocatedIn(rows, d) - m[d]
  PROVE  /\ Agree(other, less, bal) /\ SameFace(docs, other)
         /\ \A d \in Documents : other[d].allocated = docs[d].allocated - m[d]
<1>1. /\ docs \in [Documents -> DocumentRecords] /\ \A d \in Documents : Whole(docs[d])
      /\ RowsAreKept(rows) /\ RowsTouchLive(docs, rows)
      /\ \A d \in Documents : docs[d].allocated = AllocatedIn(rows, d)
      /\ bal \in Int
      /\ bal = Face(docs, Debits) - Face(docs, Credits)
  BY DEF Agree
<1>2. ASSUME NEW d \in Documents
      PROVE  /\ other[d] \in DocumentRecords /\ Whole(other[d])
             /\ other[d].original = docs[d].original
             /\ IsLive(other[d]) <=> IsLive(docs[d])
             /\ other[d].status = "none" <=> docs[d].status = "none"
             /\ other[d].allocated = docs[d].allocated - m[d]
  <2>1. PICK n \in Nat : n = m[d]
    OBVIOUS
  <2>2. PICK old : old = docs[d]
    OBVIOUS
  <2>3. /\ old \in DocumentRecords /\ Whole(old) /\ old.allocated \in Nat /\ old.original \in Nat
        /\ n <= old.allocated
    BY <1>1, <2>1, <2>2, DocumentFacts
  <2>4. PICK k \in Int : k = -n
    OBVIOUS
  <2>5. other[d] = Moved(old, k)
    BY <2>1, <2>2, <2>4
  <2>6. CASE IsLive(old)
    <3>1. 0 <= old.allocated + k /\ old.allocated + k <= old.original
      BY <2>3, <2>4 DEF Whole
    <3>2. /\ Moved(old, k) \in DocumentRecords /\ Whole(Moved(old, k)) /\ IsLive(Moved(old, k))
          /\ Moved(old, k).original = old.original
          /\ Moved(old, k).allocated = old.allocated + k
          /\ Moved(old, k).status # "none"
      BY ONLY <2>3, <2>6, <3>1, MovedDocument
    <3>3. old.allocated + k = old.allocated - n /\ old.status # "none"
      BY <2>3, <2>4, <2>6 DEF IsLive
    <3> QED
      BY <2>1, <2>2, <2>5, <2>6, <3>2, <3>3
  <2>7. CASE ~IsLive(old)
    <3>1. \A row \in DOMAIN rows : ~Touches(row, d)
      BY <1>1, <2>2, <2>7 DEF RowsTouchLive, BagToSet, Touches
    <3>2. AllocatedIn(rows, d) = 0
      BY <1>1, <3>1, NoRowsNothingAllocated
    <3>3. n = 0 /\ old.allocated = 0
      BY <1>1, <2>1, <2>2, <2>3, <3>2
    <3>4. PICK z \in Int : z = -m[d] /\ z = 0
      <4>1. m[d] = 0
        BY <2>1, <3>3
      <4> QED
        BY <4>1
    <3>5. other[d] = old
      BY <2>2, <3>4 DEF Moved
    <3>6. old.allocated = old.allocated - n
      BY <3>3
    <3> QED
      BY <2>1, <2>2, <2>3, <3>5, <3>6
  <2> QED
    BY <2>6, <2>7
<1>3. other \in [Documents -> DocumentRecords]
  BY <1>2
<1>4. SameFace(docs, other)
  BY <1>2 DEF SameFace
<1>5. RowsTouchLive(other, less)
  <2> SUFFICES ASSUME NEW row \in DOMAIN less
               PROVE  /\ IsLive(other[row.source]) /\ IsLive(other[row.target])
                      /\ row.target \in Refunds => row.amount = other[row.target].original
    BY DEF RowsTouchLive, BagToSet
  <2>1. row.source \in Documents /\ row.target \in Documents
    BY RowFacts, DocumentSets
  <2> QED
    BY <1>1, <1>4, <2>1 DEF RowsTouchLive, BagToSet, SameFace
<1>6. \A d \in Documents : other[d].allocated = AllocatedIn(less, d)
  BY <1>1, <1>2
<1>7. bal = Face(other, Debits) - Face(other, Credits)
  <2>1. Face(other, Debits) = Face(docs, Debits) /\ Face(other, Credits) = Face(docs, Credits)
    BY <1>1, <1>4, DocumentSets, FaceKept
  <2> QED
    BY <1>1, <2>1
<1>8. Agree(other, less, bal)
  BY <1>1, <1>2, <1>3, <1>5, <1>6, <1>7 DEF Agree
<1> QED
  BY <1>2, <1>4, <1>8

\* Taking one allocation back.
LEMMA AgreeUnapplies ==
  ASSUME NEW docs, NEW rows, NEW bal, Agree(docs, rows, bal), NEW row \in DOMAIN rows
  PROVE  /\ Agree(Unapplied(docs, row), rows (-) SetToBag({row}), bal)
         /\ SameFace(docs, Unapplied(docs, row))
         /\ Unapplied(docs, row)[row.target].allocated = docs[row.target].allocated - row.amount
<1>1. /\ docs \in [Documents -> DocumentRecords] /\ RowsAreKept(rows)
      /\ \A d \in Documents : docs[d].allocated = AllocatedIn(rows, d)
  BY DEF Agree
<1>2. /\ row.source \in Documents /\ row.target \in Documents /\ row.source # row.target
      /\ row.amount \in Nat
  BY <1>1, RowFacts, DocumentSets
<1>3. PICK m : m = [d \in Documents |-> IF Touches(row, d) THEN row.amount ELSE 0]
  OBVIOUS
<1>4. PICK other : other = [d \in Documents |-> Moved(docs[d], -m[d])]
  OBVIOUS
<1>5. PICK less : less = rows (-) SetToBag({row})
  OBVIOUS
<1>6. Unapplied(docs, row) = other
  <2>1. \A d \in Documents : Unapplied(docs, row)[d] = other[d]
    <3> SUFFICES ASSUME NEW d \in Documents PROVE Unapplied(docs, row)[d] = other[d]
      OBVIOUS
    <3>1. CASE Touches(row, d)
      <4>1. other[d] = Moved(docs[d], -row.amount)
        BY <1>3, <1>4, <3>1
      <4>2. Unapplied(docs, row)[d] = Moved(docs[d], -row.amount)
        BY <1>1, <1>2, <3>1 DEF Unapplied, Touches
      <4> QED
        BY <4>1, <4>2
    <3>2. CASE ~Touches(row, d)
      <4>1. PICK z \in Int : z = -m[d] /\ z = 0
        <5>1. m[d] = 0
          BY <1>3, <3>2
        <5> QED
          BY <5>1
      <4>2. other[d] = docs[d]
        BY <1>4, <4>1 DEF Moved
      <4>3. Unapplied(docs, row)[d] = docs[d]
        BY <1>1, <1>2, <3>2 DEF Unapplied, Touches
      <4> QED
        BY <4>2, <4>3
    <3> QED
      BY <3>1, <3>2
  <2>2. DOMAIN Unapplied(docs, row) = Documents /\ DOMAIN other = Documents
    BY <1>1, <1>4 DEF Unapplied
  <2>3. Unapplied(docs, row) = [d \in Documents |-> Unapplied(docs, row)[d]]
    BY <1>1 DEF Unapplied
  <2>4. other = [d \in Documents |-> other[d]]
    BY <1>4
  <2> QED
    BY <2>1, <2>3, <2>4
<1>7. \A d \in Documents : m[d] \in Nat /\ m[d] <= AllocatedIn(rows, d)
  <2> SUFFICES ASSUME NEW d \in Documents PROVE m[d] \in Nat /\ m[d] <= AllocatedIn(rows, d)
    OBVIOUS
  <2>1. CASE Touches(row, d)
    <3>1. rows[row] * row.amount <= AllocatedIn(rows, d) /\ row.amount <= rows[row] * row.amount
          /\ rows[row] * row.amount \in Nat /\ AllocatedIn(rows, d) \in Nat
      BY <1>1, <2>1, RowWithinAllocated, RowFacts, AllocatedAsShares
    <3>2. PICK x \in Nat : x = rows[row] * row.amount
      BY <3>1
    <3> QED
      BY <1>2, <1>3, <2>1, <3>1, <3>2
  <2>2. CASE ~Touches(row, d)
    BY <1>1, <1>3, <2>2, AllocatedAsShares
  <2> QED
    BY <2>1, <2>2
<1>8. \A d \in Documents : /\ RowsAreKept(less) /\ DOMAIN less \subseteq DOMAIN rows
                           /\ AllocatedIn(less, d) = AllocatedIn(rows, d) - m[d]
  <2> SUFFICES ASSUME NEW d \in Documents
               PROVE  /\ RowsAreKept(less) /\ DOMAIN less \subseteq DOMAIN rows
                      /\ AllocatedIn(less, d) = AllocatedIn(rows, d) - m[d]
    OBVIOUS
  <2>1. /\ RowsAreKept(less) /\ DOMAIN less \subseteq DOMAIN rows
        /\ AllocatedIn(less, d) =
             AllocatedIn(rows, d) - (IF Touches(row, d) THEN row.amount ELSE 0)
    <3>1. \A e : /\ RowsAreKept(rows (-) SetToBag({row}))
                 /\ DOMAIN (rows (-) SetToBag({row})) \subseteq DOMAIN rows
                 /\ AllocatedIn(rows (-) SetToBag({row}), e) =
                      AllocatedIn(rows, e) - (IF Touches(row, e) THEN row.amount ELSE 0)
      <4>1. RowsAreKept(rows)
        BY <1>1
      <4> SUFFICES ASSUME NEW e
                   PROVE  /\ RowsAreKept(rows (-) SetToBag({row}))
                          /\ DOMAIN (rows (-) SetToBag({row})) \subseteq DOMAIN rows
                          /\ AllocatedIn(rows (-) SetToBag({row}), e) =
                               AllocatedIn(rows, e) - (IF Touches(row, e) THEN row.amount ELSE 0)
        OBVIOUS
      <4> QED
        BY ONLY <4>1, row \in DOMAIN rows, RowTakenBack
    <3> QED
      BY <1>5, <3>1
  <2>2. m[d] = IF Touches(row, d) THEN row.amount ELSE 0
    BY <1>3
  <2> QED
    BY <2>1, <2>2
<1>9. RowsAreKept(less) /\ DOMAIN less \subseteq DOMAIN rows
  BY <1>2, <1>8
<1>10. /\ Agree(other, less, bal) /\ SameFace(docs, other)
       /\ \A d \in Documents : other[d].allocated = docs[d].allocated - m[d]
  BY <1>4, <1>7, <1>8, <1>9, AgreeMovesBack
<1>11. m[row.target] = row.amount
  BY <1>2, <1>3 DEF Touches
<1> QED
  BY <1>2, <1>5, <1>6, <1>10, <1>11

\* What reverse_customer_return_credit takes back from a debit.
BackTo(rows, c, s) ==
  LET from == {q \in {row \in BagToSet(rows) : row.source = c} : q.target = s}
  IN SumFunctionOnSet([row \in from |-> rows[row] * row.amount], from)

\* The documents after every allocation of a credit was taken back and the
\* credit reversed.
CreditReversed(docs, rows, c) ==
  [d \in Documents |->
     IF d = c THEN [docs[c] EXCEPT !.status = "reversed", !.allocated = 0]
     ELSE IF d \in Debits THEN Moved(docs[d], -BackTo(rows, c, d)) ELSE docs[d]]

\* The shares of the rows of a credit add up to all that is allocated of it,
\* to what a debit gets back, and to nothing elsewhere.
LEMMA SharesOfCredit ==
  ASSUME NEW rows, RowsAreKept(rows), NEW c \in Credits, NEW d \in Documents,
         NEW gone, gone = {row \in DOMAIN rows : row.source = c}
  PROVE  SumFunctionOnSet(Share(rows, d), gone) =
           IF d = c THEN AllocatedIn(rows, c)
           ELSE IF d \in Debits THEN BackTo(rows, c, d) ELSE 0
<1>1. PICK s : s = Share(rows, d)
  OBVIOUS
<1>2. PICK R : R = DOMAIN rows
  OBVIOUS
<1>3. /\ AllocatedIn(rows, d) = SumFunctionOnSet(s, R) /\ IsFiniteSet(R)
      /\ \A row \in R : s[row] \in Nat
  BY <1>1, <1>2, AllocatedAsShares
<1>4. gone \subseteq R /\ \A row \in R : row.source \in Credits /\ row.target \in Debits
  BY <1>2, RowFacts
<1>5. IsFiniteSet(gone) /\ \A row \in R : s[row] \in Int
  BY <1>3, <1>4, FS_Subset
<1>6. CASE d = c
  <2>1. \A row \in R \ gone : s[row] = 0
    <3> SUFFICES ASSUME NEW row \in R \ gone PROVE s[row] = 0
      OBVIOUS
    <3>1. row.source # d /\ row.target # d
      BY <1>2, <1>4, <1>6, DocumentSets
    <3> QED
      BY <1>1, <1>2, <3>1 DEF Share, Touches
  <2>2. SumFunctionOnSet(s, R) = SumFunctionOnSet(s, gone)
    BY ONLY <1>3, <1>4, <1>5, <2>1, SumSupport
  <2> QED
    BY <1>1, <1>3, <1>6, <2>2
<1>7. CASE d # c /\ d \in Debits
  <2>1. PICK from : from = {q \in gone : q.target = d}
    OBVIOUS
  <2>2. PICK f : f = [row \in from |-> rows[row] * row.amount]
    OBVIOUS
  <2>3. BackTo(rows, c, d) = SumFunctionOnSet(f, from)
    BY <2>1, <2>2 DEF BackTo, BagToSet
  <2>4. from \subseteq gone /\ \A row \in from : s[row] = f[row]
    BY <1>1, <1>2, <1>4, <2>1, <2>2 DEF Share, Touches
  <2>5. \A row \in gone \ from : s[row] = 0
    <3> SUFFICES ASSUME NEW row \in gone \ from PROVE s[row] = 0
      OBVIOUS
    <3>1. row.source # d /\ row.target # d
      BY <1>7, <2>1
    <3> QED
      BY <1>1, <1>2, <1>4, <3>1 DEF Share, Touches
  <2>6. \A row \in gone : s[row] \in Int
    BY <1>4, <1>5
  <2>7. SumFunctionOnSet(s, gone) = SumFunctionOnSet(s, from)
    BY ONLY <1>5, <2>4, <2>5, <2>6, SumSupport
  <2>8. IsFiniteSet(from)
    BY <1>5, <2>4, FS_Subset
  <2>9. SumFunctionOnSet(s, from) = SumFunctionOnSet(f, from)
    BY ONLY <2>4, <2>8, SumCongruence
  <2> QED
    BY <1>1, <1>7, <2>3, <2>7, <2>9
<1>8. CASE d # c /\ d \notin Debits
  <2>1. \A row \in gone : s[row] = 0
    <3> SUFFICES ASSUME NEW row \in gone PROVE s[row] = 0
      OBVIOUS
    <3>1. row.source # d /\ row.target # d
      BY <1>4, <1>8
    <3> QED
      BY <1>1, <1>2, <1>4, <3>1 DEF Share, Touches
  <2>2. {} \subseteq gone /\ (\A row \in gone : s[row] \in Int) /\ \A row \in gone \ {} : s[row] = 0
    BY <2>1
  <2>3. SumFunctionOnSet(s, gone) = SumFunctionOnSet(s, {})
    BY ONLY <1>5, <2>2, SumSupport
  <2> QED
    BY <1>1, <1>8, <2>3, SumEmpty
<1> QED
  BY <1>6, <1>7, <1>8

\* Reversing a credit with all its allocations.
LEMMA AgreeReversesCredit ==
  ASSUME NEW docs, NEW rows, NEW bal, Agree(docs, rows, bal),
         NEW c \in Credits, IsLive(docs[c])
  PROVE  /\ Agree(CreditReversed(docs, rows, c),
                  Restrict(rows, DOMAIN rows \ {row \in DOMAIN rows : row.source = c}),
                  bal + docs[c].original)
         /\ \A d \in Documents \ {c} :
              /\ CreditReversed(docs, rows, c)[d].original = docs[d].original
              /\ IsLive(CreditReversed(docs, rows, c)[d]) <=> IsLive(docs[d])
              /\ CreditReversed(docs, rows, c)[d].status = "none" <=> docs[d].status = "none"
<1>1. PICK gone : gone = {row \in DOMAIN rows : row.source = c}
  OBVIOUS
<1>2. PICK less : less = Restrict(rows, DOMAIN rows \ gone)
  OBVIOUS
<1>3. PICK m : m = [d \in Documents |-> SumFunctionOnSet(Share(rows, d), gone)]
  OBVIOUS
<1>4. PICK mid : mid = [d \in Documents |-> Moved(docs[d], -m[d])]
  OBVIOUS
<1>5. /\ docs \in [Documents -> DocumentRecords] /\ RowsAreKept(rows)
      /\ \A d \in Documents : docs[d].allocated = AllocatedIn(rows, d)
  BY DEF Agree
<1>6. c \in Documents /\ c \notin Debits
  BY DocumentSets
<1>7. ASSUME NEW d \in Documents
      PROVE  /\ RowsAreKept(less) /\ DOMAIN less \subseteq DOMAIN rows
             /\ AllocatedIn(less, d) = AllocatedIn(rows, d) - m[d]
             /\ m[d] \in Nat /\ m[d] <= AllocatedIn(rows, d)
  <2>1. gone \subseteq DOMAIN rows
    BY <1>1
  <2>2. m[d] = SumFunctionOnSet(Share(rows, d), gone)
    BY <1>3
  <2>3. /\ RowsAreKept(Restrict(rows, DOMAIN rows \ gone))
        /\ DOMAIN Restrict(rows, DOMAIN rows \ gone) = DOMAIN rows \ gone
        /\ AllocatedIn(Restrict(rows, DOMAIN rows \ gone), d) =
             AllocatedIn(rows, d) - SumFunctionOnSet(Share(rows, d), gone)
        /\ SumFunctionOnSet(Share(rows, d), gone) \in Nat
        /\ SumFunctionOnSet(Share(rows, d), gone) <= AllocatedIn(rows, d)
    BY ONLY <1>5, <2>1, RowsTakenBack
  <2> QED
    BY <1>2, <2>2, <2>3
<1>8. /\ \A d \in Documents : m[d] \in Nat /\ m[d] <= AllocatedIn(rows, d)
      /\ \A d \in Documents : AllocatedIn(less, d) = AllocatedIn(rows, d) - m[d]
      /\ RowsAreKept(less) /\ DOMAIN less \subseteq DOMAIN rows
  BY <1>6, <1>7
<1>9. /\ Agree(mid, less, bal) /\ SameFace(docs, mid)
      /\ \A d \in Documents : mid[d].allocated = docs[d].allocated - m[d]
  BY <1>4, <1>8, AgreeMovesBack
<1>10. \A d \in Documents :
         m[d] = IF d = c THEN AllocatedIn(rows, c)
                ELSE IF d \in Debits THEN BackTo(rows, c, d) ELSE 0
  BY <1>1, <1>3, <1>5, SharesOfCredit
<1>11. mid[c].allocated = 0 /\ IsLive(mid[c]) /\ mid[c].original = docs[c].original
  <2>1. PICK n \in Nat : n = docs[c].allocated
    BY <1>5, <1>6, DocumentFacts
  <2>2. m[c] = n
    BY <1>5, <1>6, <1>10, <2>1
  <2>3. mid[c].allocated = n - n
    BY <1>6, <1>9, <2>1, <2>2
  <2> QED
    BY <1>6, <1>9, <2>3 DEF SameFace
<1>12. PICK other : other = [mid EXCEPT ![c] = Reversed(@)]
  OBVIOUS
<1>13. Agree(other, less, bal + docs[c].original)
  <2>1. Agree(other, less, IF c \in Debits THEN bal - mid[c].original ELSE bal + mid[c].original)
    BY <1>6, <1>9, <1>11, <1>12, AgreeReverses
  <2> QED
    BY <1>6, <1>11, <2>1
<1>14. CreditReversed(docs, rows, c) = other
  <2>1. PICK made : made = CreditReversed(docs, rows, c)
    OBVIOUS
  <2>2. \A d \in Documents \ {c} : made[d] = mid[d]
    <3> SUFFICES ASSUME NEW d \in Documents \ {c} PROVE made[d] = mid[d]
      OBVIOUS
    <3>1. CASE d \in Debits
      <4>1. m[d] = BackTo(rows, c, d)
        BY <1>10, <3>1
      <4> QED
        BY <1>4, <2>1, <3>1, <4>1 DEF CreditReversed
    <3>2. CASE d \notin Debits
      <4>1. m[d] = 0
        BY <1>10, <3>2
      <4>2. PICK z \in Int : z = -m[d] /\ z = 0
        BY <4>1
      <4>3. mid[d] = docs[d]
        BY <1>4, <4>2 DEF Moved
      <4> QED
        BY <2>1, <3>2, <4>3 DEF CreditReversed
    <3> QED
      BY <3>1, <3>2
  <2>3. made[c] = [docs[c] EXCEPT !.status = "reversed", !.allocated = 0]
    BY <1>6, <2>1 DEF CreditReversed
  <2>4. mid[c] \in DocumentRecords /\ docs[c] \in DocumentRecords
    BY <1>5, <1>6, <1>9 DEF Agree
  <2>5. made[c] = Reversed(mid[c])
    BY <1>11, <2>3, <2>4 DEF Reversed, DocumentRecords
  <2>6. \A d \in Documents : made[d] = other[d]
    BY <1>4, <1>6, <1>12, <2>2, <2>5
  <2>7. made = [d \in Documents |-> made[d]] /\ other = [d \in Documents |-> other[d]]
    BY <1>4, <1>12, <2>1 DEF CreditReversed
  <2> QED
    BY <2>1, <2>6, <2>7
<1>15. \A d \in Documents \ {c} : other[d] = mid[d]
  BY <1>4, <1>12
<1> QED
  BY <1>1, <1>2, <1>9, <1>13, <1>14, <1>15 DEF SameFace

-----------------------------------------------------------------------------
(* What the invariant says.                                                *)

\* When documents, rows and balance agree, the balance is what remains of
\* debits less what remains of credits: allocations take as much from the
\* one side as from the other.
LEMMA AgreeReconciles ==
  ASSUME NEW docs, NEW rows, NEW bal, Agree(docs, rows, bal),
         NEW rem, \A d \in Documents :
           rem[d] = IF IsLive(docs[d]) THEN docs[d].original - docs[d].allocated ELSE 0
  PROVE  bal = SumFunctionOnSet(rem, Debits) - SumFunctionOnSet(rem, Credits)
<1>1. /\ docs \in [Documents -> DocumentRecords] /\ \A d \in Documents : Whole(docs[d])
      /\ RowsAreKept(rows) /\ RowsTouchLive(docs, rows)
      /\ \A d \in Documents : docs[d].allocated = AllocatedIn(rows, d)
      /\ bal \in Int
      /\ bal = Face(docs, Debits) - Face(docs, Credits)
  BY DEF Agree
<1>2. PICK face : face = [d \in Documents |-> LiveAmount(docs[d])]
  OBVIOUS
<1>3. PICK part : part = [d \in Documents |-> AllocatedIn(rows, d)]
  OBVIOUS
<1>4. \A d \in Documents : /\ rem[d] \in Int /\ part[d] \in Int /\ face[d] \in Int
                           /\ face[d] = rem[d] + part[d]
  <2> SUFFICES ASSUME NEW d \in Documents
               PROVE  /\ rem[d] \in Int /\ part[d] \in Int /\ face[d] \in Int
                      /\ face[d] = rem[d] + part[d]
    OBVIOUS
  <2>1. PICK o \in Nat, a \in Nat : o = docs[d].original /\ a = docs[d].allocated
    BY <1>1, DocumentFacts
  <2>2. part[d] = a /\ face[d] = (IF IsLive(docs[d]) THEN o ELSE 0)
    BY <1>1, <1>2, <1>3, <2>1 DEF LiveAmount
  <2>3. rem[d] = IF IsLive(docs[d]) THEN o - a ELSE 0
    BY <2>1
  <2>4. ~IsLive(docs[d]) => a = 0
    <3> SUFFICES ASSUME ~IsLive(docs[d]) PROVE a = 0
      OBVIOUS
    <3>1. \A row \in DOMAIN rows : ~Touches(row, d)
      BY <1>1 DEF RowsTouchLive, BagToSet, Touches
    <3>2. AllocatedIn(rows, d) = 0
      BY <1>1, <3>1, NoRowsNothingAllocated
    <3> QED
      BY <1>1, <2>1, <3>2
  <2> QED
    BY ONLY <2>1, <2>2, <2>3, <2>4, o \in Nat, a \in Nat
<1>5. PICK R : R = DOMAIN rows
  OBVIOUS
<1>6. PICK w : w = [row \in R |-> rows[row] * row.amount]
  OBVIOUS
<1>7. /\ IsFiniteSet(R) /\ \A row \in R : w[row] \in Int
      /\ \A row \in R : row.source \in Credits /\ row.target \in Debits
  <2>1. IsFiniteSet(R)
    BY <1>1, <1>5 DEF RowsAreKept, BagToSet
  <2>2. \A row \in R : rows[row] * row.amount \in Nat /\ row.source \in Credits /\ row.target \in Debits
    BY <1>1, <1>5, RowFacts
  <2> QED
    BY <1>6, <2>1, <2>2
<1>9. ASSUME NEW d \in Documents, NEW from, from = {row \in R : Touches(row, d)}
      PROVE  part[d] = SumFunctionOnSet(w, from)
  <2>1. PICK f : f = [row \in from |-> rows[row] * row.amount]
    OBVIOUS
  <2>2. part[d] = SumFunctionOnSet(f, from)
    BY <1>3, <1>5, <1>9, <2>1 DEF AllocatedIn, BagToSet, Touches
  <2>3. IsFiniteSet(from) /\ \A row \in from : f[row] = w[row]
    BY <1>6, <1>7, <1>9, <2>1, FS_Subset
  <2>4. SumFunctionOnSet(f, from) = SumFunctionOnSet(w, from)
    BY ONLY <2>3, SumCongruence
  <2> QED
    BY <2>2, <2>4
<1>10. SumFunctionOnSet(part, Debits) = SumFunctionOnSet(w, R)
  <2>1. PICK k : k = [row \in R |-> row.target]
    OBVIOUS
  <2>2. \A row \in R : k[row] \in Debits
    BY <1>7, <2>1
  <2>0. PICK G : G = [d \in Debits |-> {row \in R : Touches(row, d)}]
    OBVIOUS
  <2>3. \A d \in Debits : /\ G[d] \subseteq R /\ \A row \in R : row \in G[d] <=> k[row] = d
                          /\ part[d] = SumFunctionOnSet(w, G[d])
    <3> SUFFICES ASSUME NEW d \in Debits
                 PROVE  /\ G[d] \subseteq R /\ \A row \in R : row \in G[d] <=> k[row] = d
                        /\ part[d] = SumFunctionOnSet(w, G[d])
      OBVIOUS
    <3>1. d \in Documents /\ d \notin Credits
      BY DocumentSets
    <3>2. G[d] = {row \in R : Touches(row, d)}
      BY <2>0
    <3> QED
      BY <1>7, <1>9, <2>1, <3>1, <3>2 DEF Touches
  <2>4. IsFiniteSet(Debits)
    BY DocumentSets
  <2> QED
    BY ONLY <1>7, <2>2, <2>3, <2>4, SumGrouped
<1>11. SumFunctionOnSet(part, Credits) = SumFunctionOnSet(w, R)
  <2>1. PICK k : k = [row \in R |-> row.source]
    OBVIOUS
  <2>2. \A row \in R : k[row] \in Credits
    BY <1>7, <2>1
  <2>0. PICK G : G = [d \in Credits |-> {row \in R : Touches(row, d)}]
    OBVIOUS
  <2>3. \A d \in Credits : /\ G[d] \subseteq R /\ \A row \in R : row \in G[d] <=> k[row] = d
                           /\ part[d] = SumFunctionOnSet(w, G[d])
    <3> SUFFICES ASSUME NEW d \in Credits
                 PROVE  /\ G[d] \subseteq R /\ \A row \in R : row \in G[d] <=> k[row] = d
                        /\ part[d] = SumFunctionOnSet(w, G[d])
      OBVIOUS
    <3>1. d \in Documents /\ d \notin Debits
      BY DocumentSets
    <3>2. G[d] = {row \in R : Touches(row, d)}
      BY <2>0
    <3> QED
      BY <1>7, <1>9, <2>1, <3>1, <3>2 DEF Touches
  <2>4. IsFiniteSet(Credits)
    BY DocumentSets
  <2> QED
    BY ONLY <1>7, <2>2, <2>3, <2>4, SumGrouped
<1>12. ASSUME NEW S, S \subseteq Documents, IsFiniteSet(S)
       PROVE  /\ Face(docs, S) = SumFunctionOnSet(rem, S) + SumFunctionOnSet(part, S)
              /\ SumFunctionOnSet(rem, S) \in Int /\ SumFunctionOnSet(part, S) \in Int
  <2>1. \A d \in S : /\ rem[d] \in Int /\ part[d] \in Int /\ face[d] = rem[d] + part[d]
    BY <1>4, <1>12
  <2>2. SumFunctionOnSet(face, S) = SumFunctionOnSet(rem, S) + SumFunctionOnSet(part, S)
    BY ONLY <1>12, <2>1, SumOfTwo
  <2>3. PICK g : g = [d \in S |-> LiveAmount(docs[d])]
    OBVIOUS
  <2>4. \A d \in S : g[d] = face[d]
    BY <1>2, <1>12, <2>3
  <2>5. SumFunctionOnSet(g, S) = SumFunctionOnSet(face, S)
    BY ONLY <1>12, <2>4, SumCongruence
  <2>6. SumFunctionOnSet(rem, S) \in Int
    BY ONLY <1>12, <2>1, SumType
  <2>7. SumFunctionOnSet(part, S) \in Int
    BY ONLY <1>12, <2>1, SumType
  <2> QED
    BY <2>2, <2>3, <2>5, <2>6, <2>7 DEF Face
<1>13. /\ Face(docs, Debits) = SumFunctionOnSet(rem, Debits) + SumFunctionOnSet(part, Debits)
       /\ Face(docs, Credits) = SumFunctionOnSet(rem, Credits) + SumFunctionOnSet(part, Credits)
       /\ SumFunctionOnSet(rem, Debits) \in Int /\ SumFunctionOnSet(rem, Credits) \in Int
       /\ SumFunctionOnSet(part, Debits) \in Int
  BY <1>12, DocumentSets
<1> QED
  BY ONLY <1>1, <1>10, <1>11, <1>13

\* The invariant contains the type invariant and what the runs check.
LEMMA RInvSays ==
  RInv => TypeOK /\ AllocationsMatch /\ BalanceReconciles /\ CreditsWithinSales /\ LineBilledOnce
<1> SUFFICES ASSUME RInv
             PROVE  TypeOK /\ AllocationsMatch /\ BalanceReconciles
  BY DEF RInv
<1>1. Agree(documents, allocations, balance) /\ TablesTyped
  BY DEF RInv
<1>2. TypeOK
  BY <1>1 DEF TypeOK, Agree, TablesTyped, Whole, RowsAreKept, ActiveRows, Live, IsLive, DocumentRecords
<1>3. AllocationsMatch
  BY <1>1 DEF AllocationsMatch, Agree, AllocatedTo, AllocatedIn, ActiveRows, RowsTouchLive, Live, IsLive
<1>4. BalanceReconciles
  <2>1. PICK rem : rem = [d \in Documents |-> Remaining(d)]
    OBVIOUS
  <2>2. \A d \in Documents :
          rem[d] = IF IsLive(documents[d]) THEN documents[d].original - documents[d].allocated ELSE 0
    BY <2>1 DEF Remaining, Live, IsLive
  <2>3. balance = SumFunctionOnSet(rem, Debits) - SumFunctionOnSet(rem, Credits)
    BY <1>1, <2>2, AgreeReconciles
  <2>4. /\ Debits \subseteq Documents /\ Credits \subseteq Documents
        /\ IsFiniteSet(Debits) /\ IsFiniteSet(Credits)
    BY DocumentSets
  <2>5. PICK f : f = [d \in Debits |-> Remaining(d)]
    OBVIOUS
  <2>6. PICK g : g = [d \in Credits |-> Remaining(d)]
    OBVIOUS
  <2>7. SumFunctionOnSet(f, Debits) = SumFunctionOnSet(rem, Debits)
    <3>1. \A d \in Debits : f[d] = rem[d]
      BY <2>1, <2>4, <2>5
    <3> QED
      BY ONLY <2>4, <3>1, SumCongruence
  <2>8. SumFunctionOnSet(g, Credits) = SumFunctionOnSet(rem, Credits)
    <3>1. \A d \in Credits : g[d] = rem[d]
      BY <2>1, <2>4, <2>6
    <3> QED
      BY ONLY <2>4, <3>1, SumCongruence
  <2> QED
    BY <2>3, <2>5, <2>6, <2>7, <2>8 DEF BalanceReconciles
<1> QED
  BY <1>2, <1>3, <1>4

-----------------------------------------------------------------------------
(* What an action leaves alone.                                            *)

\* The documents of S keep their originals and stay as live as they are.
Untouched(S) ==
  \A d \in S :
    /\ documents'[d].original = documents[d].original
    /\ IsLive(documents'[d]) <=> IsLive(documents[d])
    /\ documents'[d].status = "none" <=> documents[d].status = "none"

\* Who reads only the status of documents is not disturbed by an allocation.
LEMMA UntouchedBySameFace ==
  ASSUME SameFace(documents, documents')
  PROVE  Untouched(Sales) /\ Untouched(Returns) /\ Untouched(Payments) /\ Untouched(Documents)
BY DocumentSets DEF SameFace, Untouched

\* What bills the order line stays when the documents of sales stay.
LEMMA BillingStays ==
  ASSUME RInv, Untouched(Sales), UNCHANGED delivered
  PROVE  SalesDelivered' /\ LineBilledOnce'
<1>1. SalesDelivered /\ LineBilledOnce
  BY DEF RInv
<1>2. \A d \in Sales : Live(d)' <=> Live(d)
  BY DEF Untouched, Live, IsLive
<1>3. SalesDelivered'
  BY <1>1, <1>2 DEF SalesDelivered
<1>4. LiveSales' = LiveSales
  BY <1>2 DEF LiveSales
<1>5. [s \in LiveSales |-> documents[s].original]' = [s \in LiveSales |-> documents[s].original]
  BY <1>4 DEF Untouched, LiveSales
<1>6. BilledAmount' = BilledAmount
  BY <1>4, <1>5 DEF BilledAmount
<1>7. BilledQuantity' = BilledQuantity
  BY <1>4 DEF BilledQuantity, Sum
<1> QED
  BY <1>1, <1>3, <1>6, <1>7 DEF LineBilledOnce

\* What bills and credits the order line stays when its documents stay.
LEMMA SalesStay ==
  ASSUME RInv, Untouched(Sales), Untouched(Returns), UNCHANGED <<delivered, adjustments>>,
         \A r \in Returns : Live(r) => returns'[r].issue = returns[r].issue
  PROVE  SalesDelivered' /\ CreditsWithinSales' /\ LineBilledOnce'
<1>1. CreditsWithinSales
  BY DEF RInv
<1>2. \A d \in Sales \union Returns : Live(d)' <=> Live(d)
  BY DEF Untouched, Live, IsLive
<1>3. SalesDelivered' /\ LineBilledOnce'
  BY BillingStays
<1>4. CreditsWithinSales'
  <2> SUFFICES ASSUME NEW s \in Sales
               PROVE  /\ CreditedQuantity(s)' <= (IF Live(s) THEN delivered[s] ELSE 0)'
                      /\ CreditedAmount(s)' <= documents'[s].original
                      /\ Live(s)' /\ CreditedQuantity(s)' = delivered'[s] =>
                           CreditedAmount(s)' = documents'[s].original
    BY DEF CreditsWithinSales
  <2>1. LiveCredits(s)' = LiveCredits(s)
    BY <1>2 DEF LiveCredits
  <2>2. CreditedQuantity(s)' = CreditedQuantity(s) /\ CreditedAmount(s)' = CreditedAmount(s)
    BY <2>1 DEF CreditedQuantity, CreditedAmount
  <2>3. documents'[s].original = documents[s].original /\ (Live(s)' <=> Live(s))
    BY <1>2 DEF Untouched
  <2> QED
    BY <1>1, <2>2, <2>3 DEF CreditsWithinSales
<1> QED
  BY <1>3, <1>4

\* A step that leaves the return credits alone leaves the returns consistent.
LEMMA ReturnsStay ==
  ASSUME RInv, Untouched(Returns), UNCHANGED <<returns, adjustments>>
  PROVE  ReturnsHold'
BY DEF RInv, ReturnsHold, Untouched, Exists, Live, IsLive

\* A request under way stays valid while no payment appears under its number.
LEMMA RequestsStay ==
  ASSUME RInv, Untouched(Payments), UNCHANGED requests
  PROVE  RequestsHold'
<1> SUFFICES ASSUME NEW c \in Clerks, requests[c] # None
             PROVE  /\ requests[c] \in RequestRecords
                    /\ requests[c].posting # 0 =>
                         /\ ~Exists(requests[c].payment)'
                         /\ \A b \in Clerks \ {c} :
                              requests[b] # None => requests[b].payment # requests[c].payment
  BY DEF RequestsHold, Exists
<1>1. /\ requests[c] \in RequestRecords
      /\ requests[c].posting # 0 =>
           /\ ~Exists(requests[c].payment)
           /\ \A b \in Clerks \ {c} :
                requests[b] # None => requests[b].payment # requests[c].payment
  BY DEF RInv, RequestsHold
<1>2. requests[c].payment \in Payments
  BY <1>1 DEF RequestRecords
<1> QED
  BY <1>1, <1>2 DEF Untouched, Exists

\* A transaction that posts nothing and changes no quantity.
LEMMA AllStays ==
  ASSUME RInv, UNCHANGED <<documents, delivered, adjustments>>,
         \A r \in Returns : Live(r) => returns'[r].issue = returns[r].issue
  PROVE  SalesDelivered' /\ CreditsWithinSales' /\ LineBilledOnce'
<1>1. Untouched(Sales) /\ Untouched(Returns)
  BY DEF Untouched
<1> QED
  BY <1>1, SalesStay

\* Amounts for sales are items that can be allocated.
LEMMA ItemsAreItems ==
  ASSUME NEW items \in UNION {[T -> Amounts] : T \in SUBSET Sales}
  PROVE  IsItems(items) /\ DOMAIN items \subseteq Sales
<1>1. PICK T \in SUBSET Sales : items \in [T -> Amounts]
  OBVIOUS
<1>2. Amounts \subseteq 1..MaxAmount
  BY ReceivablesAssumption DEF ReceivablesAssumption
<1> QED
  BY <1>1, <1>2, DocumentSets DEF IsItems

\* What fits what remains of a live credit has room in the documents.
LEMMA FitsHasRoom ==
  ASSUME RInv, NEW p \in Credits, Live(p), NEW items, IsItems(items), DOMAIN items \subseteq Sales,
         Fits(items, Remaining(p))
  PROVE  HasRoom(documents, p, items)
<1>1. \A s \in DOMAIN items : Live(s) /\ items[s] <= documents[s].original - documents[s].allocated
  BY DEF Fits, Open, Live, Remaining
<1>2. Sales \intersect Refunds = {}
  BY ReceivablesAssumption DEF ReceivablesAssumption
<1> QED
  BY <1>1, <1>2 DEF HasRoom, Fits, Remaining, Live, IsLive

-----------------------------------------------------------------------------
(* Payments.                                                               *)

\* A payment without allocations.
LEMMA CreatePaymentStep ==
  ASSUME RInv, NEW p \in Payments, NEW amount \in Paid, CreatePayment(p, amount)
  PROVE  RInv'
<1>1. /\ documents[p].status = "none" /\ documents' = [documents EXCEPT ![p] = Posted(amount)]
      /\ balance' = balance - amount
      /\ \A c \in Clerks : requests[c] # None => requests[c].payment # p
      /\ UNCHANGED <<delivered, allocations, issues, trip, attempted, returns, adjustments, refundOf,
                     requests>>
  BY DEF CreatePayment, Exists
<1>2. Agree(documents, allocations, balance) /\ documents \in [Documents -> DocumentRecords]
  BY DEF RInv, Agree
<1>3. p \in Documents /\ p \notin Debits /\ p \notin Sales /\ p \notin Returns /\ amount \in 0..MaxAmount
  BY DocumentSets, ReceivablesAssumption DEF ReceivablesAssumption
<1>4. Agree(documents', allocations', balance')
  <2>1. Agree([documents EXCEPT ![p] = Posted(amount)], allocations,
              IF p \in Debits THEN balance + amount ELSE balance - amount)
    BY <1>1, <1>2, <1>3, AgreePosts
  <2> QED
    BY <1>1, <1>3, <2>1
<1>5. \A d \in Documents \ {p} : documents'[d] = documents[d]
  BY <1>1, <1>2
<1>6. Untouched(Sales) /\ Untouched(Returns)
  BY <1>3, <1>5, DocumentSets DEF Untouched
<1>7. SalesDelivered' /\ CreditsWithinSales' /\ LineBilledOnce'
  BY <1>1, <1>6, SalesStay
<1>8. ReturnsHold'
  BY <1>1, <1>6, ReturnsStay
<1>9. RequestsHold'
  <2> SUFFICES ASSUME NEW c \in Clerks, requests[c] # None
               PROVE  /\ requests[c] \in RequestRecords
                      /\ requests[c].posting # 0 =>
                           /\ documents'[requests[c].payment].status = "none"
                           /\ \A b \in Clerks \ {c} :
                                requests[b] # None => requests[b].payment # requests[c].payment
    BY <1>1 DEF RequestsHold, Exists
  <2>1. /\ requests[c] \in RequestRecords
        /\ requests[c].posting # 0 =>
             /\ ~Exists(requests[c].payment)
             /\ \A b \in Clerks \ {c} :
                  requests[b] # None => requests[b].payment # requests[c].payment
    BY DEF RInv, RequestsHold
  <2>2. requests[c].payment \in Documents \ {p}
    BY <1>1, <2>1, DocumentSets DEF RequestRecords
  <2> QED
    BY <1>5, <2>1, <2>2 DEF Exists
<1>10. TablesTyped'
  BY <1>1 DEF RInv, TablesTyped
<1> QED
  BY <1>4, <1>7, <1>8, <1>9, <1>10 DEF RInv

\* The look at the targets writes nothing but the request.
LEMMA BeginStep ==
  ASSUME RInv, NEW c \in Clerks, NEW p \in Payments, NEW posting \in {0} \union Paid,
         NEW items \in Items,
         requests' = [requests EXCEPT ![c] = [payment |-> p, posting |-> posting, items |-> items]],
         posting # 0 =>
           /\ ~Exists(p)
           /\ \A b \in Clerks : requests[b] # None => requests[b].payment # p,
         posting = 0 => Exists(p),
         UNCHANGED <<documents, delivered, allocations, balance, issues, trip, attempted, returns,
                     adjustments, refundOf>>
  PROVE  RInv'
<1>1. items \in UNION {[T -> Amounts] : T \in SUBSET Sales}
  BY DEF Items, LiveSales
<1>2. PICK new : new = [payment |-> p, posting |-> posting, items |-> items]
  OBVIOUS
<1>3. new \in RequestRecords /\ new.payment = p /\ new.posting = posting
  BY <1>1, <1>2 DEF RequestRecords
<1>4. DOMAIN requests = Clerks
  BY DEF RInv, TablesTyped
<1>5. requests'[c] = new /\ \A b \in Clerks \ {c} : requests'[b] = requests[b]
  BY <1>2, <1>4
<1>6. \A b \in Clerks :
        requests[b] # None =>
          /\ requests[b] \in RequestRecords
          /\ requests[b].posting # 0 =>
               /\ ~Exists(requests[b].payment)
               /\ \A a \in Clerks \ {b} :
                    requests[a] # None => requests[a].payment # requests[b].payment
  BY DEF RInv, RequestsHold
<1>7. RequestsHold'
  <2> SUFFICES ASSUME NEW b \in Clerks, requests'[b] # None
               PROVE  /\ requests'[b] \in RequestRecords
                      /\ requests'[b].posting # 0 =>
                           /\ ~Exists(requests'[b].payment)
                           /\ \A a \in Clerks \ {b} :
                                requests'[a] # None => requests'[a].payment # requests'[b].payment
    BY DEF RequestsHold, Exists
  <2>1. CASE b = c
    BY <1>3, <1>5, <2>1
  <2>2. CASE b # c
    <3>1. requests'[b] = requests[b] /\ requests[b] # None
      BY <1>5, <2>2
    <3>2. requests[b].posting # 0 => requests[b].payment # p
      BY <1>6, <3>1
    <3> QED
      BY <1>3, <1>5, <1>6, <3>1, <3>2
  <2> QED
    BY <2>1, <2>2
<1>8. SalesDelivered' /\ CreditsWithinSales' /\ LineBilledOnce'
  BY AllStays
<1>9. ReturnsHold'
  BY ReturnsStay DEF Untouched
<1>10. TablesTyped'
  BY DEF RInv, TablesTyped
<1>11. Agree(documents', allocations', balance')
  BY DEF RInv
<1> QED
  BY <1>7, <1>8, <1>9, <1>10, <1>11 DEF RInv

\* A request is applied or undone.
LEMMA FinishAllocationStep ==
  ASSUME RInv, NEW c \in Clerks, FinishAllocation(c)
  PROVE  RInv'
<1>1. PICK p : p = requests[c].payment
  OBVIOUS
<1>2. PICK posting : posting = requests[c].posting
  OBVIOUS
<1>3. PICK items : items = requests[c].items
  OBVIOUS
<1>4. /\ requests[c] # None /\ requests' = [requests EXCEPT ![c] = None]
      /\ UNCHANGED <<delivered, issues, trip, attempted, returns, adjustments, refundOf>>
  BY DEF FinishAllocation
<1>5. DOMAIN requests = Clerks
  BY DEF RInv, TablesTyped
<1>6. \A b \in Clerks :
        requests[b] # None =>
          /\ requests[b] \in RequestRecords
          /\ requests[b].posting # 0 =>
               /\ ~Exists(requests[b].payment)
               /\ \A a \in Clerks \ {b} :
                    requests[a] # None => requests[a].payment # requests[b].payment
  BY DEF RInv, RequestsHold
<1>7. /\ p \in Payments /\ posting \in {0} \union Paid
      /\ items \in UNION {[T -> Amounts] : T \in SUBSET Sales}
      /\ posting # 0 => ~Exists(p)
  BY <1>1, <1>2, <1>3, <1>4, <1>6 DEF RequestRecords
<1>8. IsItems(items) /\ DOMAIN items \subseteq Sales
  BY <1>7, ItemsAreItems
<1>9. /\ p \in Documents /\ p \in Credits /\ p \notin Debits /\ p \notin Sales /\ p \notin Returns
      /\ posting \in 0..MaxAmount /\ posting \in Nat
  BY <1>7, DocumentSets, ReceivablesAssumption DEF ReceivablesAssumption
<1>10. Agree(documents, allocations, balance) /\ documents \in [Documents -> DocumentRecords] /\ balance \in Int
  BY DEF RInv, Agree
<1>11. ASSUME Untouched(Documents \ {p}), posting = 0 => Untouched({p})
       PROVE  RequestsHold' /\ ReturnsHold' /\ SalesDelivered' /\ CreditsWithinSales' /\ LineBilledOnce'
  <2>1. Untouched(Sales) /\ Untouched(Returns)
    BY <1>9, <1>11, DocumentSets DEF Untouched
  <2>2. SalesDelivered' /\ CreditsWithinSales' /\ LineBilledOnce'
    BY <1>4, <2>1, SalesStay
  <2>3. ReturnsHold'
    BY <1>4, <2>1, ReturnsStay
  <2>4. RequestsHold'
    <3> SUFFICES ASSUME NEW b \in Clerks, requests'[b] # None
                 PROVE  /\ requests'[b] \in RequestRecords
                        /\ requests'[b].posting # 0 =>
                             /\ documents'[requests'[b].payment].status = "none"
                             /\ \A a \in Clerks \ {b} :
                                  requests'[a] # None => requests'[a].payment # requests'[b].payment
      BY DEF RequestsHold, Exists
    <3>1. b # c /\ requests'[b] = requests[b] /\ requests[b] # None
      BY <1>4, <1>5
    <3>2. requests[b] \in RequestRecords /\ requests[b].payment \in Documents
      BY <1>6, <3>1, DocumentSets DEF RequestRecords
    <3>3. requests[b].posting # 0 => posting = 0 \/ requests[b].payment # p
      BY <1>1, <1>2, <1>4, <1>6, <3>1
    <3>4. requests[b].posting # 0 => documents'[requests[b].payment].status = "none"
      <4> SUFFICES ASSUME requests[b].posting # 0
                   PROVE  documents'[requests[b].payment].status = "none"
        OBVIOUS
      <4>1. ~Exists(requests[b].payment)
        BY <1>6, <3>1
      <4> QED
        BY <1>11, <3>2, <3>3, <4>1 DEF Untouched, Exists
    <3>5. \A a \in Clerks \ {b} : requests'[a] # None => a # c /\ requests'[a] = requests[a]
      BY <1>4, <1>5
    <3> QED
      BY <1>6, <3>1, <3>2, <3>4, <3>5
  <2> QED
    BY <2>2, <2>3, <2>4
<1>12. TablesTyped'
  BY <1>4, <1>5 DEF RInv, TablesTyped
<1>13. CASE ~Applicable(c)
  <2>1. UNCHANGED <<documents, allocations, balance>>
    BY <1>13 DEF FinishAllocation
  <2>2. Agree(documents', allocations', balance')
    BY <1>10, <2>1
  <2>3. Untouched(Documents \ {p}) /\ Untouched({p})
    BY <2>1 DEF Untouched
  <2> QED
    BY <1>11, <1>12, <2>2, <2>3 DEF RInv
<1>14. CASE Applicable(c) /\ posting = 0
  <2>1. /\ documents' = Applied(documents, p, items)
        /\ allocations' = allocations (+) SetToBag(ItemRows(p, items))
        /\ balance' = balance - posting
    BY <1>1, <1>2, <1>3, <1>14 DEF FinishAllocation, WithRows, ItemRows, ItemRow
  <2>2. Live(p) /\ Fits(items, Remaining(p))
    BY <1>1, <1>2, <1>3, <1>14 DEF Applicable
  <2>3. HasRoom(documents, p, items)
    BY <1>8, <1>9, <2>2, FitsHasRoom
  <2>4. /\ Agree(Applied(documents, p, items), allocations (+) SetToBag(ItemRows(p, items)), balance)
        /\ SameFace(documents, Applied(documents, p, items))
    BY <1>8, <1>9, <1>10, <2>3, AgreeApplies
  <2>5. balance' = balance
    BY <1>10, <1>14, <2>1
  <2>6. Agree(documents', allocations', balance')
    BY <2>1, <2>4, <2>5
  <2>7. SameFace(documents, documents')
    BY <2>1, <2>4
  <2>8. Untouched(Documents \ {p}) /\ Untouched({p})
    BY <1>9, <2>7 DEF Untouched, SameFace
  <2> QED
    BY <1>11, <1>12, <2>6, <2>8 DEF RInv
<1>15. CASE Applicable(c) /\ posting # 0
  <2>1. PICK docs : docs = [documents EXCEPT ![p] = Posted(posting)]
    OBVIOUS
  <2>2. /\ documents' = Applied(docs, p, items)
        /\ allocations' = allocations (+) SetToBag(ItemRows(p, items))
        /\ balance' = balance - posting
    BY <1>1, <1>2, <1>3, <1>15, <2>1 DEF FinishAllocation, WithRows, ItemRows, ItemRow
  <2>3. Fits(items, posting)
    BY <1>1, <1>2, <1>3, <1>15 DEF Applicable
  <2>4. documents[p].status = "none"
    BY <1>7, <1>15 DEF Exists
  <2>5. Agree(docs, allocations, balance - posting)
    <3>1. Agree([documents EXCEPT ![p] = Posted(posting)], allocations,
                IF p \in Debits THEN balance + posting ELSE balance - posting)
      BY <1>9, <1>10, <2>4, AgreePosts
    <3> QED
      BY <1>9, <2>1, <3>1
  <2>6. docs[p] = Posted(posting) /\ \A d \in Documents \ {p} : docs[d] = documents[d]
    BY <1>9, <1>10, <2>1
  <2>7. HasRoom(docs, p, items)
    <3>1. IsLive(docs[p]) /\ docs[p].original - docs[p].allocated = posting
      BY <1>9, <2>6 DEF Posted, IsLive
    <3>2. \A s \in DOMAIN items : docs[s] = documents[s] /\ s \notin Refunds
      BY <1>8, <1>9, <2>6, DocumentSets, ReceivablesAssumption DEF ReceivablesAssumption
    <3>3. \A s \in DOMAIN items :
            IsLive(documents[s]) /\ items[s] <= documents[s].original - documents[s].allocated
      BY <2>3 DEF Fits, Open, Live, IsLive, Remaining
    <3> QED
      BY <2>3, <3>1, <3>2, <3>3 DEF HasRoom, Fits
  <2>8. /\ Agree(documents', allocations', balance')
        /\ SameFace(docs, documents')
    BY <1>8, <1>9, <2>2, <2>5, <2>7, AgreeApplies
  <2>9. Untouched(Documents \ {p})
    BY <2>6, <2>8 DEF Untouched, SameFace
  <2> QED
    BY <1>11, <1>12, <1>15, <2>8, <2>9 DEF RInv
<1> QED
  BY <1>13, <1>14, <1>15

\* An allocation is taken back, of documents that are still live.
LEMMA ReverseAllocationStep ==
  ASSUME RInv, NEW row \in ActiveRows, ReverseAllocation(row)
  PROVE  RInv'
<1>1. /\ row \in DOMAIN allocations
      /\ documents' = Unapplied(documents, row)
      /\ allocations' = allocations (-) SetToBag({row})
      /\ UNCHANGED <<delivered, balance, issues, trip, attempted, returns, adjustments, refundOf,
                     requests>>
  BY DEF ReverseAllocation, ActiveRows, BagToSet
<1>2. Agree(documents, allocations, balance)
  BY DEF RInv
<1>3. /\ Agree(Unapplied(documents, row), allocations (-) SetToBag({row}), balance)
      /\ SameFace(documents, Unapplied(documents, row))
  BY <1>1, <1>2, AgreeUnapplies
<1>4. Agree(documents', allocations', balance')
  BY <1>1, <1>3
<1>5. Untouched(Sales) /\ Untouched(Returns) /\ Untouched(Payments)
  BY <1>1, <1>3, UntouchedBySameFace
<1>6. SalesDelivered' /\ CreditsWithinSales' /\ LineBilledOnce'
  BY <1>1, <1>5, SalesStay
<1>7. ReturnsHold' /\ RequestsHold'
  BY <1>1, <1>5, ReturnsStay, RequestsStay
<1>8. TablesTyped'
  BY <1>1 DEF RInv, TablesTyped
<1> QED
  BY <1>4, <1>6, <1>7, <1>8 DEF RInv

\* A payment is reversed when nothing of it is allocated.
LEMMA ReversePaymentStep ==
  ASSUME RInv, NEW p \in Payments, ReversePayment(p)
  PROVE  RInv'
<1>1. /\ IsLive(documents[p]) /\ documents[p].allocated = 0
      /\ documents' = [documents EXCEPT ![p] = Reversed(@)]
      /\ balance' = balance + documents[p].original
      /\ UNCHANGED <<delivered, allocations, issues, trip, attempted, returns, adjustments, refundOf,
                     requests>>
  BY DEF ReversePayment, Live, IsLive
<1>2. Agree(documents, allocations, balance) /\ documents \in [Documents -> DocumentRecords]
  BY DEF RInv, Agree
<1>3. p \in Documents /\ p \notin Debits /\ p \notin Sales /\ p \notin Returns
  BY DocumentSets, ReceivablesAssumption DEF ReceivablesAssumption
<1>4. Agree(documents', allocations', balance')
  <2>1. Agree([documents EXCEPT ![p] = Reversed(@)], allocations,
              IF p \in Debits THEN balance - documents[p].original
              ELSE balance + documents[p].original)
    BY <1>1, <1>2, <1>3, AgreeReverses
  <2> QED
    BY <1>1, <1>3, <2>1
<1>5. \A d \in Documents \ {p} : documents'[d] = documents[d]
  BY <1>1, <1>2
<1>6. documents'[p].status = "reversed" /\ documents[p].status # "none"
  <2>1. documents[p] \in DocumentRecords
    BY <1>2, <1>3
  <2> QED
    BY <1>1, <1>2, <1>3, <2>1 DEF Reversed, IsLive, DocumentRecords
<1>7. Untouched(Sales) /\ Untouched(Returns)
  BY <1>3, <1>5, DocumentSets DEF Untouched
<1>8. SalesDelivered' /\ CreditsWithinSales' /\ LineBilledOnce'
  BY <1>1, <1>7, SalesStay
<1>9. ReturnsHold'
  BY <1>1, <1>7, ReturnsStay
<1>10. RequestsHold'
  <2> SUFFICES ASSUME NEW c \in Clerks, requests[c] # None
               PROVE  /\ requests[c] \in RequestRecords
                      /\ requests[c].posting # 0 =>
                           /\ documents'[requests[c].payment].status = "none"
                           /\ \A b \in Clerks \ {c} :
                                requests[b] # None => requests[b].payment # requests[c].payment
    BY <1>1 DEF RequestsHold, Exists
  <2>1. /\ requests[c] \in RequestRecords
        /\ requests[c].posting # 0 =>
             /\ documents[requests[c].payment].status = "none"
             /\ \A b \in Clerks \ {c} :
                  requests[b] # None => requests[b].payment # requests[c].payment
    BY DEF RInv, RequestsHold, Exists
  <2>2. requests[c].payment \in Documents
    BY <2>1, DocumentSets DEF RequestRecords
  <2>3. requests[c].posting # 0 => requests[c].payment # p
    BY <1>6, <2>1
  <2> QED
    BY <1>5, <2>1, <2>2, <2>3
<1>11. TablesTyped'
  BY <1>1 DEF RInv, TablesTyped
<1> QED
  BY <1>4, <1>8, <1>9, <1>10, <1>11 DEF RInv

-----------------------------------------------------------------------------
(* Deliveries and handovers.                                               *)

\* What is billed and credited are numbers.
LEMMA BilledFacts ==
  ASSUME RInv
  PROVE  /\ IsFiniteSet(LiveSales) /\ LiveSales \subseteq Sales
         /\ \A s \in Sales : delivered[s] \in Nat /\ documents[s].original \in Nat
         /\ BilledQuantity \in Nat /\ BilledAmount \in Nat
<1>1. IsFiniteSet(LiveSales) /\ LiveSales \subseteq Sales
  BY DocumentSets, FS_Subset DEF LiveSales
<1>2. documents \in [Documents -> DocumentRecords] /\ delivered \in [Sales -> 0..LineQuantity]
  BY DEF RInv, Agree, TablesTyped
<1>3. \A s \in Sales : delivered[s] \in Nat /\ documents[s].original \in Nat
  BY <1>2, DocumentFacts, DocumentSets, ReceivablesAssumption DEF ReceivablesAssumption
<1>4. PICK f : f = [s \in LiveSales |-> delivered[s]]
  OBVIOUS
<1>5. PICK g : g = [s \in LiveSales |-> documents[s].original]
  OBVIOUS
<1>6. \A s \in LiveSales : f[s] \in Nat /\ g[s] \in Nat
  BY <1>1, <1>3, <1>4, <1>5
<1>7. SumFunctionOnSet(f, LiveSales) \in Nat
  BY ONLY <1>1, <1>6, SumNat
<1>8. SumFunctionOnSet(g, LiveSales) \in Nat
  BY ONLY <1>1, <1>6, SumNat
<1> QED
  BY <1>1, <1>3, <1>4, <1>5, <1>7, <1>8 DEF BilledQuantity, BilledAmount, Sum

\* What the credits of a sale take back are quantities.
LEMMA CreditedFacts ==
  ASSUME RInv, NEW s
  PROVE  /\ IsFiniteSet(LiveCredits(s)) /\ LiveCredits(s) \subseteq Returns
         /\ \A r \in Returns : adjustments[r].quantity \in Nat /\ adjustments[r].amount \in Nat
         /\ CreditedQuantity(s) \in Nat /\ CreditedAmount(s) \in Nat
<1>1. IsFiniteSet(LiveCredits(s)) /\ LiveCredits(s) \subseteq Returns
  BY DocumentSets, FS_Subset DEF LiveCredits
<1>2. \A r \in Returns : adjustments[r].quantity \in Nat /\ adjustments[r].amount \in Nat
  <2>1. adjustments \in [Returns -> [quantity : 0..LineQuantity, amount : 0..MaxAmount]]
    BY DEF RInv, TablesTyped
  <2>2. ASSUME NEW r \in Returns
        PROVE  adjustments[r] \in [quantity : 0..LineQuantity, amount : 0..MaxAmount]
    BY <2>1
  <2> QED
    BY <2>2, ReceivablesAssumption DEF ReceivablesAssumption
<1>3. PICK f : f = [r \in LiveCredits(s) |-> adjustments[r].quantity]
  OBVIOUS
<1>4. PICK g : g = [r \in LiveCredits(s) |-> adjustments[r].amount]
  OBVIOUS
<1>5. PICK L : L = LiveCredits(s)
  OBVIOUS
<1>6. IsFiniteSet(L) /\ \A r \in L : f[r] \in Nat /\ g[r] \in Nat
  BY <1>1, <1>2, <1>3, <1>4, <1>5
<1>7. SumFunctionOnSet(f, L) \in Nat
  BY ONLY <1>6, SumNat
<1>8. SumFunctionOnSet(g, L) \in Nat
  BY ONLY <1>6, SumNat
<1> QED
  BY <1>1, <1>2, <1>3, <1>4, <1>5, <1>7, <1>8 DEF CreditedQuantity, CreditedAmount

\* A share of a part is a share of the whole.
LEMMA ProratedWithin ==
  ASSUME NEW amount \in Nat, NEW whole \in Nat \ {0}, NEW part \in Nat, part <= whole
  PROVE  Prorated(amount, part, whole) \in 0..amount
BY DEF Prorated

\* What a delivery is billed: a share of the line, or what is left of it.
LEMMA BilledBound ==
  ASSUME RInv, NEW quantity \in Nat, BilledQuantity + quantity <= LineQuantity,
         Billed(quantity) >= 0
  PROVE  /\ Billed(quantity) \in 0..MaxAmount
         /\ BilledQuantity + quantity = LineQuantity => BilledAmount + Billed(quantity) = LineTotal
<1>1. PICK b \in Nat, a \in Nat : b = BilledQuantity /\ a = BilledAmount
  BY BilledFacts
<1>2. /\ LineQuantity \in Nat \ {0} /\ LineTotal \in Nat /\ MaxAmount \in Nat
      /\ LineTotal <= MaxAmount
  BY ReceivablesAssumption DEF ReceivablesAssumption
<1>3. PICK w : w = Billed(quantity)
  OBVIOUS
<1>4. CASE b + quantity = LineQuantity
  <2>1. w = LineTotal - a
    BY <1>1, <1>3, <1>4 DEF Billed
  <2>2. w >= 0
    BY <1>3
  <2>3. w \in 0..MaxAmount /\ a + w = LineTotal
    BY ONLY <1>2, <2>1, <2>2, a \in Nat
  <2> QED
    BY <1>1, <1>3, <2>3
<1>5. CASE b + quantity # LineQuantity
  <2>1. w = Prorated(LineTotal, quantity, LineQuantity)
    BY <1>1, <1>3, <1>5 DEF Billed
  <2>2. quantity <= LineQuantity
    BY <1>1, <1>2
  <2>3. w \in 0..LineTotal
    BY <1>2, <2>1, <2>2, ProratedWithin
  <2>4. w \in 0..MaxAmount
    BY ONLY <1>2, <2>3
  <2> QED
    BY <1>1, <1>3, <1>5, <2>4
<1> QED
  BY <1>4, <1>5

\* A sale that is posted bills the line and has no credit yet.
LEMMA PostSaleStep ==
  ASSUME RInv, NEW s \in Sales, NEW quantity \in Nat \ {0}, PostSale(s, quantity),
         UNCHANGED <<allocations, returns, adjustments, requests>>
  PROVE  /\ Agree(documents', allocations', balance') /\ RequestsHold' /\ ReturnsHold'
         /\ SalesDelivered' /\ CreditsWithinSales' /\ LineBilledOnce'
         /\ delivered' \in [Sales -> 0..LineQuantity]
<1>1. PICK w : w = Billed(quantity)
  OBVIOUS
<1>2. /\ documents[s].status = "none"
      /\ BilledQuantity + quantity <= LineQuantity
      /\ w >= 0
      /\ w = 0 => UNCHANGED <<documents, delivered, balance>>
      /\ w # 0 => /\ documents' = [documents EXCEPT ![s] = Posted(w)]
                  /\ delivered' = [delivered EXCEPT ![s] = quantity]
                  /\ balance' = balance + w
  BY <1>1 DEF PostSale
<1>3. /\ w \in 0..MaxAmount
      /\ BilledQuantity + quantity = LineQuantity => BilledAmount + w = LineTotal
  BY <1>1, <1>2, BilledBound
<1>4. /\ Agree(documents, allocations, balance) /\ documents \in [Documents -> DocumentRecords]
      /\ delivered \in [Sales -> 0..LineQuantity]
  BY DEF RInv, Agree, TablesTyped
<1>5. s \in Documents /\ s \in Debits /\ s \notin Credits /\ s \notin Returns /\ s \notin Payments
  BY DocumentSets
<1>6. CASE w = 0
  <2>1. UNCHANGED <<documents, delivered, balance>>
    BY <1>2, <1>6
  <2>2. Untouched(Documents) /\ Untouched(Returns) /\ Untouched(Payments)
    BY <2>1 DEF Untouched
  <2> QED
    BY <1>4, <2>1, <2>2, AllStays, ReturnsStay, RequestsStay
<1>7. CASE w # 0
  <2>1. /\ documents' = [documents EXCEPT ![s] = Posted(w)]
        /\ delivered' = [delivered EXCEPT ![s] = quantity]
        /\ balance' = balance + w
    BY <1>2, <1>7
  <2>2. PICK b \in Nat, a \in Nat : b = BilledQuantity /\ a = BilledAmount
    BY BilledFacts
  <2>3. LineQuantity \in Nat \ {0} /\ w \in Nat
    BY <1>3, ReceivablesAssumption DEF ReceivablesAssumption
  <2>4. quantity \in 0..LineQuantity
    BY <1>2, <2>2, <2>3
  <2>5. Agree(documents', allocations', balance')
    <3>1. Agree([documents EXCEPT ![s] = Posted(w)], allocations,
                IF s \in Debits THEN balance + w ELSE balance - w)
      BY <1>2, <1>3, <1>4, <1>5, AgreePosts
    <3> QED
      BY <1>5, <2>1, <3>1
  <2>6. /\ documents'[s] = Posted(w) /\ delivered'[s] = quantity
        /\ \A d \in Documents \ {s} : documents'[d] = documents[d]
        /\ \A x \in Sales \ {s} : delivered'[x] = delivered[x]
    BY <1>4, <1>5, <2>1
  <2>7. /\ documents'[s].original = w /\ documents'[s].status = "open"
    BY <2>6 DEF Posted
  <2>8. Untouched(Returns) /\ Untouched(Payments)
    BY <1>5, <2>6, DocumentSets DEF Untouched
  <2>9. ReturnsHold' /\ RequestsHold'
    BY <2>8, ReturnsStay, RequestsStay
  <2>10. Live(s)' /\ ~Live(s) /\ \A x \in Sales \ {s} : Live(x)' <=> Live(x)
    BY <1>2, <2>6, <2>7, DocumentSets DEF Live
  <2>11. SalesDelivered'
    <3>1. SalesDelivered
      BY DEF RInv
    <3>2. \A x \in Sales : Live(x)' => delivered'[x] >= 1
      BY <2>6, <2>10, <3>1 DEF SalesDelivered
    <3> QED
      BY <3>2 DEF SalesDelivered
  <2>12. delivered' \in [Sales -> 0..LineQuantity]
    BY <1>4, <2>1, <2>4
  <2>13. LiveSales' = LiveSales \union {s} /\ s \notin LiveSales
    BY <2>10 DEF LiveSales
  <2>14. IsFiniteSet(LiveSales) /\ LiveSales \subseteq Sales
    BY BilledFacts
  <2>15. BilledQuantity' = b + quantity
    <3>1. PICK f : f = [x \in LiveSales |-> delivered[x]]
      OBVIOUS
    <3>2. PICK g : g = [x \in LiveSales' |-> delivered'[x]]
      OBVIOUS
    <3>3. \A x \in LiveSales : f[x] \in Int /\ g[x] = f[x]
      <4>1. \A x \in Sales : delivered[x] \in Nat
        BY BilledFacts
      <4> QED
        BY <2>6, <2>13, <2>14, <3>1, <3>2, <4>1
    <3>4. g[s] = quantity /\ g[s] \in Int
      BY <2>6, <2>13, <3>2
    <3>5. SumFunctionOnSet(g, LiveSales \union {s}) = SumFunctionOnSet(f, LiveSales) + g[s]
      BY ONLY <2>13, <2>14, <3>3, <3>4, SumExtend
    <3> QED
      BY <2>2, <2>13, <3>1, <3>2, <3>4, <3>5 DEF BilledQuantity, Sum
  <2>16. BilledAmount' = a + w
    <3>1. PICK f : f = [x \in LiveSales |-> documents[x].original]
      OBVIOUS
    <3>2. PICK g : g = [x \in LiveSales' |-> documents'[x].original]
      OBVIOUS
    <3>3. \A x \in LiveSales : f[x] \in Int /\ g[x] = f[x]
      <4>1. \A x \in Sales : documents[x].original \in Nat
        BY BilledFacts
      <4>2. \A x \in LiveSales : documents'[x] = documents[x]
        BY <2>6, <2>13, <2>14, DocumentSets
      <4> QED
        BY <2>13, <2>14, <3>1, <3>2, <4>1, <4>2
    <3>4. g[s] = w /\ g[s] \in Int
      BY <2>3, <2>7, <2>13, <3>2
    <3>5. SumFunctionOnSet(g, LiveSales \union {s}) = SumFunctionOnSet(f, LiveSales) + g[s]
      BY ONLY <2>13, <2>14, <3>3, <3>4, SumExtend
    <3> QED
      BY <2>2, <2>13, <3>1, <3>2, <3>4, <3>5 DEF BilledAmount
  <2>17. LineBilledOnce'
    <3>1. b + quantity <= LineQuantity /\ (b + quantity = LineQuantity => a + w = LineTotal)
      BY <1>2, <1>3, <2>2
    <3> QED
      BY <2>15, <2>16, <3>1 DEF LineBilledOnce
  <2>18. CreditsWithinSales'
    <3> SUFFICES ASSUME NEW x \in Sales
                 PROVE  /\ CreditedQuantity(x)' <= (IF Live(x)' THEN delivered'[x] ELSE 0)
                        /\ CreditedAmount(x)' <= documents'[x].original
                        /\ Live(x)' /\ CreditedQuantity(x)' = delivered'[x] =>
                             CreditedAmount(x)' = documents'[x].original
      BY DEF CreditsWithinSales
    <3>1. LiveCredits(x)' = LiveCredits(x)
      BY <2>8 DEF LiveCredits, Live, Untouched, IsLive
    <3>2. CreditedQuantity(x)' = CreditedQuantity(x) /\ CreditedAmount(x)' = CreditedAmount(x)
      BY <3>1 DEF CreditedQuantity, CreditedAmount
    <3>3. /\ CreditedQuantity(x) <= (IF Live(x) THEN delivered[x] ELSE 0)
          /\ CreditedAmount(x) <= documents[x].original
          /\ Live(x) /\ CreditedQuantity(x) = delivered[x] =>
               CreditedAmount(x) = documents[x].original
      BY DEF RInv, CreditsWithinSales
    <3>4. CASE x # s
      <4>1. documents'[x] = documents[x] /\ delivered'[x] = delivered[x] /\ (Live(x)' <=> Live(x))
        BY <2>6, <2>10, <3>4, DocumentSets
      <4> QED
        BY <3>2, <3>3, <4>1
    <3>5. CASE x = s
      <4>1. documents[s].original = 0
        BY <1>2, <1>4, <1>5 DEF Agree, Whole, NoDocument
      <4>2. CreditedQuantity(s) \in Nat /\ CreditedAmount(s) \in Nat
        BY CreditedFacts
      <4>3. CreditedQuantity(s) = 0 /\ CreditedAmount(s) = 0
        BY <2>10, <3>3, <3>5, <4>1, <4>2
      <4> QED
        BY <2>3, <2>6, <2>7, <2>10, <3>2, <3>5, <4>3
    <3> QED
      BY <3>4, <3>5
  <2> QED
    BY <2>5, <2>9, <2>11, <2>12, <2>17, <2>18
<1> QED
  BY <1>6, <1>7

\* A delivery attempt bills what was delivered and keeps the invariant.
LEMMA RecordDeliveryStep ==
  ASSUME RInv, NEW s \in Deliveries, NEW quantity \in 0..LineQuantity, RecordDelivery(s, quantity)
  PROVE  RInv'
<1>1. /\ attempted' = attempted \union {s}
      /\ quantity = 0 => UNCHANGED <<documents, delivered, balance>>
      /\ quantity # 0 => PostSale(s, quantity)
      /\ UNCHANGED <<allocations, issues, trip, returns, adjustments, refundOf, requests>>
  BY DEF RecordDelivery
<1>2. s \in Sales /\ quantity \in Nat /\ attempted' \subseteq Deliveries
  BY <1>1, ReceivablesAssumption DEF Sales, ReceivablesAssumption, RInv, TablesTyped
<1>3. CASE quantity = 0
  <2>1. UNCHANGED <<documents, delivered, balance>>
    BY <1>1, <1>3
  <2>2. Untouched(Returns) /\ Untouched(Payments)
    BY <2>1 DEF Untouched
  <2>3. SalesDelivered' /\ CreditsWithinSales' /\ LineBilledOnce'
    BY <1>1, <2>1, AllStays
  <2>4. ReturnsHold' /\ RequestsHold'
    BY <1>1, <2>2, ReturnsStay, RequestsStay
  <2>5. Agree(documents', allocations', balance')
    BY <1>1, <2>1 DEF RInv
  <2>6. TablesTyped'
    BY <1>1, <1>2, <2>1 DEF RInv, TablesTyped
  <2> QED
    BY <2>3, <2>4, <2>5, <2>6 DEF RInv
<1>4. CASE quantity # 0
  <2>1. /\ Agree(documents', allocations', balance') /\ RequestsHold' /\ ReturnsHold'
        /\ SalesDelivered' /\ CreditsWithinSales' /\ LineBilledOnce'
        /\ delivered' \in [Sales -> 0..LineQuantity]
    BY <1>1, <1>2, <1>4, PostSaleStep
  <2>2. TablesTyped'
    BY <1>1, <1>2, <2>1 DEF RInv, TablesTyped
  <2> QED
    BY <2>1, <2>2 DEF RInv
<1> QED
  BY <1>3, <1>4

\* A manual handover bills its issue and keeps the invariant.
LEMMA HandOverStep ==
  ASSUME RInv, NEW i \in Handovers, HandOver(i)
  PROVE  RInv'
<1>1. /\ issues' = [issues EXCEPT ![i] = "POSTED"]
      /\ PostSale(i, Issued[i])
      /\ UNCHANGED <<allocations, trip, attempted, returns, adjustments, refundOf, requests>>
  BY DEF HandOver
<1>2. i \in Sales /\ Issued[i] \in Nat \ {0}
  BY ReceivablesAssumption DEF Sales, ReceivablesAssumption
<1>3. /\ Agree(documents', allocations', balance') /\ RequestsHold' /\ ReturnsHold'
      /\ SalesDelivered' /\ CreditsWithinSales' /\ LineBilledOnce'
      /\ delivered' \in [Sales -> 0..LineQuantity]
  BY <1>1, <1>2, PostSaleStep
<1>4. TablesTyped'
  BY <1>1, <1>2, <1>3 DEF RInv, TablesTyped
<1> QED
  BY <1>3, <1>4 DEF RInv

\* The reversal of a handover takes its bill back.  No return of it is open
\* or received, so nothing of it was credited.
LEMMA ReverseIssueStep ==
  ASSUME RInv, NEW i \in Sales, ReverseIssue(i)
  PROVE  RInv'
<1>1. /\ ~BlockedByReturn(i)
      /\ issues' = [issues EXCEPT ![i] = "REVERSED"]
      /\ UNCHANGED <<delivered, allocations, trip, attempted, returns, adjustments, refundOf, requests>>
  BY DEF ReverseIssue
<1>2. TablesTyped'
  BY <1>1 DEF RInv, TablesTyped
<1>3. CASE ~(i \in Handovers /\ Live(i))
  <2>1. UNCHANGED <<documents, balance>>
    BY <1>3 DEF ReverseIssue
  <2>2. Untouched(Returns) /\ Untouched(Payments)
    BY <2>1 DEF Untouched
  <2>3. SalesDelivered' /\ CreditsWithinSales' /\ LineBilledOnce'
    BY <1>1, <2>1, AllStays
  <2>4. ReturnsHold' /\ RequestsHold'
    BY <1>1, <2>2, ReturnsStay, RequestsStay
  <2>5. Agree(documents', allocations', balance')
    BY <1>1, <2>1 DEF RInv
  <2> QED
    BY <1>2, <2>3, <2>4, <2>5 DEF RInv
<1>4. CASE i \in Handovers /\ Live(i)
  <2>1. /\ documents[i].allocated = 0 /\ IsLive(documents[i])
        /\ documents' = [documents EXCEPT ![i] = Reversed(@)]
        /\ balance' = balance - documents[i].original
    BY <1>4 DEF ReverseIssue, Unallocated, Live, IsLive
  <2>2. Agree(documents, allocations, balance) /\ documents \in [Documents -> DocumentRecords]
    BY DEF RInv, Agree
  <2>3. i \in Documents /\ i \in Debits /\ i \notin Returns /\ i \notin Payments
    BY DocumentSets
  <2>4. Agree(documents', allocations', balance')
    <3>1. Agree([documents EXCEPT ![i] = Reversed(@)], allocations,
                IF i \in Debits THEN balance - documents[i].original
                ELSE balance + documents[i].original)
      BY <2>1, <2>2, <2>3, AgreeReverses
    <3> QED
      BY <1>1, <2>1, <2>3, <3>1
  <2>5. \A d \in Documents \ {i} : documents'[d] = documents[d]
    BY <2>1, <2>2
  <2>6. documents'[i].status = "reversed" /\ documents'[i].original = documents[i].original
    <3>1. documents[i] \in DocumentRecords
      BY <2>2, <2>3
    <3> QED
      BY <2>1, <2>2, <2>3, <3>1 DEF Reversed, DocumentRecords
  <2>7. Untouched(Returns) /\ Untouched(Payments)
    BY <2>3, <2>5, DocumentSets DEF Untouched
  <2>8. ReturnsHold' /\ RequestsHold'
    BY <1>1, <2>7, ReturnsStay, RequestsStay
  <2>9. ~Live(i)' /\ Live(i) /\ \A x \in Sales \ {i} : Live(x)' <=> Live(x)
    BY <1>4, <2>5, <2>6, DocumentSets DEF Live
  <2>10. SalesDelivered'
    BY <1>1, <2>9 DEF RInv, SalesDelivered
  <2>11. PICK L : L = LiveSales'
    OBVIOUS
  <2>12. LiveSales = L \union {i} /\ i \notin L /\ IsFiniteSet(L) /\ L \subseteq Sales
    <3>1. LiveSales = L \union {i} /\ i \notin L
      BY <2>9, <2>11 DEF LiveSales
    <3> QED
      BY <3>1, BilledFacts, FS_Subset
  <2>13. PICK b \in Nat, q \in Nat : b = BilledQuantity /\ q = delivered[i]
    BY BilledFacts
  <2>14. BilledQuantity' = b - q
    <3>1. PICK f : f = [x \in L |-> delivered'[x]]
      OBVIOUS
    <3>2. PICK g : g = [x \in LiveSales |-> delivered[x]]
      OBVIOUS
    <3>3. /\ \A x \in L : f[x] \in Int /\ g[x] = f[x]
          /\ g[i] = q /\ g[i] \in Int
      BY <1>1, <2>12, <2>13, <3>1, <3>2, BilledFacts
    <3>4. /\ SumFunctionOnSet(g, L \union {i}) = SumFunctionOnSet(f, L) + g[i]
          /\ SumFunctionOnSet(f, L) \in Int
      BY ONLY <2>12, <3>3, SumExtend
    <3>5. PICK z \in Int : z = SumFunctionOnSet(f, L)
      BY <3>4
    <3>6. b = z + q
      BY <2>12, <2>13, <3>2, <3>3, <3>4, <3>5 DEF BilledQuantity, Sum
    <3>7. BilledQuantity' = z
      BY <2>11, <3>1, <3>5 DEF BilledQuantity, Sum
    <3>8. z = b - q
      BY ONLY <3>6, z \in Int, q \in Nat
    <3> QED
      BY <3>7, <3>8
  <2>15. LineBilledOnce'
    <3>1. b <= LineQuantity /\ q >= 1 /\ LineQuantity \in Nat
      BY <1>4, <2>13, ReceivablesAssumption DEF RInv, LineBilledOnce, SalesDelivered, ReceivablesAssumption
    <3>2. b - q < LineQuantity
      BY <3>1
    <3> QED
      BY <2>14, <3>1, <3>2 DEF LineBilledOnce
  <2>16. LiveCredits(i) = {}
    BY <1>1 DEF LiveCredits, BlockedByReturn, RInv, ReturnsHold, Live, Exists
  <2>17. CreditsWithinSales'
    <3> SUFFICES ASSUME NEW x \in Sales
                 PROVE  /\ CreditedQuantity(x)' <= (IF Live(x)' THEN delivered'[x] ELSE 0)
                        /\ CreditedAmount(x)' <= documents'[x].original
                        /\ Live(x)' /\ CreditedQuantity(x)' = delivered'[x] =>
                             CreditedAmount(x)' = documents'[x].original
      BY DEF CreditsWithinSales
    <3>1. LiveCredits(x)' = LiveCredits(x)
      BY <1>1, <2>7 DEF LiveCredits, Live, Untouched, IsLive
    <3>2. CreditedQuantity(x)' = CreditedQuantity(x) /\ CreditedAmount(x)' = CreditedAmount(x)
      BY <1>1, <3>1 DEF CreditedQuantity, CreditedAmount
    <3>3. /\ CreditedQuantity(x) <= (IF Live(x) THEN delivered[x] ELSE 0)
          /\ CreditedAmount(x) <= documents[x].original
          /\ Live(x) /\ CreditedQuantity(x) = delivered[x] =>
               CreditedAmount(x) = documents[x].original
      BY DEF RInv, CreditsWithinSales
    <3>4. CASE x # i
      <4>1. documents'[x] = documents[x] /\ (Live(x)' <=> Live(x))
        BY <2>5, <2>9, <3>4, DocumentSets
      <4> QED
        BY <1>1, <3>2, <3>3, <4>1
    <3>5. CASE x = i
      <4>1. CreditedQuantity(i) = 0 /\ CreditedAmount(i) = 0
        BY <2>16, SumEmpty DEF CreditedQuantity, CreditedAmount
      <4>2. documents[i].original \in Nat
        BY BilledFacts
      <4> QED
        BY <2>6, <2>9, <3>2, <3>5, <4>1, <4>2
    <3> QED
      BY <3>4, <3>5
  <2> QED
    BY <1>2, <2>4, <2>8, <2>10, <2>15, <2>17 DEF RInv
<1> QED
  BY <1>3, <1>4

\* Closing or recovering the trip touches no account.
LEMMA TripStep ==
  ASSUME RInv, CloseTrip \/ RecoverTrip
  PROVE  RInv'
<1>1. /\ trip' \in {"closed", "recovered"}
      /\ UNCHANGED <<documents, delivered, allocations, balance, issues, attempted, returns,
                     adjustments, refundOf, requests>>
  BY DEF CloseTrip, RecoverTrip
<1>2. Untouched(Returns) /\ Untouched(Payments)
  BY <1>1 DEF Untouched
<1>3. SalesDelivered' /\ CreditsWithinSales' /\ LineBilledOnce'
  BY <1>1, AllStays
<1>4. ReturnsHold' /\ RequestsHold'
  BY <1>1, <1>2, ReturnsStay, RequestsStay
<1>5. TablesTyped' /\ Agree(documents', allocations', balance')
  BY <1>1 DEF RInv, TablesTyped
<1> QED
  BY <1>3, <1>4, <1>5 DEF RInv

-----------------------------------------------------------------------------
(* Returns and their credits.                                              *)

\* A return that is made or cancelled has no credit.
LEMMA CreateReturnStep ==
  ASSUME RInv, NEW r \in Returns, NEW i \in Sales, NEW quantity \in 1..LineQuantity,
         CreateReturn(r, i, quantity)
  PROVE  RInv'
<1>1. PICK new : new = [status |-> "draft", issue |-> i, requested |-> quantity, accepted |-> 0]
  OBVIOUS
<1>2. /\ returns[r].status = "none" /\ returns' = [returns EXCEPT ![r] = new]
      /\ UNCHANGED <<documents, delivered, allocations, balance, issues, trip, attempted, adjustments,
                     refundOf, requests>>
  BY <1>1 DEF CreateReturn
<1>3. new \in [status : {"none", "draft", "received", "cancelled"}, issue : Sales \union {None},
               requested : 0..LineQuantity, accepted : 0..LineQuantity]
  BY <1>1, ReceivablesAssumption DEF ReceivablesAssumption
<1>4. TablesTyped'
  BY <1>2, <1>3 DEF RInv, TablesTyped
<1>5. DOMAIN returns = Returns /\ ReturnsHold
  BY DEF RInv, TablesTyped
<1>6. ~Exists(r) /\ ~Live(r)
  BY <1>2, <1>5 DEF ReturnsHold, Exists, Live
<1>7. returns'[r] = new /\ \A x \in Returns \ {r} : returns'[x] = returns[x]
  BY <1>2, <1>5
<1>8. ReturnsHold'
  BY <1>1, <1>2, <1>5, <1>6, <1>7 DEF ReturnsHold, Exists, Live
<1>9. SalesDelivered' /\ CreditsWithinSales' /\ LineBilledOnce'
  BY <1>2, <1>6, <1>7, AllStays
<1>10. RequestsHold'
  BY <1>2, RequestsStay DEF Untouched
<1>11. Agree(documents', allocations', balance')
  BY <1>2 DEF RInv
<1> QED
  BY <1>4, <1>8, <1>9, <1>10, <1>11 DEF RInv

\* Cancelling a draft return moves no money.
LEMMA CancelReturnStep ==
  ASSUME RInv, NEW r \in Returns, CancelReturn(r)
  PROVE  RInv'
<1>1. /\ returns[r].status = "draft" /\ returns' = [returns EXCEPT ![r].status = "cancelled"]
      /\ UNCHANGED <<documents, delivered, allocations, balance, issues, trip, attempted, adjustments,
                     refundOf, requests>>
  BY DEF CancelReturn
<1>2. /\ returns \in [Returns -> [status : {"none", "draft", "received", "cancelled"},
                                  issue : Sales \union {None}, requested : 0..LineQuantity,
                                  accepted : 0..LineQuantity]]
      /\ ReturnsHold
  BY DEF RInv, TablesTyped
<1>3. TablesTyped'
  <2>1. returns' \in [Returns -> [status : {"none", "draft", "received", "cancelled"},
                                  issue : Sales \union {None}, requested : 0..LineQuantity,
                                  accepted : 0..LineQuantity]]
    <3>1. PICK old : old = returns[r]
      OBVIOUS
    <3>2. old \in [status : {"none", "draft", "received", "cancelled"},
                   issue : Sales \union {None}, requested : 0..LineQuantity,
                   accepted : 0..LineQuantity]
      BY <1>2, <3>1
    <3>3. [old EXCEPT !.status = "cancelled"]
            \in [status : {"none", "draft", "received", "cancelled"},
                 issue : Sales \union {None}, requested : 0..LineQuantity,
                 accepted : 0..LineQuantity]
      BY ONLY <3>2
    <3>4. returns' = [returns EXCEPT ![r] = [old EXCEPT !.status = "cancelled"]]
      BY <1>1, <3>1
    <3> QED
      BY ONLY <1>2, <3>3, <3>4
  <2> QED
    BY <1>1, <2>1 DEF RInv, TablesTyped
<1>4. ~Exists(r) /\ ~Live(r)
  BY <1>1, <1>2 DEF ReturnsHold, Exists, Live
<1>5. returns'[r].issue = returns[r].issue /\ \A x \in Returns \ {r} : returns'[x] = returns[x]
  BY <1>1, <1>2
<1>6. ReturnsHold'
  BY <1>1, <1>2, <1>4, <1>5 DEF ReturnsHold, Exists, Live
<1>7. SalesDelivered' /\ CreditsWithinSales' /\ LineBilledOnce'
  BY <1>1, <1>5, AllStays
<1>8. RequestsHold'
  BY <1>1, RequestsStay DEF Untouched
<1>9. Agree(documents', allocations', balance')
  BY <1>1 DEF RInv
<1> QED
  BY <1>3, <1>6, <1>7, <1>8, <1>9 DEF RInv

\* What goods that come back are worth: never more than is left of the sale,
\* and all of it when nothing stays with the customer.
LEMMA WorthBound ==
  ASSUME RInv, NEW s \in Sales, NEW accepted \in Nat \ {0}, accepted <= Creditable(s)
  PROVE  /\ Live(s)
         /\ CreditedQuantity(s) + accepted <= delivered[s]
         /\ Worth(s, accepted) \in Nat /\ Worth(s, accepted) <= MaxAmount
         /\ CreditedAmount(s) + Worth(s, accepted) <= documents[s].original
         /\ CreditedQuantity(s) + accepted = delivered[s] =>
              CreditedAmount(s) + Worth(s, accepted) = documents[s].original
<1>1. Live(s)
  BY DEF Creditable
<1>2. PICK q \in Nat, a \in Nat : q = CreditedQuantity(s) /\ a = CreditedAmount(s)
  BY CreditedFacts
<1>3. PICK g \in Nat, o \in Nat : g = delivered[s] /\ o = documents[s].original
  BY BilledFacts
<1>4. PICK w : w = Worth(s, accepted)
  OBVIOUS
<1>5. a <= o /\ o <= MaxAmount /\ MaxAmount \in Nat
  <2>1. documents \in [Documents -> DocumentRecords]
    BY DEF RInv, Agree
  <2>2. documents[s].original \in 0..MaxAmount
    BY <2>1, DocumentFacts, DocumentSets
  <2> QED
    BY <1>2, <1>3, <2>2, ReceivablesAssumption DEF RInv, CreditsWithinSales, ReceivablesAssumption
<1>6. Creditable(s) = g - q
  BY <1>1, <1>2, <1>3 DEF Creditable
<1>7. accepted <= g - q
  BY <1>6
<1>8. CASE accepted = g - q
  <2>1. w = o - a
    BY <1>2, <1>3, <1>4, <1>6, <1>8 DEF Worth
  <2>2. w \in Nat /\ w <= MaxAmount /\ a + w = o /\ q + accepted <= g
    BY ONLY <1>5, <1>7, <2>1, q \in Nat, a \in Nat, g \in Nat, o \in Nat, accepted \in Nat \ {0}
  <2> QED
    BY <1>1, <1>2, <1>3, <1>4, <2>2
<1>9. CASE accepted # g - q
  <2>1. PICK p : p = Prorated(o, accepted, g)
    OBVIOUS
  <2>2. w = Least(p, o - a)
    BY <1>2, <1>3, <1>4, <1>6, <1>9, <2>1 DEF Worth
  <2>3. g \in Nat \ {0} /\ accepted \in Nat /\ accepted <= g
    BY ONLY <1>7, q \in Nat, g \in Nat, accepted \in Nat \ {0}
  <2>4. p \in 0..o
    BY <2>1, <2>3, ProratedWithin
  <2>5. w \in Nat /\ w <= o - a
    BY ONLY <1>5, <2>2, <2>4, a \in Nat, o \in Nat DEF Least
  <2>6. w <= MaxAmount /\ a + w <= o
    BY ONLY <1>5, <2>5, a \in Nat, o \in Nat
  <2>7. q + accepted <= g /\ q + accepted # g
    BY ONLY <1>7, <1>9, q \in Nat, g \in Nat, accepted \in Nat \ {0}
  <2> QED
    BY <1>1, <1>2, <1>3, <1>4, <2>5, <2>6, <2>7
<1> QED
  BY <1>8, <1>9

\* The items that settle the sale the goods came from.
LEMMA SettledFacts ==
  ASSUME RInv, NEW s \in Sales, Live(s), NEW worth \in Nat, worth <= MaxAmount,
         NEW settled,
         settled = [x \in {y \in {s} : Least(worth, Remaining(y)) > 0} |-> Least(worth, Remaining(s))]
  PROVE  /\ IsItems(settled) /\ DOMAIN settled \subseteq {s}
         /\ \A t \in DOMAIN settled : settled[t] <= documents[s].original - documents[s].allocated
         /\ Sum(settled, DOMAIN settled) <= worth
<1>1. documents \in [Documents -> DocumentRecords] /\ \A d \in Documents : Whole(documents[d])
  BY DEF RInv, Agree
<1>2. PICK o \in Nat, a \in Nat : o = documents[s].original /\ a = documents[s].allocated
  BY <1>1, DocumentFacts, DocumentSets
<1>3. Remaining(s) = o - a /\ a <= o
  BY <1>1, <1>2, DocumentSets DEF Remaining, Whole
<1>4. PICK n : n = Least(worth, Remaining(s))
  OBVIOUS
<1>5. n \in Nat /\ n <= worth /\ n <= o - a
  BY ONLY <1>3, <1>4, a \in Nat, o \in Nat, worth \in Nat DEF Least
<1>6. PICK T : T = {y \in {s} : Least(worth, Remaining(y)) > 0}
  OBVIOUS
<1>7. settled = [x \in T |-> n] /\ DOMAIN settled = T
  BY <1>4, <1>6
<1>8. T \subseteq {s} /\ (s \in T => n > 0)
  BY <1>4, <1>6
<1>9. MaxAmount \in Nat
  BY ReceivablesAssumption DEF ReceivablesAssumption
<1>10. IsItems(settled)
  <2>1. s \in T => n \in 1..MaxAmount
    BY <1>5, <1>8, <1>9
  <2>2. T \subseteq Debits
    BY <1>8, DocumentSets
  <2> QED
    BY <1>7, <1>8, <2>1, <2>2 DEF IsItems
<1>11. Sum(settled, DOMAIN settled) <= worth
  <2>1. Sum(settled, DOMAIN settled) = SumFunctionOnSet(settled, T)
    BY <1>7, <1>10, ItemFacts
  <2>2. CASE T = {}
    BY <2>1, <2>2, SumEmpty
  <2>3. CASE T = {s}
    <3>1. settled[s] = n /\ n \in Int
      BY <1>5, <1>7, <2>3
    <3>2. SumFunctionOnSet(settled, {s}) = settled[s]
      BY ONLY <3>1, SumSingle
    <3> QED
      BY <1>5, <2>1, <2>3, <3>1, <3>2
  <2> QED
    BY <1>8, <2>2, <2>3
<1>12. \A t \in DOMAIN settled : settled[t] <= documents[s].original - documents[s].allocated
  BY <1>2, <1>5, <1>7
<1> QED
  BY <1>7, <1>8, <1>10, <1>11, <1>12

\* One more credit adds its quantity and its amount to those of its sale.
LEMMA CreditAdded ==
  ASSUME RInv, NEW r \in Returns, NEW s \in Sales, ~Live(r), returns[r].issue = s,
         NEW quantity \in Nat, NEW amount \in Nat,
         LiveCredits(s)' = LiveCredits(s) \union {r},
         adjustments' = [adjustments EXCEPT ![r] = [quantity |-> quantity, amount |-> amount]]
  PROVE  /\ CreditedQuantity(s)' = CreditedQuantity(s) + quantity
         /\ CreditedAmount(s)' = CreditedAmount(s) + amount
<1>1. PICK L : L = LiveCredits(s)
  OBVIOUS
<1>2. /\ IsFiniteSet(L) /\ L \subseteq Returns /\ r \notin L
      /\ \A x \in Returns : adjustments[x].quantity \in Nat /\ adjustments[x].amount \in Nat
  BY <1>1, CreditedFacts DEF LiveCredits
<1>3. DOMAIN adjustments = Returns
  BY DEF RInv, TablesTyped
<1>4. /\ adjustments'[r].quantity = quantity /\ adjustments'[r].amount = amount
      /\ \A x \in L : adjustments'[x] = adjustments[x]
  BY <1>2, <1>3
<1>5. CreditedQuantity(s)' = CreditedQuantity(s) + quantity
  <2>1. PICK f : f = [x \in L |-> adjustments[x].quantity]
    OBVIOUS
  <2>2. PICK g : g = [x \in L \union {r} |-> adjustments'[x].quantity]
    OBVIOUS
  <2>3. \A x \in L : f[x] \in Int /\ g[x] = f[x]
    BY <1>2, <1>4, <2>1, <2>2
  <2>4. g[r] = quantity /\ g[r] \in Int
    BY <1>4, <2>2
  <2>5. SumFunctionOnSet(g, L \union {r}) = SumFunctionOnSet(f, L) + g[r]
    BY ONLY <1>2, <2>3, <2>4, SumExtend
  <2>6. CreditedQuantity(s) = SumFunctionOnSet(f, L)
    BY <1>1, <2>1 DEF CreditedQuantity
  <2>7. CreditedQuantity(s)' = SumFunctionOnSet(g, L \union {r})
    BY <1>1, <2>2 DEF CreditedQuantity
  <2> QED
    BY <2>4, <2>5, <2>6, <2>7
<1>6. CreditedAmount(s)' = CreditedAmount(s) + amount
  <2>1. PICK f : f = [x \in L |-> adjustments[x].amount]
    OBVIOUS
  <2>2. PICK g : g = [x \in L \union {r} |-> adjustments'[x].amount]
    OBVIOUS
  <2>3. \A x \in L : f[x] \in Int /\ g[x] = f[x]
    BY <1>2, <1>4, <2>1, <2>2
  <2>4. g[r] = amount /\ g[r] \in Int
    BY <1>4, <2>2
  <2>5. SumFunctionOnSet(g, L \union {r}) = SumFunctionOnSet(f, L) + g[r]
    BY ONLY <1>2, <2>3, <2>4, SumExtend
  <2>6. CreditedAmount(s) = SumFunctionOnSet(f, L)
    BY <1>1, <2>1 DEF CreditedAmount
  <2>7. CreditedAmount(s)' = SumFunctionOnSet(g, L \union {r})
    BY <1>1, <2>2 DEF CreditedAmount
  <2> QED
    BY <2>4, <2>5, <2>6, <2>7
<1> QED
  BY <1>5, <1>6

\* Receiving goods credits what they are worth and settles their sale.
LEMMA ReceiveReturnStep ==
  ASSUME RInv, NEW r \in Returns, NEW accepted \in 1..LineQuantity, ReceiveReturn(r, accepted)
  PROVE  RInv'
<1>1. PICK s : s = returns[r].issue
  OBVIOUS
<1>2. PICK worth : worth = Worth(s, accepted)
  OBVIOUS
<1>3. PICK settled :
        settled = [x \in {y \in {s} : Least(worth, Remaining(y)) > 0} |-> Least(worth, Remaining(s))]
  OBVIOUS
<1>4. PICK new : new = [quantity |-> accepted, amount |-> worth]
  OBVIOUS
<1>5. /\ returns[r].status = "draft"
      /\ accepted <= Creditable(s)
      /\ returns' = [returns EXCEPT ![r].status = "received", ![r].accepted = accepted]
      /\ worth = 0 => UNCHANGED <<documents, allocations, balance, adjustments>>
      /\ worth # 0 =>
           /\ documents' = Applied([documents EXCEPT ![r] = Posted(worth)], r, settled)
           /\ allocations' = allocations (+) SetToBag(ItemRows(r, settled))
           /\ balance' = balance - worth
           /\ adjustments' = [adjustments EXCEPT ![r] = new]
      /\ UNCHANGED <<delivered, issues, trip, attempted, refundOf, requests>>
  BY <1>1, <1>2, <1>3, <1>4 DEF ReceiveReturn, WithRows, ItemRows, ItemRow
<1>6. /\ returns \in [Returns -> [status : {"none", "draft", "received", "cancelled"},
                                  issue : Sales \union {None}, requested : 0..LineQuantity,
                                  accepted : 0..LineQuantity]]
      /\ adjustments \in [Returns -> [quantity : 0..LineQuantity, amount : 0..MaxAmount]]
      /\ ReturnsHold
  BY DEF RInv, TablesTyped
<1>7. /\ s \in Sales /\ accepted \in Nat \ {0} /\ accepted \in 0..LineQuantity
      /\ documents[r].status = "none" /\ ~Live(r)
  BY <1>1, <1>5, <1>6, ReceivablesAssumption DEF ReturnsHold, Exists, Live, ReceivablesAssumption
<1>8. /\ Live(s)
      /\ CreditedQuantity(s) + accepted <= delivered[s]
      /\ worth \in Nat /\ worth <= MaxAmount
      /\ CreditedAmount(s) + worth <= documents[s].original
      /\ CreditedQuantity(s) + accepted = delivered[s] =>
           CreditedAmount(s) + worth = documents[s].original
  BY <1>2, <1>5, <1>7, WorthBound
<1>9. /\ returns'[r].status = "received" /\ returns'[r].issue = s
      /\ \A x \in Returns \ {r} : returns'[x] = returns[x]
  BY <1>1, <1>5, <1>6
<1>10. TablesTyped'
  <2>1. MaxAmount \in Nat
    BY ReceivablesAssumption DEF ReceivablesAssumption
  <2>2. new \in [quantity : 0..LineQuantity, amount : 0..MaxAmount]
    BY <1>4, <1>7, <1>8, <2>1
  <2>3. adjustments' \in [Returns -> [quantity : 0..LineQuantity, amount : 0..MaxAmount]]
    BY <1>5, <1>6, <2>2
  <2>4. returns' \in [Returns -> [status : {"none", "draft", "received", "cancelled"},
                                  issue : Sales \union {None}, requested : 0..LineQuantity,
                                  accepted : 0..LineQuantity]]
    <3>1. PICK old : old = returns[r]
      OBVIOUS
    <3>2. old \in [status : {"none", "draft", "received", "cancelled"},
                   issue : Sales \union {None}, requested : 0..LineQuantity,
                   accepted : 0..LineQuantity]
      BY <1>6, <3>1
    <3>3. [old EXCEPT !.status = "received", !.accepted = accepted]
            \in [status : {"none", "draft", "received", "cancelled"},
                 issue : Sales \union {None}, requested : 0..LineQuantity,
                 accepted : 0..LineQuantity]
      BY ONLY <3>2, accepted \in 0..LineQuantity
    <3>4. returns' = [returns EXCEPT ![r] = [old EXCEPT !.status = "received",
                                                        !.accepted = accepted]]
      BY <1>5, <3>1
    <3> QED
      BY ONLY <1>6, <3>3, <3>4
  <2> QED
    BY <1>5, <2>3, <2>4 DEF RInv, TablesTyped
<1>11. CASE worth = 0
  <2>1. UNCHANGED <<documents, allocations, balance, adjustments>>
    BY <1>5, <1>11
  <2>2. SalesDelivered' /\ CreditsWithinSales' /\ LineBilledOnce'
    BY <1>1, <1>5, <1>9, <2>1, AllStays
  <2>3. ReturnsHold'
    BY <1>6, <1>7, <1>9, <2>1 DEF ReturnsHold, Exists, Live
  <2>4. RequestsHold'
    BY <1>5, <2>1, RequestsStay DEF Untouched
  <2>5. Agree(documents', allocations', balance')
    BY <2>1 DEF RInv
  <2> QED
    BY <1>10, <2>2, <2>3, <2>4, <2>5 DEF RInv
<1>12. CASE worth # 0
  <2>1. PICK docs : docs = [documents EXCEPT ![r] = Posted(worth)]
    OBVIOUS
  <2>2. /\ documents' = Applied(docs, r, settled)
        /\ allocations' = allocations (+) SetToBag(ItemRows(r, settled))
        /\ balance' = balance - worth
        /\ adjustments' = [adjustments EXCEPT ![r] = new]
    BY <1>5, <1>12, <2>1
  <2>3. /\ Agree(documents, allocations, balance) /\ documents \in [Documents -> DocumentRecords]
    BY DEF RInv, Agree
  <2>4. /\ r \in Documents /\ r \in Credits /\ r \notin Debits /\ r \notin Sales /\ r \notin Payments
        /\ s \in Documents /\ s # r /\ s \notin Refunds
        /\ worth \in 0..MaxAmount
    BY <1>7, <1>8, DocumentSets, ReceivablesAssumption DEF ReceivablesAssumption
  <2>5. Agree(docs, allocations, balance - worth)
    <3>1. Agree([documents EXCEPT ![r] = Posted(worth)], allocations,
                IF r \in Debits THEN balance + worth ELSE balance - worth)
      BY <1>7, <2>3, <2>4, AgreePosts
    <3> QED
      BY <2>1, <2>4, <3>1
  <2>6. docs[r] = Posted(worth) /\ \A d \in Documents \ {r} : docs[d] = documents[d]
    BY <2>1, <2>3, <2>4
  <2>7. /\ IsItems(settled) /\ DOMAIN settled \subseteq {s}
        /\ \A t \in DOMAIN settled : settled[t] <= documents[s].original - documents[s].allocated
        /\ Sum(settled, DOMAIN settled) <= worth
    BY <1>3, <1>7, <1>8, SettledFacts
  <2>8. HasRoom(docs, r, settled)
    <3>1. IsLive(docs[r]) /\ docs[r].original - docs[r].allocated = worth
      BY <1>8, <2>6 DEF Posted, IsLive
    <3>2. \A t \in DOMAIN settled : t = s /\ docs[t] = documents[s] /\ t \notin Refunds
      BY <2>4, <2>6, <2>7
    <3>3. IsLive(documents[s])
      BY <1>8 DEF Live, IsLive
    <3> QED
      BY <2>7, <3>1, <3>2, <3>3 DEF HasRoom
  <2>9. Agree(documents', allocations', balance') /\ SameFace(docs, documents')
    BY <2>2, <2>4, <2>5, <2>7, <2>8, AgreeApplies
  <2>10. Untouched(Documents \ {r})
    BY <2>6, <2>9 DEF Untouched, SameFace
  <2>11. Untouched(Sales) /\ Untouched(Payments) /\ Untouched(Returns \ {r})
    BY <2>4, <2>10, DocumentSets DEF Untouched
  <2>12. SalesDelivered' /\ LineBilledOnce'
    BY <1>5, <2>11, BillingStays
  <2>13. RequestsHold'
    BY <1>5, <2>11, RequestsStay
  <2>14. Live(r)'
    BY <2>4, <2>6, <2>9 DEF SameFace, Posted, Live, IsLive
  <2>15. \A x \in Returns \ {r} : (Live(x)' <=> Live(x)) /\ (Exists(x)' <=> Exists(x))
    BY <2>11 DEF Untouched, Live, Exists, IsLive
  <2>16. adjustments'[r] = new /\ \A x \in Returns \ {r} : adjustments'[x] = adjustments[x]
    BY <1>6, <2>2
  <2>17. ReturnsHold'
    <3> SUFFICES ASSUME NEW x \in Returns
                 PROVE  /\ returns'[x].status # "none" => returns'[x].issue \in Sales
                        /\ Exists(x)' => returns'[x].status = "received"
                        /\ Live(x)' => adjustments'[x].quantity >= 1
      BY DEF ReturnsHold
    <3>1. CASE x = r
      <4>1. adjustments'[x].quantity >= 1
        BY <1>4, <1>7, <2>16, <3>1
      <4> QED
        BY <1>7, <1>9, <3>1, <4>1
    <3>2. CASE x # r
      BY <1>6, <1>9, <2>15, <2>16, <3>2 DEF ReturnsHold
    <3> QED
      BY <3>1, <3>2
  <2>18. CreditsWithinSales'
    <3> SUFFICES ASSUME NEW x \in Sales
                 PROVE  /\ CreditedQuantity(x)' <= (IF Live(x)' THEN delivered'[x] ELSE 0)
                        /\ CreditedAmount(x)' <= documents'[x].original
                        /\ Live(x)' /\ CreditedQuantity(x)' = delivered'[x] =>
                             CreditedAmount(x)' = documents'[x].original
      BY DEF CreditsWithinSales
    <3>1. documents'[x].original = documents[x].original /\ (Live(x)' <=> Live(x))
      BY <2>11 DEF Untouched, Live, IsLive
    <3>2. CASE x = s
      <4>1. LiveCredits(s)' = LiveCredits(s) \union {r}
        BY <1>1, <1>9, <2>14, <2>15 DEF LiveCredits
      <4>2. /\ CreditedQuantity(s)' = CreditedQuantity(s) + accepted
            /\ CreditedAmount(s)' = CreditedAmount(s) + worth
        <5>1. /\ returns[r].issue = s /\ ~Live(r) /\ s \in Sales /\ accepted \in Nat /\ worth \in Nat
              /\ adjustments' = [adjustments EXCEPT ![r] = [quantity |-> accepted, amount |-> worth]]
          BY <1>1, <1>4, <1>7, <1>8, <2>2
        <5> QED
          BY ONLY RInv, r \in Returns, <4>1, <5>1, CreditAdded
      <4> QED
        BY <1>5, <1>8, <3>1, <3>2, <4>2
    <3>3. CASE x # s
      <4>1. LiveCredits(x)' = LiveCredits(x) /\ r \notin LiveCredits(x)
        BY <1>1, <1>9, <2>14, <2>15, <3>3 DEF LiveCredits
      <4>2. \A y \in LiveCredits(x) : adjustments'[y] = adjustments[y]
        BY <2>16, <4>1 DEF LiveCredits
      <4>3. CreditedQuantity(x)' = CreditedQuantity(x) /\ CreditedAmount(x)' = CreditedAmount(x)
        BY <4>1, <4>2 DEF CreditedQuantity, CreditedAmount
      <4> QED
        BY <1>5, <3>1, <4>3 DEF RInv, CreditsWithinSales
    <3> QED
      BY <3>2, <3>3
  <2> QED
    BY <1>10, <2>9, <2>12, <2>13, <2>17, <2>18 DEF RInv
<1> QED
  BY <1>11, <1>12

\* A credit is applied to sales like a payment.
LEMMA AllocateReturnCreditStep ==
  ASSUME RInv, NEW r \in Returns, NEW items \in Items, AllocateReturnCredit(r, items)
  PROVE  RInv'
<1>1. /\ Live(r) /\ Fits(items, Remaining(r))
      /\ documents' = Applied(documents, r, items)
      /\ allocations' = allocations (+) SetToBag(ItemRows(r, items))
      /\ UNCHANGED <<delivered, balance, issues, trip, attempted, returns, adjustments, refundOf,
                     requests>>
  BY DEF AllocateReturnCredit, Open, Live, WithRows, ItemRows, ItemRow
<1>2. items \in UNION {[T -> Amounts] : T \in SUBSET Sales}
  BY DEF Items, LiveSales
<1>3. IsItems(items) /\ DOMAIN items \subseteq Sales /\ r \in Credits
  BY <1>2, ItemsAreItems, DocumentSets
<1>4. HasRoom(documents, r, items)
  BY <1>1, <1>3, FitsHasRoom
<1>5. Agree(documents, allocations, balance)
  BY DEF RInv
<1>6. /\ Agree(Applied(documents, r, items), allocations (+) SetToBag(ItemRows(r, items)), balance)
      /\ SameFace(documents, Applied(documents, r, items))
  BY <1>3, <1>4, <1>5, AgreeApplies
<1>7. Agree(documents', allocations', balance')
  BY <1>1, <1>6
<1>8. Untouched(Sales) /\ Untouched(Returns) /\ Untouched(Payments)
  BY <1>1, <1>6, UntouchedBySameFace
<1>9. SalesDelivered' /\ CreditsWithinSales' /\ LineBilledOnce'
  BY <1>1, <1>8, SalesStay
<1>10. ReturnsHold' /\ RequestsHold'
  BY <1>1, <1>8, ReturnsStay, RequestsStay
<1>11. TablesTyped'
  BY <1>1 DEF RInv, TablesTyped
<1> QED
  BY <1>7, <1>9, <1>10, <1>11 DEF RInv

\* One credit less takes its quantity and its amount from those of its sale.
LEMMA CreditRemoved ==
  ASSUME RInv, NEW r \in Returns, NEW s \in Sales, Live(r), returns[r].issue = s,
         LiveCredits(s)' = LiveCredits(s) \ {r}, UNCHANGED adjustments
  PROVE  /\ CreditedQuantity(s)' = CreditedQuantity(s) - adjustments[r].quantity
         /\ CreditedAmount(s)' = CreditedAmount(s) - adjustments[r].amount
<1>1. PICK L : L = LiveCredits(s)'
  OBVIOUS
<1>2. /\ LiveCredits(s) = L \union {r} /\ r \notin L /\ IsFiniteSet(L) /\ L \subseteq Returns
      /\ \A x \in Returns : adjustments[x].quantity \in Nat /\ adjustments[x].amount \in Nat
  <2>1. LiveCredits(s) = L \union {r} /\ r \notin L /\ L \subseteq LiveCredits(s)
    BY <1>1 DEF LiveCredits
  <2> QED
    BY <2>1, CreditedFacts, FS_Subset
<1>3. CreditedQuantity(s)' = CreditedQuantity(s) - adjustments[r].quantity
  <2>1. PICK f : f = [x \in L |-> adjustments[x].quantity]
    OBVIOUS
  <2>2. PICK g : g = [x \in L \union {r} |-> adjustments[x].quantity]
    OBVIOUS
  <2>3. \A x \in L : f[x] \in Int /\ g[x] = f[x]
    BY <1>2, <2>1, <2>2
  <2>4. PICK n \in Nat : n = adjustments[r].quantity
    BY <1>2
  <2>5. g[r] = n /\ g[r] \in Int
    BY <2>2, <2>4
  <2>6. /\ SumFunctionOnSet(g, L \union {r}) = SumFunctionOnSet(f, L) + g[r]
        /\ SumFunctionOnSet(f, L) \in Int
    BY ONLY <1>2, <2>3, <2>5, SumExtend
  <2>7. PICK z \in Int : z = SumFunctionOnSet(f, L)
    BY <2>6
  <2>8. CreditedQuantity(s) = z + n
    BY <1>2, <2>2, <2>5, <2>6, <2>7 DEF CreditedQuantity
  <2>9. CreditedQuantity(s)' = z
    BY <1>1, <2>1, <2>7 DEF CreditedQuantity
  <2> QED
    BY <2>4, <2>7, <2>8, <2>9
<1>4. CreditedAmount(s)' = CreditedAmount(s) - adjustments[r].amount
  <2>1. PICK f : f = [x \in L |-> adjustments[x].amount]
    OBVIOUS
  <2>2. PICK g : g = [x \in L \union {r} |-> adjustments[x].amount]
    OBVIOUS
  <2>3. \A x \in L : f[x] \in Int /\ g[x] = f[x]
    BY <1>2, <2>1, <2>2
  <2>4. PICK n \in Nat : n = adjustments[r].amount
    BY <1>2
  <2>5. g[r] = n /\ g[r] \in Int
    BY <2>2, <2>4
  <2>6. /\ SumFunctionOnSet(g, L \union {r}) = SumFunctionOnSet(f, L) + g[r]
        /\ SumFunctionOnSet(f, L) \in Int
    BY ONLY <1>2, <2>3, <2>5, SumExtend
  <2>7. PICK z \in Int : z = SumFunctionOnSet(f, L)
    BY <2>6
  <2>8. CreditedAmount(s) = z + n
    BY <1>2, <2>2, <2>5, <2>6, <2>7 DEF CreditedAmount
  <2>9. CreditedAmount(s)' = z
    BY <1>1, <2>1, <2>7 DEF CreditedAmount
  <2> QED
    BY <2>4, <2>7, <2>8, <2>9
<1> QED
  BY <1>3, <1>4

\* Reversing a credit gives its sale back what it took.
LEMMA ReverseReturnCreditStep ==
  ASSUME RInv, NEW r \in Returns, ReverseReturnCredit(r)
  PROVE  RInv'
<1>1. PICK gone : gone = {row \in DOMAIN allocations : row.source = r}
  OBVIOUS
<1>2. /\ Live(r)
      /\ documents' = CreditReversed(documents, allocations, r)
      /\ allocations' = Restrict(allocations, DOMAIN allocations \ gone)
      /\ balance' = balance + documents[r].original
      /\ UNCHANGED <<delivered, issues, trip, attempted, returns, adjustments, refundOf, requests>>
  BY <1>1 DEF ReverseReturnCredit, RowsFrom, ActiveRows, BagToSet, CreditReversed, BackTo
<1>3. Agree(documents, allocations, balance) /\ documents \in [Documents -> DocumentRecords]
  BY DEF RInv, Agree
<1>4. /\ r \in Documents /\ r \in Credits /\ r \notin Sales /\ r \notin Payments
      /\ IsLive(documents[r])
  BY <1>2, DocumentSets, ReceivablesAssumption DEF ReceivablesAssumption, Live, IsLive
<1>5. /\ Agree(CreditReversed(documents, allocations, r),
               Restrict(allocations, DOMAIN allocations \ {row \in DOMAIN allocations : row.source = r}),
               balance + documents[r].original)
      /\ \A d \in Documents \ {r} :
           /\ CreditReversed(documents, allocations, r)[d].original = documents[d].original
           /\ IsLive(CreditReversed(documents, allocations, r)[d]) <=> IsLive(documents[d])
           /\ CreditReversed(documents, allocations, r)[d].status = "none" <=>
                documents[d].status = "none"
  BY <1>3, <1>4, AgreeReversesCredit
<1>6. Agree(documents', allocations', balance')
  BY <1>1, <1>2, <1>5
<1>7. Untouched(Documents \ {r})
  BY <1>2, <1>5 DEF Untouched
<1>8. Untouched(Sales) /\ Untouched(Payments) /\ Untouched(Returns \ {r})
  BY <1>4, <1>7, DocumentSets DEF Untouched
<1>9. documents'[r].status = "reversed"
  <2>1. documents[r] \in DocumentRecords
    BY <1>3, <1>4
  <2> QED
    BY <1>2, <1>4, <2>1 DEF CreditReversed, DocumentRecords
<1>10. ~Live(r)' /\ \A x \in Returns \ {r} : (Live(x)' <=> Live(x)) /\ (Exists(x)' <=> Exists(x))
  BY <1>8, <1>9 DEF Untouched, Live, Exists, IsLive
<1>11. SalesDelivered' /\ LineBilledOnce'
  BY <1>2, <1>8, BillingStays
<1>12. RequestsHold'
  BY <1>2, <1>8, RequestsStay
<1>13. ReturnsHold /\ CreditsWithinSales
  BY DEF RInv
<1>14. Exists(r)
  BY <1>2 DEF Live, Exists
<1>15. ReturnsHold'
  BY <1>2, <1>10, <1>13, <1>14 DEF ReturnsHold
<1>16. TablesTyped'
  BY <1>2 DEF RInv, TablesTyped
<1>17. CreditsWithinSales'
  <2> SUFFICES ASSUME NEW x \in Sales
               PROVE  /\ CreditedQuantity(x)' <= (IF Live(x)' THEN delivered'[x] ELSE 0)
                      /\ CreditedAmount(x)' <= documents'[x].original
                      /\ Live(x)' /\ CreditedQuantity(x)' = delivered'[x] =>
                           CreditedAmount(x)' = documents'[x].original
    BY DEF CreditsWithinSales
  <2>1. documents'[x].original = documents[x].original /\ (Live(x)' <=> Live(x))
    BY <1>8 DEF Untouched, Live, IsLive
  <2>2. /\ CreditedQuantity(x) <= (IF Live(x) THEN delivered[x] ELSE 0)
        /\ CreditedAmount(x) <= documents[x].original
        /\ Live(x) /\ CreditedQuantity(x) = delivered[x] =>
             CreditedAmount(x) = documents[x].original
    BY <1>13 DEF CreditsWithinSales
  <2>3. CASE returns[r].issue = x
    <3>1. LiveCredits(x)' = LiveCredits(x) \ {r}
      BY <1>2, <1>10, <2>3 DEF LiveCredits
    <3>2. /\ CreditedQuantity(x)' = CreditedQuantity(x) - adjustments[r].quantity
          /\ CreditedAmount(x)' = CreditedAmount(x) - adjustments[r].amount
      BY <1>2, <2>3, <3>1, CreditRemoved
    <3>3. PICK cq \in Nat, ca \in Nat, q \in Nat, a \in Nat, g \in Nat, o \in Nat :
            /\ cq = CreditedQuantity(x) /\ ca = CreditedAmount(x)
            /\ q = adjustments[r].quantity /\ a = adjustments[r].amount
            /\ g = delivered[x] /\ o = documents[x].original
      BY CreditedFacts, BilledFacts
    <3>4. q >= 1
      BY <1>2, <1>13, <3>3 DEF ReturnsHold
    <3>5. /\ cq <= (IF Live(x) THEN g ELSE 0) /\ ca <= o
      BY <2>2, <3>3
    <3>6. /\ cq - q <= (IF Live(x) THEN g ELSE 0) /\ ca - a <= o
          /\ Live(x) => cq - q # g
      BY ONLY <3>4, <3>5, cq \in Nat, ca \in Nat, q \in Nat, a \in Nat, g \in Nat, o \in Nat
    <3> QED
      BY <1>2, <2>1, <3>2, <3>3, <3>6
  <2>4. CASE returns[r].issue # x
    <3>1. LiveCredits(x)' = LiveCredits(x)
      BY <1>2, <1>10, <2>4 DEF LiveCredits
    <3>2. CreditedQuantity(x)' = CreditedQuantity(x) /\ CreditedAmount(x)' = CreditedAmount(x)
      BY <1>2, <3>1 DEF CreditedQuantity, CreditedAmount
    <3> QED
      BY <1>2, <2>1, <2>2, <3>2
  <2> QED
    BY <2>3, <2>4
<1> QED
  BY <1>6, <1>11, <1>12, <1>15, <1>16, <1>17 DEF RInv

-----------------------------------------------------------------------------
(* Money paid back.                                                        *)

\* What a refund of one document leaves in place.
LEMMA RefundStays ==
  ASSUME RInv, NEW f \in Refunds, Untouched(Documents \ {f}),
         UNCHANGED <<delivered, returns, adjustments, requests>>
  PROVE  /\ SalesDelivered' /\ CreditsWithinSales' /\ LineBilledOnce'
         /\ ReturnsHold' /\ RequestsHold'
<1>1. f \notin Sales /\ f \notin Returns /\ f \notin Payments
  BY DocumentSets, ReceivablesAssumption DEF ReceivablesAssumption
<1>2. Untouched(Sales) /\ Untouched(Returns) /\ Untouched(Payments)
  BY <1>1, DocumentSets DEF Untouched
<1> QED
  BY <1>2, SalesStay, ReturnsStay, RequestsStay

\* A refund is posted and takes all of itself from its source.
LEMMA CreateRefundStep ==
  ASSUME RInv, NEW f \in Refunds, NEW source \in Credits, NEW amount \in Amounts,
         CreateRefund(f, source, amount)
  PROVE  RInv'
<1>1. PICK docs : docs = [documents EXCEPT ![f] = Posted(amount)]
  OBVIOUS
<1>2. PICK items : items = [x \in {f} |-> amount]
  OBVIOUS
<1>3. /\ documents[f].status = "none" /\ IsLive(documents[source])
      /\ amount <= documents[source].original - documents[source].allocated
      /\ documents' = Applied(docs, source, items)
      /\ allocations' = allocations (+) SetToBag(ItemRows(source, items))
      /\ refundOf' = [refundOf EXCEPT ![f] = source]
      /\ balance' = balance + amount
      /\ UNCHANGED <<delivered, issues, trip, attempted, returns, adjustments, requests>>
  BY <1>1, <1>2 DEF CreateRefund, Exists, Open, Live, IsLive, Remaining, WithRows, ItemRows, ItemRow
<1>4. Agree(documents, allocations, balance) /\ documents \in [Documents -> DocumentRecords]
  BY DEF RInv, Agree
<1>5. /\ f \in Documents /\ f \in Debits /\ source \in Documents /\ source # f
      /\ amount \in 1..MaxAmount /\ amount \in 0..MaxAmount /\ amount \in Nat
  BY DocumentSets, ReceivablesAssumption DEF ReceivablesAssumption
<1>6. Agree(docs, allocations, balance + amount)
  <2>1. Agree([documents EXCEPT ![f] = Posted(amount)], allocations,
              IF f \in Debits THEN balance + amount ELSE balance - amount)
    BY <1>3, <1>4, <1>5, AgreePosts
  <2> QED
    BY <1>1, <1>5, <2>1
<1>7. docs[f] = Posted(amount) /\ \A d \in Documents \ {f} : docs[d] = documents[d]
  BY <1>1, <1>4, <1>5
<1>8. IsItems(items) /\ DOMAIN items = {f} /\ items[f] = amount
  BY <1>2, <1>5 DEF IsItems
<1>9. Sum(items, DOMAIN items) = amount
  <2>1. Sum(items, DOMAIN items) = SumFunctionOnSet(items, {f})
    BY <1>8, ItemFacts
  <2>2. items[f] \in Int
    BY <1>5, <1>8
  <2>3. SumFunctionOnSet(items, {f}) = items[f]
    BY ONLY <2>2, SumSingle
  <2> QED
    BY <1>8, <2>1, <2>3
<1>10. HasRoom(docs, source, items)
  <2>1. docs[source] = documents[source]
    BY <1>5, <1>7
  <2>2. IsLive(docs[f]) /\ docs[f].original = amount /\ docs[f].allocated = 0
    BY <1>7 DEF Posted, IsLive
  <2> QED
    BY <1>3, <1>5, <1>8, <1>9, <2>1, <2>2 DEF HasRoom
<1>11. Agree(documents', allocations', balance') /\ SameFace(docs, documents')
  BY <1>3, <1>6, <1>8, <1>10, AgreeApplies
<1>12. Untouched(Documents \ {f})
  BY <1>7, <1>11 DEF Untouched, SameFace
<1>13. /\ SalesDelivered' /\ CreditsWithinSales' /\ LineBilledOnce'
       /\ ReturnsHold' /\ RequestsHold'
  BY <1>3, <1>12, RefundStays
<1>14. TablesTyped'
  BY <1>3 DEF RInv, TablesTyped
<1> QED
  BY <1>11, <1>13, <1>14 DEF RInv

\* The one row of a refund is all of it: taking it back leaves nothing
\* allocated of the refund, which can be reversed.
LEMMA ReverseRefundStep ==
  ASSUME RInv, NEW f \in Refunds, ReverseRefund(f)
  PROVE  RInv'
<1>1. PICK row \in DOMAIN allocations :
        /\ row.target = f
        /\ documents' = [Unapplied(documents, row) EXCEPT ![f] = Reversed(@)]
        /\ allocations' = allocations (-) SetToBag({row})
  BY DEF ReverseRefund, ActiveRows, BagToSet
<1>2. /\ IsLive(documents[f]) /\ balance' = balance - documents[f].original
      /\ UNCHANGED <<delivered, issues, trip, attempted, returns, adjustments, refundOf, requests>>
  BY DEF ReverseRefund, Live, IsLive
<1>3. PICK mid : mid = Unapplied(documents, row)
  OBVIOUS
<1>4. PICK less : less = allocations (-) SetToBag({row})
  OBVIOUS
<1>5. /\ Agree(documents, allocations, balance) /\ documents \in [Documents -> DocumentRecords]
      /\ RowsAreKept(allocations) /\ RowsTouchLive(documents, allocations)
      /\ \A d \in Documents : Whole(documents[d]) /\ documents[d].allocated = AllocatedIn(allocations, d)
  BY DEF RInv, Agree
<1>6. f \in Documents /\ f \in Debits
  BY DocumentSets
<1>7. /\ Agree(mid, less, balance) /\ SameFace(documents, mid)
      /\ mid[f].allocated = documents[f].allocated - row.amount
  BY <1>1, <1>3, <1>4, <1>5, AgreeUnapplies
<1>8. PICK o \in Nat, a \in Nat : o = documents[f].original /\ a = documents[f].allocated
  BY <1>5, <1>6, DocumentFacts
<1>9. a = o /\ row.amount = o
  <2>1. row.amount = o
    BY <1>1, <1>5, <1>8 DEF RowsTouchLive, BagToSet
  <2>2. a <= o
    BY <1>5, <1>6, <1>8 DEF Whole
  <2>3. PICK n \in Nat : n = allocations[row] * row.amount /\ row.amount <= n
    BY <1>5, RowFacts
  <2>4. n <= a
    <3>1. Touches(row, f)
      BY <1>1 DEF Touches
    <3>2. allocations[row] * row.amount <= AllocatedIn(allocations, f)
      BY <1>5, <3>1, RowWithinAllocated
    <3> QED
      BY <1>5, <1>6, <1>8, <2>3, <3>2
  <2> QED
    BY <2>1, <2>2, <2>3, <2>4
<1>10. mid[f].allocated = 0 /\ IsLive(mid[f]) /\ mid[f].original = o
  BY <1>2, <1>6, <1>7, <1>8, <1>9 DEF SameFace
<1>11. Agree(documents', allocations', balance')
  <2>1. Agree([mid EXCEPT ![f] = Reversed(@)], less,
              IF f \in Debits THEN balance - mid[f].original ELSE balance + mid[f].original)
    BY <1>6, <1>7, <1>10, AgreeReverses
  <2> QED
    BY <1>1, <1>2, <1>3, <1>4, <1>6, <1>8, <1>10, <2>1
<1>12. Untouched(Documents \ {f})
  <2>1. mid \in [Documents -> DocumentRecords]
    BY <1>7 DEF Agree
  <2>2. \A d \in Documents \ {f} : documents'[d] = mid[d]
    BY <1>1, <1>3, <2>1
  <2> QED
    BY <1>7, <2>2 DEF Untouched, SameFace
<1>13. /\ SalesDelivered' /\ CreditsWithinSales' /\ LineBilledOnce'
       /\ ReturnsHold' /\ RequestsHold'
  BY <1>2, <1>12, RefundStays
<1>14. TablesTyped'
  BY <1>2 DEF RInv, TablesTyped
<1> QED
  BY <1>11, <1>13, <1>14 DEF RInv

-----------------------------------------------------------------------------
(* The theorems.                                                           *)

\* An account without documents agrees with itself.
LEMMA RInvInit == Init => RInv
<1> SUFFICES ASSUME Init PROVE RInv
  OBVIOUS
<1>1. \A d \in Documents : documents[d] = NoDocument
  BY DEF Init
<1>2. MaxAmount \in Nat /\ LineQuantity \in Nat \ {0}
  BY ReceivablesAssumption DEF ReceivablesAssumption
<1>3. TablesTyped
  BY <1>2 DEF Init, TablesTyped, NoReturn, NoAdjustment
<1>4. \A d \in Documents : ~Exists(d) /\ ~Live(d) /\ ~IsLive(documents[d])
  BY <1>1 DEF Exists, Live, IsLive, NoDocument
<1>5. RowsAreKept(allocations) /\ DOMAIN allocations = {}
  <2>1. DOMAIN allocations = {} /\ allocations = [x \in {} |-> 1]
    BY DEF Init, EmptyBag, SetToBag
  <2> QED
    BY <2>1, FS_EmptySet DEF RowsAreKept, BagToSet, IsABag
<1>6. Agree(documents, allocations, balance)
  <2>1. documents \in [Documents -> DocumentRecords]
    <3>1. NoDocument \in DocumentRecords
      BY <1>2 DEF NoDocument, DocumentRecords, Statuses
    <3> QED
      BY <3>1 DEF Init
  <2>2. \A d \in Documents : Whole(documents[d]) /\ documents[d].allocated = 0
    BY <1>1 DEF Whole, NoDocument, IsLive
  <2>3. RowsTouchLive(documents, allocations)
    BY <1>5 DEF RowsTouchLive, BagToSet
  <2>4. \A d \in Documents : AllocatedIn(allocations, d) = 0
    BY <1>5, NoRowsNothingAllocated
  <2>5. ASSUME NEW S, S \subseteq Documents, IsFiniteSet(S) PROVE Face(documents, S) = 0
    <3>1. PICK g : g = [d \in S |-> LiveAmount(documents[d])]
      OBVIOUS
    <3>2. {} \subseteq S /\ (\A d \in S : g[d] \in Int) /\ \A d \in S \ {} : g[d] = 0
      BY <1>4, <2>5, <3>1 DEF LiveAmount
    <3>3. SumFunctionOnSet(g, S) = SumFunctionOnSet(g, {})
      BY ONLY <2>5, <3>2, SumSupport
    <3> QED
      BY <3>1, <3>3, SumEmpty DEF Face
  <2>6. Face(documents, Debits) = 0 /\ Face(documents, Credits) = 0 /\ balance = 0
    BY <2>5, DocumentSets DEF Init
  <2> QED
    BY <1>5, <2>1, <2>2, <2>3, <2>4, <2>6 DEF Agree
<1>7. RequestsHold
  BY DEF RequestsHold, Init
<1>8. ReturnsHold
  <2>1. \A r \in Returns : returns[r].status = "none"
    BY DEF Init, NoReturn
  <2> QED
    BY <1>4, <2>1, DocumentSets DEF ReturnsHold
<1>9. SalesDelivered
  BY <1>4, DocumentSets DEF SalesDelivered
<1>10. CreditsWithinSales
  <2> SUFFICES ASSUME NEW s \in Sales
               PROVE  /\ CreditedQuantity(s) <= (IF Live(s) THEN delivered[s] ELSE 0)
                      /\ CreditedAmount(s) <= documents[s].original
                      /\ Live(s) /\ CreditedQuantity(s) = delivered[s] =>
                           CreditedAmount(s) = documents[s].original
    BY DEF CreditsWithinSales
  <2>1. LiveCredits(s) = {}
    BY <1>4, DocumentSets DEF LiveCredits
  <2>2. CreditedQuantity(s) = 0 /\ CreditedAmount(s) = 0
    BY <2>1, SumEmpty DEF CreditedQuantity, CreditedAmount
  <2>3. ~Live(s) /\ documents[s].original = 0
    BY <1>1, <1>4, DocumentSets DEF NoDocument
  <2> QED
    BY <2>2, <2>3
<1>11. LineBilledOnce
  <2>1. LiveSales = {}
    BY <1>4, DocumentSets DEF LiveSales
  <2>2. BilledQuantity = 0
    BY <2>1, SumEmpty DEF BilledQuantity, Sum
  <2> QED
    BY <1>2, <2>2 DEF LineBilledOnce
<1> QED
  BY <1>3, <1>6, <1>7, <1>8, <1>9, <1>10, <1>11 DEF RInv

\* Every step keeps the invariant of the account.
LEMMA RInvNext == RInv /\ [Next]_vars => RInv'
<1> SUFFICES ASSUME RInv, [Next]_vars PROVE RInv'
  OBVIOUS
<1>1. CASE UNCHANGED vars
  <2>1. /\ UNCHANGED <<documents, delivered, allocations, balance, issues, trip, attempted, returns,
                       adjustments, refundOf, requests>>
    BY <1>1 DEF vars
  <2>2. Untouched(Returns) /\ Untouched(Payments)
    BY <2>1 DEF Untouched
  <2>3. SalesDelivered' /\ CreditsWithinSales' /\ LineBilledOnce'
    BY <2>1, AllStays
  <2>4. ReturnsHold' /\ RequestsHold'
    BY <2>1, <2>2, ReturnsStay, RequestsStay
  <2>5. TablesTyped' /\ Agree(documents', allocations', balance')
    BY <2>1 DEF RInv, TablesTyped
  <2> QED
    BY <2>3, <2>4, <2>5 DEF RInv
<1>2. ASSUME NEW s \in Deliveries, NEW quantity \in 0..LineQuantity, RecordDelivery(s, quantity)
      PROVE  RInv'
  BY <1>2, RecordDeliveryStep
<1>3. CASE CloseTrip \/ RecoverTrip
  BY <1>3, TripStep
<1>4. ASSUME NEW i \in Handovers, HandOver(i) PROVE RInv'
  BY <1>4, HandOverStep
<1>5. ASSUME NEW i \in Sales, ReverseIssue(i) PROVE RInv'
  BY <1>5, ReverseIssueStep
<1>6. ASSUME NEW p \in Payments, NEW amount \in Paid, CreatePayment(p, amount) PROVE RInv'
  BY <1>6, CreatePaymentStep
<1>7. ASSUME NEW c \in Clerks, NEW p \in Payments, NEW amount \in Paid, NEW items \in Items,
             BeginPayment(c, p, amount, items)
      PROVE  RInv'
  <2>1. amount # 0 /\ amount \in {0} \union Paid
    BY ReceivablesAssumption DEF ReceivablesAssumption
  <2>2. /\ ~Exists(p) /\ \A b \in Clerks : requests[b] # None => requests[b].payment # p
        /\ requests' = [requests EXCEPT ![c] = [payment |-> p, posting |-> amount, items |-> items]]
        /\ UNCHANGED <<documents, delivered, allocations, balance, issues, trip, attempted, returns,
                       adjustments, refundOf>>
    BY <1>7 DEF BeginPayment
  <2> QED
    BY <2>1, <2>2, BeginStep
<1>8. ASSUME NEW c \in Clerks, NEW p \in Payments, NEW items \in Items, BeginAllocation(c, p, items)
      PROVE  RInv'
  <2>1. /\ Exists(p)
        /\ requests' = [requests EXCEPT ![c] = [payment |-> p, posting |-> 0, items |-> items]]
        /\ UNCHANGED <<documents, delivered, allocations, balance, issues, trip, attempted, returns,
                       adjustments, refundOf>>
    BY <1>8 DEF BeginAllocation, Live, Exists
  <2> QED
    BY <2>1, BeginStep
<1>9. ASSUME NEW c \in Clerks, FinishAllocation(c) PROVE RInv'
  BY <1>9, FinishAllocationStep
<1>10. ASSUME NEW row \in ActiveRows, ReverseAllocation(row) PROVE RInv'
  BY <1>10, ReverseAllocationStep
<1>11. ASSUME NEW p \in Payments, ReversePayment(p) PROVE RInv'
  BY <1>11, ReversePaymentStep
<1>12. ASSUME NEW r \in Returns, NEW i \in Sales, NEW quantity \in 1..LineQuantity,
              CreateReturn(r, i, quantity)
       PROVE  RInv'
  BY <1>12, CreateReturnStep
<1>13. ASSUME NEW r \in Returns, CancelReturn(r) PROVE RInv'
  BY <1>13, CancelReturnStep
<1>14. ASSUME NEW r \in Returns, NEW accepted \in 1..LineQuantity, ReceiveReturn(r, accepted)
       PROVE  RInv'
  BY <1>14, ReceiveReturnStep
<1>15. ASSUME NEW r \in Returns, NEW items \in Items, AllocateReturnCredit(r, items) PROVE RInv'
  BY <1>15, AllocateReturnCreditStep
<1>16. ASSUME NEW r \in Returns, ReverseReturnCredit(r) PROVE RInv'
  BY <1>16, ReverseReturnCreditStep
<1>17. ASSUME NEW f \in Refunds, NEW source \in Credits, NEW amount \in Amounts,
              CreateRefund(f, source, amount)
       PROVE  RInv'
  BY <1>17, CreateRefundStep
<1>18. ASSUME NEW f \in Refunds, ReverseRefund(f) PROVE RInv'
  BY <1>18, ReverseRefundStep
<1> QED
  BY <1>1, <1>2, <1>3, <1>4, <1>5, <1>6, <1>7, <1>8, <1>9, <1>10, <1>11, <1>12, <1>13, <1>14, <1>15,
     <1>16, <1>17, <1>18 DEF Next

\* The account agrees with itself after any history of deliveries, payments,
\* returns and refunds.
THEOREM AccountInvariant == Spec => []RInv
BY RInvInit, RInvNext, PTL DEF Spec

\* Every document has a status that follows from its amounts.
THEOREM ReceivablesTypeCorrect == Spec => []TypeOK
BY AccountInvariant, RInvSays, PTL

\* The rows of receivable_allocations say of a document what it says of
\* itself, and touch no reversed document, however requests race.
THEOREM RowsMatchDocuments == Spec => []AllocationsMatch
BY AccountInvariant, RInvSays, PTL

\* The balance the ledger entries built up is what the documents add up to.
THEOREM LedgerReconciles == Spec => []BalanceReconciles
BY AccountInvariant, RInvSays, PTL

\* Return credits stay within their sale, and a sale that came back whole is
\* credited whole.
THEOREM CreditsStayWithinSales == Spec => []CreditsWithinSales
BY AccountInvariant, RInvSays, PTL

\* The order line is billed once.
THEOREM LineIsBilledOnce == Spec => []LineBilledOnce
BY AccountInvariant, RInvSays, PTL
=============================================================================
