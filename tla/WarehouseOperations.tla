------------------------ MODULE WarehouseOperations ------------------------
(***************************************************************************)
(* Transfers, stocktakes, purchasing, direct sales and reservations on the *)
(* same stock: what each of them has read may be moved by the others       *)
(* before it posts.                                                        *)
(***************************************************************************)
EXTENDS Transfers, Stocktake, Purchasing, DirectSales

CONSTANTS MaxDocuments,       \* bound: documents, reservations and issues ever made, the purchase
                              \* order included once it leaves draft; returns by hand not
          MaxSharedMovements  \* bound: movements once a document other than a direct order is there

vars == <<stockVars, transferVars, stocktakes, purchasingVars, directVars>>

Init == StockInit /\ TransfersInit /\ StocktakesInit /\ PurchasingInit /\ DirectSalesInit

OtherDocuments ==
  Len(reservations) + Len(transfers) + Len(transferReceipts) + Len(stocktakes)
    + Len(goodsReceipts) + Len(supplierReturns) + Len(payments)
    + (IF orderStatus = "draft" THEN 0 ELSE 1)
Documents == OtherDocuments + Len(directOrders) + Len(directIssues)
WithinBound ==
  /\ Documents' <= MaxDocuments
  /\ OtherDocuments' > 0 => Len(movements') <= MaxSharedMovements

Next ==
  \/ StockNext /\ UNCHANGED <<transferVars, stocktakes, purchasingVars, directVars>> /\ WithinBound
  \/ TransfersNext /\ UNCHANGED <<stocktakes, purchasingVars, directVars>> /\ WithinBound
  \/ StocktakesNext /\ UNCHANGED <<transferVars, purchasingVars, directVars>> /\ WithinBound
  \/ PurchasingNext /\ UNCHANGED <<transferVars, stocktakes, directVars>> /\ WithinBound
  \/ DirectSalesNext /\ UNCHANGED <<transferVars, stocktakes, purchasingVars>> /\ WithinBound

Spec == Init /\ [][Next]_vars

-----------------------------------------------------------------------------
\* The tables of every component hold whole rows, on a ledger that does too.
TypeOK ==
  /\ Stock!TypeOK
  /\ TransfersTypeOK
  /\ StocktakesTypeOK
  /\ PurchasingTypeOK
  /\ DirectSalesTypeOK

\* To the ledger every document is one of its postings or reversals and nothing
\* else, so what is proved of the ledger holds under all of them.
ImplementsLedger == Stock!Spec
=============================================================================
