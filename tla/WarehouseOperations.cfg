\* A transfer, a stocktake, a purchase order and a direct sale that share their scopes.
SPECIFICATION Spec
CONSTANTS
  a = a
  b = b
  Locations = {a, b}
  Postings <- MCPostings
  OtherPostings <- MCOtherPostings
  Quantities = {1}
  MaxMovements = 5
  MaxReservations = 1
  Source = a
  Destination = b
  TransferQuantities = {2}
  MaxTransfers = 1
  MaxTransferReceipts = 2
  CountedScopes = {b}
  CountedQuantities = {0, 2}
  MaxStocktakes = 1
  MaxRounds = 2
  OrderLines = {b}
  Ordered <- MCOrdered
  PaymentAmounts = {2}
  MaxGoodsReceipts = 2
  MaxSupplierReturns = 1
  MaxPayments = 1
  DirectScope = a
  DirectQuantities = {2}
  MaxDirectOrders = 1
  MaxDirectVersions = 2
  MaxManualReturns = 2
  MaxDocuments = 4
  MaxSharedMovements = 4
INVARIANTS TypeOK TransitAddsUp PurchaseAddsUp ReturnsAreCovered PayablesAreCovered DirectSalesAddUp
PROPERTIES CountIsCurrent ImplementsLedger
CHECK_DEADLOCK FALSE
