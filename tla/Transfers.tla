----------------------------- MODULE Transfers -----------------------------
(***************************************************************************)
(* Transfers between warehouses (services/inventory-transfer.js and        *)
(* inventory-transfer-receipt.js).  A transfer leaves its source when it   *)
(* is dispatched and is in transit until receipts bring it in, as good or  *)
(* damaged stock, or until what is missing is closed short.  Every         *)
(* operation locks the row of the transfer and tests its revision first,   *)
(* so it is one step.  A transfer has one line here.                       *)
(***************************************************************************)
EXTENDS DocumentStock

CONSTANTS Source, Destination,    \* the scope stock leaves and the one it enters
          TransferQuantities,
          MaxTransfers,           \* bound: transfers ever made
          MaxTransferReceipts     \* bound: receipts ever made

ASSUME TransfersAssumption ==
  /\ Source \in Locations /\ Destination \in Locations /\ Source # Destination
  /\ TransferQuantities \subseteq Nat \ {0}

VARIABLES
  transfers,          \* inventory_transfers with their line
  transferReceipts,   \* inventory_transfer_receipts and their reversals
  shortages           \* the quantity closed short of each transfer, 0 when open

transferVars == <<transfers, transferReceipts, shortages>>

TransfersInit ==
  /\ transfers = <<>>
  /\ transferReceipts = <<>>
  /\ shortages = <<>>

TransferRows == [status : {"draft", "approved", "dispatched", "cancelled"},
                 quantity : TransferQuantities, movement : Nat]
TransferReceiptRows == [of : Nat, accepted : Nat, damaged : Nat, movement : Nat,
                        damageApproved : BOOLEAN, reversed : BOOLEAN]

-----------------------------------------------------------------------------
(* The view inventory_transfer_line_resolution.                            *)

StandingReceipts(t) ==
  {r \in DOMAIN transferReceipts :
     transferReceipts[r].of = t /\ ~transferReceipts[r].reversed}
Accepted(t) ==
  SumFunctionOnSet([r \in StandingReceipts(t) |-> transferReceipts[r].accepted],
                   StandingReceipts(t))
Damaged(t) ==
  SumFunctionOnSet([r \in StandingReceipts(t) |-> transferReceipts[r].damaged],
                   StandingReceipts(t))
InTransit(t) ==
  Max({transfers[t].quantity - Accepted(t) - Damaged(t) - shortages[t], 0})

Dispatched(t) == t \in DOMAIN transfers /\ transfers[t].status = "dispatched"
ClosedShort(t) == shortages[t] # 0

-----------------------------------------------------------------------------
\* createInventoryTransfer; updateInventoryTransfer only writes a draft anew.
CreateTransfer(quantity) ==
  /\ Len(transfers) < MaxTransfers
  /\ transfers' = Append(transfers, [status |-> "draft", quantity |-> quantity, movement |-> 0])
  /\ shortages' = Append(shortages, 0)
  /\ UNCHANGED <<transferReceipts, stockVars>>

\* approveInventoryTransfer
ApproveTransfer(t) ==
  /\ transfers[t].status = "draft"
  /\ transfers' = [transfers EXCEPT ![t].status = "approved"]
  /\ UNCHANGED <<transferReceipts, shortages, stockVars>>

\* cancelInventoryTransfer
CancelTransfer(t) ==
  /\ transfers[t].status \in {"draft", "approved"}
  /\ transfers' = [transfers EXCEPT ![t].status = "cancelled"]
  /\ UNCHANGED <<transferReceipts, shortages, stockVars>>

\* dispatchInventoryTransfer posts the OUT line.
DispatchTransfer(t) ==
  /\ transfers[t].status = "approved"
  /\ PostMovement(OneLine(Source, -transfers[t].quantity))
  /\ transfers' = [transfers EXCEPT ![t].status = "dispatched", ![t].movement = NextMovement]
  /\ UNCHANGED <<transferReceipts, shortages>>

\* normalizeReceiptPayload.  Goods beyond the transfer are only noted, so a
\* receipt may accept nothing.
FitsInTransit(t, accepted, damaged) == accepted + damaged <= InTransit(t)

\* createTransferReceipt; only accepted stock is posted.
ReceiveTransfer(t, accepted, damaged) ==
  /\ Dispatched(t)
  /\ FitsInTransit(t, accepted, damaged)
  /\ ~ClosedShort(t)
  /\ Len(transferReceipts) < MaxTransferReceipts
  /\ IF accepted > 0 THEN PostMovement(OneLine(Destination, accepted)) ELSE UNCHANGED stockVars
  /\ transferReceipts' =
       Append(transferReceipts,
              [of |-> t, accepted |-> accepted, damaged |-> damaged,
               movement |-> IF accepted > 0 THEN NextMovement ELSE 0,
               damageApproved |-> FALSE, reversed |-> FALSE])
  /\ UNCHANGED <<transfers, shortages>>

\* approveTransferReceiptDamage
ApproveDamage(r) ==
  /\ ~transferReceipts[r].reversed
  /\ transferReceipts[r].damaged > 0
  /\ ~transferReceipts[r].damageApproved
  /\ transferReceipts' = [transferReceipts EXCEPT ![r].damageApproved = TRUE]
  /\ UNCHANGED <<transfers, shortages, stockVars>>

\* closeTransferShortage
CloseShortage(t) ==
  /\ Dispatched(t)
  /\ ~ClosedShort(t)
  /\ InTransit(t) > 0
  /\ shortages' = [shortages EXCEPT ![t] = InTransit(t)]
  /\ UNCHANGED <<transfers, transferReceipts, stockVars>>

\* MUTANT: a receipt may be reversed after the shortage was closed.
ReceiptMayBeReversed(r) == ~transferReceipts[r].reversed

\* The guards of reverseTransferReceipt.  Its test for a later OUT movement
\* compares request times and runs before the scope is locked: it may miss one,
\* so it forbids nothing here.
ReceiptIsReversible(r) ==
  /\ ~transferReceipts[r].reversed
  /\ ~ClosedShort(transferReceipts[r].of)

\* reverseTransferReceipt
ReverseTransferReceipt(r) ==
  /\ ReceiptIsReversible(r)
  /\ IF transferReceipts[r].movement # 0 THEN ReverseMovement(transferReceipts[r].movement)
     ELSE UNCHANGED stockVars
  /\ transferReceipts' = [transferReceipts EXCEPT ![r].reversed = TRUE]
  /\ UNCHANGED <<transfers, shortages>>

TransfersNext ==
  \/ \E quantity \in TransferQuantities : CreateTransfer(quantity)
  \/ \E t \in DOMAIN transfers :
       \/ ApproveTransfer(t)
       \/ CancelTransfer(t)
       \/ DispatchTransfer(t)
       \/ CloseShortage(t)
       \/ \E accepted, damaged \in 0..transfers[t].quantity :
            ReceiveTransfer(t, accepted, damaged)
  \/ \E r \in DOMAIN transferReceipts : ApproveDamage(r) \/ ReverseTransferReceipt(r)

-----------------------------------------------------------------------------
TransfersTypeOK ==
  /\ transfers \in Seq(TransferRows)
  /\ transferReceipts \in Seq(TransferReceiptRows)
  /\ shortages \in Seq(Nat)
  /\ Len(shortages) = Len(transfers)

\* The movements of a transfer: its dispatch and its receipts.
MovementsOf(t) ==
  {transfers[t].movement} \union
  {transferReceipts[r].movement :
     r \in {s \in DOMAIN transferReceipts : transferReceipts[s].of = t}}

\* What the ledger took out of the source for a transfer is in the destination,
\* damaged, short or in transit, and each of it once, in whatever order its
\* receipts, their reversals and the closing of the shortage were made.  What
\* was closed short is never in transit again.
TransitAddsUp ==
  \A t \in DOMAIN transfers : Dispatched(t) =>
    LET posted == MovementsOf(t) \ {0} IN
    /\ -NetOf(posted, Source) = transfers[t].quantity
    /\ NetOf(posted, Destination) + Damaged(t) + shortages[t] + InTransit(t)
         = transfers[t].quantity
    /\ ClosedShort(t) => InTransit(t) = 0
=============================================================================
