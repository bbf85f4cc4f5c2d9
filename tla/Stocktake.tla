----------------------------- MODULE Stocktake -----------------------------
(***************************************************************************)
(* Stocktakes (services/inventory-stocktake.js).  A round notes the        *)
(* quantity and the version of every scope it counts; the count may be     *)
(* submitted, approved and posted only while the versions stand, and a     *)
(* posted count may be reversed only while nothing has moved since.  Every *)
(* operation locks the row of the stocktake; posting and reversing hold    *)
(* the advisory locks of the scopes before they read the versions.  Who    *)
(* submits and who approves is left out.                                   *)
(***************************************************************************)
EXTENDS DocumentStock

CONSTANTS CountedScopes,      \* the scopes a stocktake counts
          CountedQuantities,  \* what may be found there
          MaxStocktakes,      \* bound: stocktakes ever made
          MaxRounds           \* bound: rounds of a stocktake

ASSUME StocktakeAssumption ==
  /\ CountedScopes \subseteq Locations
  /\ CountedQuantities \subseteq Nat
  /\ MaxRounds \in Nat \ {0}

VARIABLE stocktakes   \* stocktakes with the lines of their current round

StocktakesInit == stocktakes = <<>>

Counts == [CountedScopes -> CountedQuantities]
Uncounted == [l \in CountedScopes |-> 0]

StocktakeRows ==
  [status : {"draft", "counted", "submitted", "approved", "posted", "reversed",
             "cancelled", "recount_required"},
   round : 1..MaxRounds,
   expected : [CountedScopes -> Nat],        \* expected_base_quantity
   version : [CountedScopes -> Nat],         \* snapshot_scope_version
   counted : [CountedScopes -> Nat],
   postedVersion : [CountedScopes -> Nat],
   movement : Nat]

-----------------------------------------------------------------------------
\* loadScopeSnapshots: quantities and versions in one statement.
Quantity == [l \in CountedScopes |-> onHand[l]]
Versions == [l \in CountedScopes |-> Version(l)]

\* verifyWatermarks
NothingMoved(s) == stocktakes[s].version = Versions

Move(s, from, to) ==
  /\ stocktakes[s].status \in from
  /\ stocktakes' = [stocktakes EXCEPT ![s].status = to]

\* createStocktake; copyStocktake makes another one of the same scopes.
CreateStocktake ==
  /\ Len(stocktakes) < MaxStocktakes
  /\ stocktakes' =
       Append(stocktakes,
              [status |-> "draft", round |-> 1, expected |-> Quantity, version |-> Versions,
               counted |-> Uncounted, postedVersion |-> Uncounted, movement |-> 0])
  /\ UNCHANGED stockVars

\* countStocktake
CountStocktake(s, counts) ==
  /\ stocktakes[s].status \in {"draft", "recount_required"}
  /\ stocktakes' = [stocktakes EXCEPT ![s].status = "counted", ![s].counted = counts]
  /\ UNCHANGED stockVars

\* submitStocktake
SubmitStocktake(s) ==
  /\ NothingMoved(s)
  /\ Move(s, {"counted"}, "submitted")
  /\ UNCHANGED stockVars

\* requestRecount starts a round with a new snapshot.
RequestRecount(s) ==
  /\ stocktakes[s].status \in {"counted", "submitted", "approved"}
  /\ stocktakes[s].round < MaxRounds
  /\ stocktakes' = [stocktakes EXCEPT ![s] =
       [stocktakes[s] EXCEPT !.status = "recount_required", !.round = @ + 1,
          !.expected = Quantity, !.version = Versions, !.counted = Uncounted]]
  /\ UNCHANGED stockVars

\* approveStocktake
ApproveStocktake(s) ==
  /\ NothingMoved(s)
  /\ Move(s, {"submitted"}, "approved")
  /\ UNCHANGED stockVars

\* cancelStocktake
CancelStocktake(s) ==
  /\ Move(s, {"draft", "counted", "recount_required"}, "cancelled")
  /\ UNCHANGED stockVars

\* The lines of an adjustment that brings every scope from one count to another.
Adjustment(from, to) ==
  [l \in Locations |-> IF l \in CountedScopes THEN to[l] - from[l] ELSE 0]

\* insertAdjustmentMovement: scopes without a difference get no line, and when
\* no scope has one there is no movement.  It refuses what would cut into
\* reserved stock, which is the guard of the ledger.  A movement that is already
\* there under the key of the request would be taken for the adjustment; that
\* path is left out, as a retry finds the status changed before it comes here,
\* and the keys of two requests differ.
PostAdjustment(delta, reversalOf) ==
  IF \A l \in Locations : delta[l] = 0 THEN UNCHANGED stockVars
  ELSE Stock!PostLines(delta, reversalOf)

Posted(s) ==
  LET delta == Adjustment(Quantity, stocktakes[s].counted)
      moves(l) == IF delta[l] # 0 THEN 1 ELSE 0
      quiet == \A l \in Locations : delta[l] = 0
  IN [stocktakes[s] EXCEPT
        !.status = "posted",
        !.postedVersion = [l \in CountedScopes |-> Version(l) + moves(l)],
        !.movement = IF quiet THEN 0 ELSE NextMovement]

\* MUTANT: the versions were verified when the count was approved.
PostApproved(s) ==
  /\ stocktakes[s].status = "approved"
  /\ PostAdjustment(Adjustment(Quantity, stocktakes[s].counted), 0)
  /\ stocktakes' = [stocktakes EXCEPT ![s] = Posted(s)]

\* postStocktake
PostStocktake(s) ==
  /\ stocktakes[s].status = "approved"
  /\ NothingMoved(s)
  /\ PostAdjustment(Adjustment(Quantity, stocktakes[s].counted), 0)
  /\ stocktakes' = [stocktakes EXCEPT ![s] = Posted(s)]

\* The final_delta of every line with its sign turned.
Undoing(s) ==
  IF stocktakes[s].movement = 0 THEN Stock!Zero
  ELSE Stock!Opposite(movements[stocktakes[s].movement].delta)

\* reverseStocktake
ReverseStocktake(s) ==
  /\ stocktakes[s].status = "posted"
  /\ stocktakes[s].postedVersion = Versions
  /\ PostAdjustment(Undoing(s), stocktakes[s].movement)
  /\ stocktakes' = [stocktakes EXCEPT ![s].status = "reversed"]

StocktakesNext ==
  \/ CreateStocktake
  \/ \E s \in DOMAIN stocktakes :
       \/ \E counts \in Counts : CountStocktake(s, counts)
       \/ SubmitStocktake(s)
       \/ RequestRecount(s)
       \/ ApproveStocktake(s)
       \/ PostStocktake(s)
       \/ CancelStocktake(s)
       \/ ReverseStocktake(s)

\* Stocktakes while any other documents move stock in the same scopes.
StocktakesSpec ==
  /\ StockInit /\ StocktakesInit
  /\ [][StocktakesNext \/ (StockNext /\ UNCHANGED stocktakes)]_<<stocktakes, stockVars>>

-----------------------------------------------------------------------------
StocktakesTypeOK == stocktakes \in Seq(StocktakeRows)

Becomes(s, from, to) ==
  /\ s \in DOMAIN stocktakes
  /\ stocktakes[s].status = from
  /\ stocktakes'[s].status = to

\* A posted count corrects exactly the stock that was there when the round
\* began, and its reversal brings exactly that stock back: no receipt, issue or
\* transfer that was posted meanwhile is overwritten by either.
CountIsCurrent ==
  [][\A s \in DOMAIN stocktakes :
       /\ Becomes(s, "approved", "posted") =>
            /\ Quantity = stocktakes[s].expected
            /\ Quantity' = stocktakes[s].counted
       /\ Becomes(s, "posted", "reversed") =>
            /\ Quantity = stocktakes[s].counted
            /\ Quantity' = stocktakes[s].expected
    ]_<<stocktakes, stockVars>>
=============================================================================
