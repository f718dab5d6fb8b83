-------------------------- MODULE SettlementProofs --------------------------
(***************************************************************************)
(* What may have been sold is not sold again, and the books match the      *)
(* wallet, for any number of events, tokens and positions.                 *)
(***************************************************************************)
EXTENDS TradeLifecycleProofs

USE DEF store, signals, orders, positions, state, chain, work, vars

-----------------------------------------------------------------------------
(* What the row of an order says of its transaction, whatever the faults.  *)

\* An order has a hash from the signing of its first transaction on.
HashFits ==
  \A s \in Side, e \in Event :
    /\ e \in hashed[s] <=> tx[s][e] # "none"
    /\ e \in hashed[s] => order[s][e] # "ABSENT"

\* The status that the order in hand has where the worker is: from the write of
\* its hash until an outcome is written, recover_submitted can act on it.
OrderFits ==
  /\ pc = "quote" /\ side = "BUY" => order["BUY"][ev] \in {"ABSENT", "CREATED"}
  /\ pc \in {"pend", "build"} => order[side][ev] = "CREATED"
  /\ pc = "send" => tx[side][ev] = "signed"
  /\ pc \in {"send", "probe", "submit", "mark", "wait"} => Recoverable(side, ev)

OrderInv == HashFits /\ OrderFits

LEMMA InitOrderInv == Init => OrderInv
BY DEF OrderInv, HashFits, OrderFits, Recoverable, Init, StoreInit, ChainInit, Side

LEMMA ReconcileOrder ==
  ASSUME RowsInv, OrderInv, Reconcile
  PROVE  OrderInv'
<1> USE DEF RowsInv, OrderInv, HashFits, OrderFits, Recoverable, WorkFits, SideFits,
     SignalFitsPosition, BeforeHeld, TypeOK, StoreTypeOK, ChainTypeOK, Side, SignalStatus,
     OrderStatus, TxStatus, InFlight, Label
<1>1. CASE \E e \in Event : CloseEmpty(e)
  BY <1>1 DEF CloseEmpty, Candidate, SetPosition, SetSignal, ClearExitTracking
<1>2. CASE \E e \in Event : ReopenZeroQuote(e)
  BY <1>2 DEF ReopenZeroQuote, Candidate, Reopens, SetSignal
<1>3. CASE \E e \in Event : HoldMismatch(e)
  BY <1>3 DEF HoldMismatch, Candidate, SetPosition, SetSignal
<1> QED
  BY <1>1, <1>2, <1>3 DEF Reconcile

LEMMA BuyOrder ==
  ASSUME RowsInv, OrderInv, Buy
  PROVE  OrderInv'
<1> USE DEF RowsInv, OrderInv, HashFits, OrderFits, Recoverable, WorkFits, SideFits,
     SignalFitsPosition, BeforeHeld, TypeOK, StoreTypeOK, ChainTypeOK, Side, SignalStatus,
     OrderStatus, TxStatus, InFlight, Label
<1>1. CASE BuyRecover
  BY <1>1 DEF BuyRecover, IsOldest, Take
<1>2. CASE BuyIdle
  BY <1>2 DEF BuyIdle, SellNext
<1>3. CASE \E e \in Event : BuyExpired(e)
  BY <1>3 DEF BuyExpired, NextBuy, IsOldest, Received, SetSignal, EndRound
<1>4. CASE \E e \in Event : BuySkipped(e)
  BY <1>4 DEF BuySkipped, NextBuy, IsOldest, Received, SetSignal, SellNext
<1>5. CASE \E e \in Event : BuyStart(e)
  BY <1>5 DEF BuyStart, NextBuy, IsOldest, Received, Take
<1> QED
  BY <1>1, <1>2, <1>3, <1>4, <1>5 DEF Buy

LEMMA SellOrder ==
  ASSUME RowsInv, OrderInv, Sell
  PROVE  OrderInv'
<1> USE DEF RowsInv, OrderInv, HashFits, OrderFits, Recoverable, WorkFits, SideFits,
     SignalFitsPosition, BeforeHeld, TypeOK, StoreTypeOK, ChainTypeOK, Side, SignalStatus,
     OrderStatus, TxStatus, InFlight, Label
<1>1. CASE SellRecover
  BY <1>1 DEF SellRecover, SellsInFlight, IsOldest, Take
<1>2. CASE SellIdle
  BY <1>2 DEF SellIdle, EndRound
<1>3. CASE SellStart
  BY <1>3 DEF SellStart, IsStalest, OpenPositions, SellsInFlight, Take
<1>4. CASE SellHold
  BY <1>4 DEF SellHold, Goto
<1>5. CASE TouchHeld
  BY <1>5 DEF TouchHeld, EndRound
<1>6. CASE SellExit
  BY <1>6 DEF SellExit, Goto
<1>7. CASE SellCreate
  BY <1>7 DEF SellCreate, Goto
<1> QED
  BY <1>1, <1>2, <1>3, <1>4, <1>5, <1>6, <1>7 DEF Sell

LEMMA SubmitOrder ==
  ASSUME RowsInv, OrderInv, Submit
  PROVE  OrderInv'
<1> USE DEF RowsInv, OrderInv, HashFits, OrderFits, Recoverable, WorkFits, SideFits,
     SignalFitsPosition, BeforeHeld, TypeOK, StoreTypeOK, ChainTypeOK, Side, SignalStatus,
     OrderStatus, TxStatus, InFlight, Label
<1>1. CASE BuyQuoted
  BY <1>1 DEF BuyQuoted, CreateOrder, Goto
<1>2. CASE MarkPending
  BY <1>2 DEF MarkPending, SetStatus, SetSignal, Pending, Goto
<1>3. CASE Sign
  BY <1>3 DEF Sign, UpdateOrderHash, Goto
<1>4. CASE Broadcast
  BY <1>4 DEF Broadcast, Goto
<1>5. CASE BroadcastError
  BY <1>5 DEF BroadcastError, Goto
<1>6. CASE BroadcastMismatch
  BY <1>6 DEF BroadcastMismatch, UpdateOrder, Settle, Goto
<1>7. CASE ProbeFound
  BY <1>7 DEF ProbeFound, Goto
<1>8. CASE ProbeUnknown
  BY <1>8 DEF ProbeUnknown, UpdateOrder, Settle, Submitted
<1>9. CASE OrderSubmitted
  BY <1>9 DEF OrderSubmitted, UpdateOrder, Goto
<1>10. CASE MarkSubmitted
  BY <1>10 DEF MarkSubmitted, SetStatus, Submitted, Goto
<1>11. CASE Bought
  BY <1>11 DEF Bought, FinalizeBuy, OpenPosition, UpdateOrder, SetSignal, EndRound
<1>12. CASE Sold
  BY <1>12 DEF Sold, FinalizeSell, MarkSellOutputUnknown, UpdateOrder, SetPosition, SetSignal,
     ClearExitTracking, EndRound
<1> QED
  BY <1>1, <1>2, <1>3, <1>4, <1>5, <1>6, <1>7, <1>8, <1>9, <1>10, <1>11, <1>12 DEF Submit

LEMMA HandleOrder ==
  ASSUME RowsInv, OrderInv, Handle
  PROVE  OrderInv'
<1> USE DEF RowsInv, OrderInv, HashFits, OrderFits, Recoverable, WorkFits, SideFits,
     SignalFitsPosition, BeforeHeld, TypeOK, StoreTypeOK, ChainTypeOK, Side, SignalStatus,
     OrderStatus, TxStatus, InFlight, Label
<1>1. CASE ReceiptTimeout
  BY <1>1 DEF ReceiptTimeout, UpdateOrder, Settle, Submitted
<1>2. CASE RpcFailure
  BY <1>2 DEF RpcFailure, UpdateOrder, Settle, Submitted, Retry
<1>3. CASE FailBuy
  BY <1>3 DEF FailBuy, UpdateOrder, Settle
<1>4. CASE FailSell
  BY <1>4 DEF FailSell, CountFailure, Goto
<1>5. CASE TallyFailure
  BY <1>5 DEF TallyFailure, SetPosition
<1>6. CASE FailOrder
  BY <1>6 DEF FailOrder, UpdateOrder, Goto
<1>7. CASE SettleSignal
  BY <1>7 DEF SettleSignal, SetSignal, EndRound
<1>8. CASE ApprovalPending
  BY <1>8 DEF ApprovalPending, SetSignal, Retry, EndRound
<1>9. CASE ZeroQuote
  BY <1>9 DEF ZeroQuote, SetSignal, EndRound
<1> QED
  BY <1>1, <1>2, <1>3, <1>4, <1>5, <1>6, <1>7, <1>8, <1>9 DEF Handle

LEMMA RecoverOrder ==
  ASSUME RowsInv, OrderInv, Recover
  PROVE  OrderInv'
<1> USE DEF RowsInv, OrderInv, HashFits, OrderFits, Recoverable, WorkFits, SideFits,
     SignalFitsPosition, BeforeHeld, TypeOK, StoreTypeOK, ChainTypeOK, Side, SignalStatus,
     OrderStatus, TxStatus, InFlight, Label
<1>1. CASE RecoverUnsigned
  BY <1>1 DEF RecoverUnsigned, Recovering, Unsigned, SetSignal, Retry, EndRound
<1>2. CASE RecoverNothing
  BY <1>2 DEF RecoverNothing, Recovering, Return, SellNext, EndRound
<1>3. CASE RecoverPending
  BY <1>3 DEF RecoverPending, Recovering, Return, SellNext, EndRound
<1>4. CASE RecoverNotFound
  BY <1>4 DEF RecoverNotFound, Recovering, Recoverable, Abandoned, NotFound, UpdateOrder,
     SetSignal, EndRound
<1>5. CASE RecoverReverted
  BY <1>5 DEF RecoverReverted, Recovering, UpdateOrder, Settle
<1>6. CASE RecoverBought
  BY <1>6 DEF RecoverBought, Recovering, Recoverable, FinalizeBuy, OpenPosition, UpdateOrder,
     SetSignal, EndRound
<1>7. CASE RecoverSold
  BY <1>7 DEF RecoverSold, Recovering, Recoverable, FinalizeSell, MarkSellOutputUnknown,
     UpdateOrder, SetPosition, SetSignal, ClearExitTracking, EndRound
<1>8. CASE RecoverError
  BY <1>8 DEF RecoverError, EndRound
<1> QED
  BY <1>1, <1>2, <1>3, <1>4, <1>5, <1>6, <1>7, <1>8 DEF Recover

LEMMA ChainOrder ==
  ASSUME RowsInv, OrderInv, ChainNext, UNCHANGED <<store, work>>
  PROVE  OrderInv'
BY DEF RowsInv, TypeOK, ChainTypeOK, Side, OrderInv, HashFits, OrderFits, Recoverable,
   ChainNext, Mine, MineBuy, MineSell, MineRevert, Expire, Publish, Drop, ManualSell

LEMMA NextOrder ==
  ASSUME RowsInv, OrderInv, [Next]_vars
  PROVE  OrderInv'
<1> USE DEF OrderInv, HashFits, OrderFits, Recoverable
<1>1. CASE WorkerStep
  BY <1>1, ReconcileOrder, BuyOrder, SellOrder, SubmitOrder, HandleOrder, RecoverOrder
     DEF WorkerStep
<1>2. CASE Stop
  BY <1>2 DEF Stop, EndRound
<1>3. CASE UNCHANGED <<store, work>> /\ ChainNext
  BY <1>3, ChainOrder
<1>4. CASE UNCHANGED <<chain, work>> /\ \E e \in Event : AcceptSignal(e)
  BY <1>4 DEF AcceptSignal
<1>5. CASE UNCHANGED vars
  BY <1>5
<1> QED
  BY <1>1, <1>2, <1>3, <1>4, <1>5 DEF Next

-----------------------------------------------------------------------------
(***************************************************************************)
(* A sale that is not known to have failed.  Its order and signal, or the  *)
(* position, keep it from being sold again, whichever commit came last.    *)
(***************************************************************************)

\* The send endpoint answers with the hash of what it was sent.
HashesTrue == "mismatch" \notin Faults

\* Nothing was or can be sold by the latest transaction of e.
Unsold(e) == tx["SELL"][e] \in {"none", "reverted"}

\* Of any other transaction the rows say that it is in flight, or else its
\* outcome is known and nothing reopens the position.
SaleRecorded ==
  \A e \in Event :
    \/ Unsold(e)
    \/ order["SELL"][e] \in InFlight /\ signal[e] \in {"SELL_PENDING", "SELL_SUBMITTED"}
    \/ /\ order["SELL"][e] = "CONFIRMED" /\ position[e] \in {"POSITION_STUCK", "CLOSED"}
       /\ lastError[e] # "ZERO_QUOTE"

\* Where the worker is about to sell, or to give the position back to be sold.
SellsUnsold ==
  side = "SELL" =>
    /\ pc \in {"quote", "touch", "create", "pend", "build", "recheck", "tally", "fail"}
         => Unsold(ev)
    /\ pc = "settle" /\ goal # "SELL_SUBMITTED" => Unsold(ev)
    /\ pc = "build" => signal[ev] = "SELL_PENDING"

SaleInv == SaleRecorded /\ SellsUnsold

LEMMA InitSaleInv == Init => SaleInv
BY DEF SaleInv, SaleRecorded, SellsUnsold, Unsold, Init, StoreInit, ChainInit, Side

LEMMA ReconcileSale ==
  ASSUME HashesTrue, RowsInv, OrderInv, SaleInv, Reconcile
  PROVE  SaleInv'
<1> USE DEF HashesTrue, RowsInv, OrderInv, HashFits, OrderFits, SaleInv, SaleRecorded,
     SellsUnsold, Unsold, Recoverable, SignalFitsPosition, SellsFollowBuys, WorkFits, GoalFits,
     SideFits, BuysInFlight, WithStatus, Active, BeforeHeld, TypeOK, StoreTypeOK, ChainTypeOK,
     Side, SignalStatus, OrderStatus, PositionStatus, TxStatus, InFlight, Label
<1>1. CASE \E e \in Event : CloseEmpty(e)
  BY <1>1 DEF CloseEmpty, Candidate, SetPosition, SetSignal, ClearExitTracking
<1>2. CASE \E e \in Event : ReopenZeroQuote(e)
  BY <1>2 DEF ReopenZeroQuote, Candidate, Reopens, SetSignal
<1>3. CASE \E e \in Event : HoldMismatch(e)
  BY <1>3 DEF HoldMismatch, Candidate, SetPosition, SetSignal
<1> QED
  BY <1>1, <1>2, <1>3 DEF Reconcile

LEMMA BuySale ==
  ASSUME HashesTrue, RowsInv, OrderInv, SaleInv, Buy
  PROVE  SaleInv'
<1> USE DEF HashesTrue, RowsInv, OrderInv, HashFits, OrderFits, SaleInv, SaleRecorded,
     SellsUnsold, Unsold, Recoverable, SignalFitsPosition, SellsFollowBuys, WorkFits, GoalFits,
     SideFits, BuysInFlight, WithStatus, Active, BeforeHeld, TypeOK, StoreTypeOK, ChainTypeOK,
     Side, SignalStatus, OrderStatus, PositionStatus, TxStatus, InFlight, Label
<1>1. CASE BuyRecover
  BY <1>1 DEF BuyRecover, IsOldest, Take
<1>2. CASE BuyIdle
  BY <1>2 DEF BuyIdle, SellNext
<1>3. CASE \E e \in Event : BuyExpired(e)
  BY <1>3 DEF BuyExpired, NextBuy, IsOldest, Received, SetSignal, EndRound
<1>4. CASE \E e \in Event : BuySkipped(e)
  BY <1>4 DEF BuySkipped, NextBuy, IsOldest, Received, SetSignal, SellNext
<1>5. CASE \E e \in Event : BuyStart(e)
  BY <1>5 DEF BuyStart, NextBuy, IsOldest, Received, Take
<1> QED
  BY <1>1, <1>2, <1>3, <1>4, <1>5 DEF Buy

LEMMA SellSale ==
  ASSUME HashesTrue, RowsInv, OrderInv, SaleInv, Sell
  PROVE  SaleInv'
<1> USE DEF HashesTrue, RowsInv, OrderInv, HashFits, OrderFits, SaleInv, SaleRecorded,
     SellsUnsold, Unsold, Recoverable, SignalFitsPosition, SellsFollowBuys, WorkFits, GoalFits,
     SideFits, BuysInFlight, WithStatus, Active, BeforeHeld, TypeOK, StoreTypeOK, ChainTypeOK,
     Side, SignalStatus, OrderStatus, PositionStatus, TxStatus, InFlight, Label
<1>1. CASE SellRecover
  BY <1>1 DEF SellRecover, SellsInFlight, IsOldest, Take
<1>2. CASE SellIdle
  BY <1>2 DEF SellIdle, EndRound
<1>3. CASE SellStart
  BY <1>3 DEF SellStart, IsStalest, OpenPositions, SellsInFlight, Take
<1>4. CASE SellHold
  BY <1>4 DEF SellHold, Goto
<1>5. CASE TouchHeld
  BY <1>5 DEF TouchHeld, EndRound
<1>6. CASE SellExit
  BY <1>6 DEF SellExit, Goto
<1>7. CASE SellCreate
  BY <1>7 DEF SellCreate, Goto
<1> QED
  BY <1>1, <1>2, <1>3, <1>4, <1>5, <1>6, <1>7 DEF Sell

LEMMA SubmitSale ==
  ASSUME HashesTrue, RowsInv, OrderInv, SaleInv, Submit
  PROVE  SaleInv'
<1> USE DEF HashesTrue, RowsInv, OrderInv, HashFits, OrderFits, SaleInv, SaleRecorded,
     SellsUnsold, Unsold, Recoverable, SignalFitsPosition, SellsFollowBuys, WorkFits, GoalFits,
     SideFits, BuysInFlight, WithStatus, Active, BeforeHeld, TypeOK, StoreTypeOK, ChainTypeOK,
     Side, SignalStatus, OrderStatus, PositionStatus, TxStatus, InFlight, Label
<1>1. CASE BuyQuoted
  BY <1>1 DEF BuyQuoted, CreateOrder, Goto
<1>2. CASE MarkPending
  BY <1>2 DEF MarkPending, SetStatus, SetSignal, Pending, Goto
<1>3. CASE Sign
  BY <1>3 DEF Sign, UpdateOrderHash, Goto
<1>4. CASE Broadcast
  BY <1>4 DEF Broadcast, Goto
<1>5. CASE BroadcastError
  BY <1>5 DEF BroadcastError, Goto
<1>6. CASE BroadcastMismatch
  BY <1>6 DEF BroadcastMismatch, UpdateOrder, Settle, Goto
<1>7. CASE ProbeFound
  BY <1>7 DEF ProbeFound, Goto
<1>8. CASE ProbeUnknown
  BY <1>8 DEF ProbeUnknown, UpdateOrder, Settle, Submitted
<1>9. CASE OrderSubmitted
  BY <1>9 DEF OrderSubmitted, UpdateOrder, Goto
<1>10. CASE MarkSubmitted
  BY <1>10 DEF MarkSubmitted, SetStatus, Submitted, Goto
<1>11. CASE Bought
  BY <1>11 DEF Bought, FinalizeBuy, OpenPosition, UpdateOrder, SetSignal, EndRound
<1>12. CASE Sold
  BY <1>12 DEF Sold, FinalizeSell, MarkSellOutputUnknown, UpdateOrder, SetPosition, SetSignal,
     ClearExitTracking, EndRound
<1> QED
  BY <1>1, <1>2, <1>3, <1>4, <1>5, <1>6, <1>7, <1>8, <1>9, <1>10, <1>11, <1>12 DEF Submit

LEMMA HandleSale ==
  ASSUME HashesTrue, RowsInv, OrderInv, SaleInv, Handle
  PROVE  SaleInv'
<1> USE DEF HashesTrue, RowsInv, OrderInv, HashFits, OrderFits, SaleInv, SaleRecorded,
     SellsUnsold, Unsold, Recoverable, SignalFitsPosition, SellsFollowBuys, WorkFits, GoalFits,
     SideFits, BuysInFlight, WithStatus, Active, BeforeHeld, TypeOK, StoreTypeOK, ChainTypeOK,
     Side, SignalStatus, OrderStatus, PositionStatus, TxStatus, InFlight, Label
<1>1. CASE ReceiptTimeout
  BY <1>1 DEF ReceiptTimeout, UpdateOrder, Settle, Submitted
<1>2. CASE RpcFailure
  BY <1>2 DEF RpcFailure, UpdateOrder, Settle, Submitted, Retry
<1>3. CASE FailBuy
  BY <1>3 DEF FailBuy, UpdateOrder, Settle
<1>4. CASE FailSell
  BY <1>4 DEF FailSell, CountFailure, Goto
<1>5. CASE TallyFailure
  BY <1>5 DEF TallyFailure, SetPosition
<1>6. CASE FailOrder
  BY <1>6 DEF FailOrder, UpdateOrder, Goto
<1>7. CASE SettleSignal
  BY <1>7 DEF SettleSignal, SetSignal, EndRound
<1>8. CASE ApprovalPending
  BY <1>8 DEF ApprovalPending, SetSignal, Retry, EndRound
<1>9. CASE ZeroQuote
  BY <1>9 DEF ZeroQuote, SetSignal, EndRound
<1> QED
  BY <1>1, <1>2, <1>3, <1>4, <1>5, <1>6, <1>7, <1>8, <1>9 DEF Handle

LEMMA RecoverSale ==
  ASSUME HashesTrue, RowsInv, OrderInv, SaleInv, Recover
  PROVE  SaleInv'
<1> USE DEF HashesTrue, RowsInv, OrderInv, HashFits, OrderFits, SaleInv, SaleRecorded,
     SellsUnsold, Unsold, Recoverable, SignalFitsPosition, SellsFollowBuys, WorkFits, GoalFits,
     SideFits, BuysInFlight, WithStatus, Active, BeforeHeld, TypeOK, StoreTypeOK, ChainTypeOK,
     Side, SignalStatus, OrderStatus, PositionStatus, TxStatus, InFlight, Label
<1>1. CASE RecoverUnsigned
  BY <1>1 DEF RecoverUnsigned, Recovering, Unsigned, SetSignal, Retry, EndRound
<1>2. CASE RecoverNothing
  BY <1>2 DEF RecoverNothing, Recovering, Return, SellNext, EndRound
<1>3. CASE RecoverPending
  BY <1>3 DEF RecoverPending, Recovering, Return, SellNext, EndRound
<1>4. CASE RecoverNotFound
  BY <1>4 DEF RecoverNotFound, Recovering, Recoverable, Abandoned, NotFound, UpdateOrder,
     SetSignal, EndRound
<1>5. CASE RecoverReverted
  BY <1>5 DEF RecoverReverted, Recovering, UpdateOrder, Settle
<1>6. CASE RecoverBought
  BY <1>6 DEF RecoverBought, Recovering, Recoverable, FinalizeBuy, OpenPosition, UpdateOrder,
     SetSignal, EndRound
<1>7. CASE RecoverSold
  BY <1>7 DEF RecoverSold, Recovering, Recoverable, FinalizeSell, MarkSellOutputUnknown,
     UpdateOrder, SetPosition, SetSignal, ClearExitTracking, EndRound
<1>8. CASE RecoverError
  BY <1>8 DEF RecoverError, EndRound
<1> QED
  BY <1>1, <1>2, <1>3, <1>4, <1>5, <1>6, <1>7, <1>8 DEF Recover

LEMMA ChainSale ==
  ASSUME RowsInv, SaleInv, ChainNext, UNCHANGED <<store, work>>
  PROVE  SaleInv'
BY DEF RowsInv, TypeOK, ChainTypeOK, Side, SaleInv, SaleRecorded, SellsUnsold, Unsold,
   ChainNext, Mine, MineBuy, MineSell, MineRevert, Expire, Publish, Drop, ManualSell

LEMMA NextSale ==
  ASSUME HashesTrue, RowsInv, OrderInv, SaleInv, [Next]_vars
  PROVE  SaleInv'
<1> USE DEF SaleInv, SaleRecorded, SellsUnsold, Unsold
<1>1. CASE WorkerStep
  BY <1>1, ReconcileSale, BuySale, SellSale, SubmitSale, HandleSale, RecoverSale DEF WorkerStep
<1>2. CASE Stop
  BY <1>2 DEF Stop, EndRound
<1>3. CASE UNCHANGED <<store, work>> /\ ChainNext
  BY <1>3, ChainSale
<1>4. CASE UNCHANGED <<chain, work>> /\ \E e \in Event : AcceptSignal(e)
  <2> PICK e \in Event : AcceptSignal(e)
    BY <1>4
  <2>1. position[e] = "ABSENT" /\ signal[e] = "ABSENT"
    BY DEF AcceptSignal, RowsInv, SignalFitsPosition, BeforeHeld
  <2>2. Unsold(e)
    BY <2>1
  <2> QED
    BY <1>4, <2>1, <2>2 DEF AcceptSignal, SetSignal, RowsInv, TypeOK, StoreTypeOK, WorkFits
<1>5. CASE UNCHANGED vars
  BY <1>5
<1> QED
  BY <1>1, <1>2, <1>3, <1>4, <1>5 DEF Next

\* The inductive invariant: a sale that may have gone through is on record, and
\* the worker is nowhere near selling again (sell_once, recover_submitted).
THEOREM SaleInvariant ==
  ASSUME HashesTrue
  PROVE  Spec => [](RowsInv /\ OrderInv /\ SaleInv)
<1>1. RowsInv /\ OrderInv /\ SaleInv /\ [Next]_vars => (RowsInv /\ OrderInv /\ SaleInv)'
  BY NextRowsInv, NextOrder, NextSale
<1> QED
  BY <1>1, InitRowsInv, InitOrderInv, InitSaleInv, PTL DEF Spec

\* What may have been sold is not sold again: a SELL is signed anew only when
\* its earlier transaction was reverted.
THEOREM SoldOnce ==
  ASSUME HashesTrue
  PROVE  Spec => SellSignedAgainOnlyAfterRevert
<1>1. RowsInv /\ OrderInv /\ SaleInv /\ [Next]_vars =>
        [\A e \in Event :
          tx["SELL"][e] # "signed" /\ tx'["SELL"][e] = "signed"
            => tx["SELL"][e] \in {"none", "reverted"}]_vars
  <2> SUFFICES ASSUME RowsInv, SaleInv, [Next]_vars, NEW e \in Event,
                      tx["SELL"][e] # "signed", tx'["SELL"][e] = "signed"
               PROVE  Unsold(e)
    BY DEF Unsold
  <2>1. Sign /\ side = "SELL" /\ ev = e
    BY OnlySignSigns DEF RowsInv, Side
  <2> QED
    BY <2>1 DEF Sign, SaleInv, SellsUnsold
<1> QED
  BY <1>1, SaleInvariant, PTL DEF Spec, SellSignedAgainOnlyAfterRevert

-----------------------------------------------------------------------------
(***************************************************************************)
(* The wallet holds what was bought and not sold, at every moment; once    *)
(* the orders of a token are settled, the positions say the same.          *)
(***************************************************************************)

\* The endpoints tell the truth and nobody else sells; transactions may still be
\* lost and the process may stop.
Undisturbed == Faults \cap {"late", "mismatch", "manual"} = {}

Paid(e) == tx["BUY"][e] = "ok"
Gone(e) == tx["SELL"][e] \in {"ok", "empty"}
Owned(t) == {e \in Event : TokenOf[e] = t /\ Paid(e) /\ ~Gone(e)}

\* Only what has a position is sold, and only what was paid for has one.
SalesFollowPositions == \A e \in Event : tx["SELL"][e] # "none" => position[e] # "ABSENT"
PositionsPaid == \A e \in Event : position[e] # "ABSENT" => Paid(e)
\* A buy that may yet be paid is in flight until it has its position.
BuysTracked ==
  \A e \in Event :
    tx["BUY"][e] \in {"sent", "net", "ok"} =>
      order["BUY"][e] \in InFlight \/ position[e] # "ABSENT"
\* Only what was sold is closed.
ClosedGone == \A e \in Event : position[e] = "CLOSED" => Gone(e)

BookInv == SalesFollowPositions /\ PositionsPaid /\ BuysTracked /\ ClosedGone
WalletFits == \A t \in Token : wallet[t] = Lot * Cardinality(Owned(t))
TradeInv == RowsInv /\ BuyInv /\ OrderInv /\ SaleInv

LEMMA InitBookInv == Init => BookInv
BY DEF BookInv, SalesFollowPositions, PositionsPaid, BuysTracked, ClosedGone, Init, StoreInit,
  ChainInit, Side

LEMMA OwnedFinite == \A t : IsFiniteSet(Owned(t)) /\ Cardinality(Owned(t)) \in Nat
<1>1. IsFiniteSet(Event)
  BY FS_Interval, StoreAssumption DEF Event
<1> QED
  BY <1>1, FS_Subset, FS_CardinalityType DEF Owned

\* A position whose token the wallet has none of was sold: it may be closed
\* (reconcile_positions_once).
LEMMA EmptyIsGone ==
  ASSUME TypeOK, BookInv, WalletFits, NEW e \in Event, wallet[TokenOf[e]] = 0,
         position[e] # "ABSENT"
  PROVE  Gone(e)
<1>1. TokenOf[e] \in Token
  BY ChainAssumption
<1>2. Cardinality(Owned(TokenOf[e])) = 0
  BY <1>1, OwnedFinite DEF WalletFits, Lot
<1>3. e \notin Owned(TokenOf[e])
  BY <1>2, OwnedFinite, FS_EmptySet
<1> QED
  BY <1>3 DEF Owned, BookInv, PositionsPaid

LEMMA ReconcileBooks ==
  ASSUME Undisturbed, TradeInv, BookInv, WalletFits, Reconcile
  PROVE  BookInv'
<1> USE DEF BookInv, SalesFollowPositions, PositionsPaid, BuysTracked, ClosedGone, Paid, Gone,
     Undisturbed, TradeInv, BuyInv, HashIsSigned, BuildsUnsigned, OrderInv, HashFits, OrderFits,
     SaleInv, SaleRecorded, SellsUnsold, Unsold, Recoverable, RowsInv, SignalFitsPosition,
     SellsFollowBuys, WorkFits, SideFits, BeforeHeld, TypeOK, StoreTypeOK, ChainTypeOK, Side,
     SignalStatus, OrderStatus, PositionStatus, TxStatus, InFlight, Label
<1>1. CASE \E e \in Event : CloseEmpty(e)
  BY <1>1, EmptyIsGone DEF CloseEmpty, Candidate, SetPosition, SetSignal, Active
<1>2. CASE \E e \in Event : ReopenZeroQuote(e)
  BY <1>2 DEF ReopenZeroQuote, Candidate, Reopens, SetSignal
<1>3. CASE \E e \in Event : HoldMismatch(e)
  BY <1>3 DEF HoldMismatch, Candidate, SetPosition, SetSignal
<1> QED
  BY <1>1, <1>2, <1>3 DEF Reconcile

LEMMA BuyBooks ==
  ASSUME Undisturbed, TradeInv, BookInv, WalletFits, Buy
  PROVE  BookInv'
<1> USE DEF BookInv, SalesFollowPositions, PositionsPaid, BuysTracked, ClosedGone, Paid, Gone,
     Undisturbed, TradeInv, BuyInv, HashIsSigned, BuildsUnsigned, OrderInv, HashFits, OrderFits,
     SaleInv, SaleRecorded, SellsUnsold, Unsold, Recoverable, RowsInv, SignalFitsPosition,
     SellsFollowBuys, WorkFits, SideFits, BeforeHeld, TypeOK, StoreTypeOK, ChainTypeOK, Side,
     SignalStatus, OrderStatus, PositionStatus, TxStatus, InFlight, Label
<1>1. CASE BuyRecover
  BY <1>1 DEF BuyRecover, IsOldest, Take
<1>2. CASE BuyIdle
  BY <1>2 DEF BuyIdle, SellNext
<1>3. CASE \E e \in Event : BuyExpired(e)
  BY <1>3 DEF BuyExpired, NextBuy, IsOldest, Received, SetSignal, EndRound
<1>4. CASE \E e \in Event : BuySkipped(e)
  BY <1>4 DEF BuySkipped, NextBuy, IsOldest, Received, SetSignal, SellNext
<1>5. CASE \E e \in Event : BuyStart(e)
  BY <1>5 DEF BuyStart, NextBuy, IsOldest, Received, Take
<1> QED
  BY <1>1, <1>2, <1>3, <1>4, <1>5 DEF Buy

LEMMA SellBooks ==
  ASSUME Undisturbed, TradeInv, BookInv, WalletFits, Sell
  PROVE  BookInv'
<1> USE DEF BookInv, SalesFollowPositions, PositionsPaid, BuysTracked, ClosedGone, Paid, Gone,
     Undisturbed, TradeInv, BuyInv, HashIsSigned, BuildsUnsigned, OrderInv, HashFits, OrderFits,
     SaleInv, SaleRecorded, SellsUnsold, Unsold, Recoverable, RowsInv, SignalFitsPosition,
     SellsFollowBuys, WorkFits, SideFits, BeforeHeld, TypeOK, StoreTypeOK, ChainTypeOK, Side,
     SignalStatus, OrderStatus, PositionStatus, TxStatus, InFlight, Label
<1>1. CASE SellRecover
  BY <1>1 DEF SellRecover, SellsInFlight, IsOldest, Take
<1>2. CASE SellIdle
  BY <1>2 DEF SellIdle, EndRound
<1>3. CASE SellStart
  BY <1>3 DEF SellStart, IsStalest, OpenPositions, SellsInFlight, Take
<1>4. CASE SellHold
  BY <1>4 DEF SellHold, Goto
<1>5. CASE TouchHeld
  BY <1>5 DEF TouchHeld, EndRound
<1>6. CASE SellExit
  BY <1>6 DEF SellExit, Goto
<1>7. CASE SellCreate
  BY <1>7 DEF SellCreate, Goto
<1> QED
  BY <1>1, <1>2, <1>3, <1>4, <1>5, <1>6, <1>7 DEF Sell

LEMMA SubmitBooks ==
  ASSUME Undisturbed, TradeInv, BookInv, WalletFits, Submit
  PROVE  BookInv'
<1> USE DEF BookInv, SalesFollowPositions, PositionsPaid, BuysTracked, ClosedGone, Paid, Gone,
     Undisturbed, TradeInv, BuyInv, HashIsSigned, BuildsUnsigned, OrderInv, HashFits, OrderFits,
     SaleInv, SaleRecorded, SellsUnsold, Unsold, Recoverable, RowsInv, SignalFitsPosition,
     SellsFollowBuys, WorkFits, SideFits, BeforeHeld, TypeOK, StoreTypeOK, ChainTypeOK, Side,
     SignalStatus, OrderStatus, PositionStatus, TxStatus, InFlight, Label
<1>1. CASE BuyQuoted
  BY <1>1 DEF BuyQuoted, CreateOrder, Goto
<1>2. CASE MarkPending
  BY <1>2 DEF MarkPending, SetStatus, SetSignal, Pending, Goto
<1>3. CASE Sign
  BY <1>3 DEF Sign, UpdateOrderHash, Goto
<1>4. CASE Broadcast
  BY <1>4 DEF Broadcast, Goto
<1>5. CASE BroadcastError
  BY <1>5 DEF BroadcastError, Goto
<1>6. CASE BroadcastMismatch
  BY <1>6 DEF BroadcastMismatch, UpdateOrder, Settle, Goto
<1>7. CASE ProbeFound
  BY <1>7 DEF ProbeFound, Goto
<1>8. CASE ProbeUnknown
  BY <1>8 DEF ProbeUnknown, UpdateOrder, Settle, Submitted
<1>9. CASE OrderSubmitted
  BY <1>9 DEF OrderSubmitted, UpdateOrder, Goto
<1>10. CASE MarkSubmitted
  BY <1>10 DEF MarkSubmitted, SetStatus, Submitted, Goto
<1>11. CASE Bought
  BY <1>11 DEF Bought, FinalizeBuy, OpenPosition, UpdateOrder, SetSignal, EndRound
<1>12. CASE Sold
  BY <1>12 DEF Sold, FinalizeSell, MarkSellOutputUnknown, UpdateOrder, SetPosition, SetSignal,
     ClearExitTracking, EndRound
<1> QED
  BY <1>1, <1>2, <1>3, <1>4, <1>5, <1>6, <1>7, <1>8, <1>9, <1>10, <1>11, <1>12 DEF Submit

LEMMA HandleBooks ==
  ASSUME Undisturbed, TradeInv, BookInv, WalletFits, Handle
  PROVE  BookInv'
<1> USE DEF BookInv, SalesFollowPositions, PositionsPaid, BuysTracked, ClosedGone, Paid, Gone,
     Undisturbed, TradeInv, BuyInv, HashIsSigned, BuildsUnsigned, OrderInv, HashFits, OrderFits,
     SaleInv, SaleRecorded, SellsUnsold, Unsold, Recoverable, RowsInv, SignalFitsPosition,
     SellsFollowBuys, WorkFits, SideFits, BeforeHeld, TypeOK, StoreTypeOK, ChainTypeOK, Side,
     SignalStatus, OrderStatus, PositionStatus, TxStatus, InFlight, Label
<1>1. CASE ReceiptTimeout
  BY <1>1 DEF ReceiptTimeout, UpdateOrder, Settle, Submitted
<1>2. CASE RpcFailure
  BY <1>2 DEF RpcFailure, UpdateOrder, Settle, Submitted, Retry
<1>3. CASE FailBuy
  BY <1>3 DEF FailBuy, UpdateOrder, Settle
<1>4. CASE FailSell
  BY <1>4 DEF FailSell, CountFailure, Goto
<1>5. CASE TallyFailure
  BY <1>5 DEF TallyFailure, SetPosition
<1>6. CASE FailOrder
  BY <1>6 DEF FailOrder, UpdateOrder, Goto
<1>7. CASE SettleSignal
  BY <1>7 DEF SettleSignal, SetSignal, EndRound
<1>8. CASE ApprovalPending
  BY <1>8 DEF ApprovalPending, SetSignal, Retry, EndRound
<1>9. CASE ZeroQuote
  BY <1>9 DEF ZeroQuote, SetSignal, EndRound
<1> QED
  BY <1>1, <1>2, <1>3, <1>4, <1>5, <1>6, <1>7, <1>8, <1>9 DEF Handle

LEMMA RecoverBooks ==
  ASSUME Undisturbed, TradeInv, BookInv, WalletFits, Recover
  PROVE  BookInv'
<1> USE DEF BookInv, SalesFollowPositions, PositionsPaid, BuysTracked, ClosedGone, Paid, Gone,
     Undisturbed, TradeInv, BuyInv, HashIsSigned, BuildsUnsigned, OrderInv, HashFits, OrderFits,
     SaleInv, SaleRecorded, SellsUnsold, Unsold, Recoverable, RowsInv, SignalFitsPosition,
     SellsFollowBuys, WorkFits, SideFits, BeforeHeld, TypeOK, StoreTypeOK, ChainTypeOK, Side,
     SignalStatus, OrderStatus, PositionStatus, TxStatus, InFlight, Label
<1>1. CASE RecoverUnsigned
  BY <1>1 DEF RecoverUnsigned, Recovering, Unsigned, SetSignal, Retry, EndRound
<1>2. CASE RecoverNothing
  BY <1>2 DEF RecoverNothing, Recovering, Return, SellNext, EndRound
<1>3. CASE RecoverPending
  BY <1>3 DEF RecoverPending, Recovering, Return, SellNext, EndRound
<1>4. CASE RecoverNotFound
  BY <1>4 DEF RecoverNotFound, Recovering, Recoverable, Abandoned, NotFound, UpdateOrder,
     SetSignal, EndRound
<1>5. CASE RecoverReverted
  BY <1>5 DEF RecoverReverted, Recovering, UpdateOrder, Settle
<1>6. CASE RecoverBought
  BY <1>6 DEF RecoverBought, Recovering, Recoverable, FinalizeBuy, OpenPosition, UpdateOrder,
     SetSignal, EndRound
<1>7. CASE RecoverSold
  BY <1>7 DEF RecoverSold, Recovering, Recoverable, FinalizeSell, MarkSellOutputUnknown,
     UpdateOrder, SetPosition, SetSignal, ClearExitTracking, EndRound
<1>8. CASE RecoverError
  BY <1>8 DEF RecoverError, EndRound
<1> QED
  BY <1>1, <1>2, <1>3, <1>4, <1>5, <1>6, <1>7, <1>8 DEF Recover

LEMMA ChainBooks ==
  ASSUME TradeInv, BookInv, ChainNext, UNCHANGED <<store, work>>
  PROVE  BookInv'
BY DEF BookInv, SalesFollowPositions, PositionsPaid, BuysTracked, ClosedGone, Paid, Gone,
  TradeInv, BuyInv, HashIsSigned, OrderInv, HashFits,
   RowsInv, TypeOK, ChainTypeOK, Side, ChainNext, Mine, MineBuy, MineSell, MineRevert, Expire,
   Publish, Drop, ManualSell

\* A step of the worker moves no tokens.
LEMMA WorkerKeeps ==
  ASSUME TradeInv, WorkerStep
  PROVE  /\ UNCHANGED wallet
         /\ \A e \in Event : (Paid(e)' <=> Paid(e)) /\ (Gone(e)' <=> Gone(e))
<1> USE DEF Paid, Gone, TradeInv, RowsInv, TypeOK, ChainTypeOK, Side
<1>1. CASE Reconcile
  BY <1>1 DEF Reconcile, CloseEmpty, ReopenZeroQuote, HoldMismatch
<1>2. CASE Buy
  BY <1>2 DEF Buy, BuyRecover, BuyIdle, BuyExpired, BuySkipped, BuyStart
<1>3. CASE Sell
  BY <1>3 DEF Sell, SellRecover, SellIdle, SellStart, SellHold, TouchHeld, SellExit, SellCreate
<1>4. CASE Submit
  <2>1. CASE Sign
    BY <2>1 DEF Sign, BuyInv, BuildsUnsigned, HashIsSigned, SaleInv, SellsUnsold, Unsold
  <2>2. CASE Broadcast
    BY <2>2 DEF Broadcast, OrderInv, OrderFits
  <2>3. CASE BroadcastError
    BY <2>3 DEF BroadcastError, OrderInv, OrderFits
  <2>4. CASE BroadcastMismatch
    BY <2>4 DEF BroadcastMismatch, OrderInv, OrderFits
  <2>5. CASE Bought \/ Sold
    BY <2>5 DEF Bought, Sold, FinalizeBuy, FinalizeSell, MarkSellOutputUnknown
  <2> QED
    BY <1>4, <2>1, <2>2, <2>3, <2>4, <2>5 DEF Submit, BuyQuoted, MarkPending, ProbeFound,
       ProbeUnknown, OrderSubmitted, MarkSubmitted
<1>5. CASE Handle
  BY <1>5 DEF Handle, ReceiptTimeout, RpcFailure, FailBuy, FailSell, TallyFailure, FailOrder,
     SettleSignal, ApprovalPending, ZeroQuote
<1>6. CASE Recover
  BY <1>6 DEF Recover, RecoverUnsigned, RecoverNothing, RecoverPending, RecoverNotFound,
     RecoverReverted, RecoverBought, RecoverSold, RecoverError, FinalizeBuy, FinalizeSell,
     MarkSellOutputUnknown
<1> QED
  BY <1>1, <1>2, <1>3, <1>4, <1>5, <1>6 DEF WorkerStep

\* Where nothing is bought or sold the books stay right.
LEMMA Kept ==
  ASSUME WalletFits, UNCHANGED wallet,
         \A e \in Event : (Paid(e)' <=> Paid(e)) /\ (Gone(e)' <=> Gone(e))
  PROVE  WalletFits'
<1>1. \A t : Owned(t)' = Owned(t)
  BY DEF Owned
<1> QED
  BY <1>1 DEF WalletFits

\* What a buy delivers.
LEMMA MineBuyWallet ==
  ASSUME TradeInv, BookInv, WalletFits, NEW e \in Event, MineBuy(e)
  PROVE  WalletFits'
<1> USE DEF Paid, Gone, TradeInv, RowsInv, TypeOK, ChainTypeOK, Side
<1>1. ~Paid(e) /\ ~Gone(e)
  BY DEF MineBuy, BookInv, PositionsPaid, SalesFollowPositions
<1>2. \A f \in Event \ {e} : (Paid(f)' <=> Paid(f)) /\ (Gone(f)' <=> Gone(f))
  BY DEF MineBuy
<1>3. ~Gone(e)'
  BY <1>1 DEF MineBuy
<1>4. CASE ~Paid(e)'
  <2>1. UNCHANGED wallet
    BY <1>4 DEF MineBuy
  <2> QED
    BY <1>1, <1>2, <1>3, <1>4, <2>1, Kept DEF Paid, Gone
<1>5. CASE Paid(e)'
  <2> SUFFICES ASSUME NEW t \in Token PROVE wallet'[t] = Lot * Cardinality(Owned(t)')
    BY DEF WalletFits
  <2>1. wallet' = [wallet EXCEPT ![TokenOf[e]] = @ + Lot]
    BY <1>5 DEF MineBuy
  <2>2. Cardinality(Owned(t)) \in Nat /\ IsFiniteSet(Owned(t)) /\ e \notin Owned(t)
    BY <1>1, OwnedFinite DEF Owned
  <2>3. CASE t = TokenOf[e]
    <3>1. Owned(t)' = Owned(t) \cup {e}
      BY <1>2, <1>3, <1>5, <2>3 DEF Owned
    <3>2. Cardinality(Owned(t)') = Cardinality(Owned(t)) + 1
      BY <2>2, <3>1, FS_AddElement
    <3> QED
      BY <2>1, <2>2, <2>3, <3>2 DEF WalletFits, Lot
  <2>4. CASE t # TokenOf[e]
    <3>1. Owned(t)' = Owned(t)
      BY <1>2, <2>4 DEF Owned
    <3> QED
      BY <2>1, <2>4, <3>1 DEF WalletFits
  <2> QED
    BY <2>3, <2>4
<1> QED
  BY <1>4, <1>5

\* What a sell takes.
LEMMA MineSellWallet ==
  ASSUME TradeInv, BookInv, WalletFits, NEW e \in Event, MineSell(e)
  PROVE  WalletFits'
<1> USE DEF Paid, Gone, TradeInv, RowsInv, TypeOK, ChainTypeOK, Side
<1>1. Paid(e) /\ ~Gone(e)
  BY DEF MineSell, BookInv, PositionsPaid, SalesFollowPositions
<1>2. \A f \in Event \ {e} : (Paid(f)' <=> Paid(f)) /\ (Gone(f)' <=> Gone(f))
  BY DEF MineSell
<1>3. Gone(e)'
  BY DEF MineSell
<1> SUFFICES ASSUME NEW t \in Token PROVE wallet'[t] = Lot * Cardinality(Owned(t)')
  BY DEF WalletFits
<1>4. wallet' = [wallet EXCEPT ![TokenOf[e]] = @ - Lot]
  BY DEF MineSell
<1>5. Cardinality(Owned(t)) \in Nat /\ IsFiniteSet(Owned(t))
  BY OwnedFinite
<1>6. CASE t = TokenOf[e]
  <2>1. Owned(t)' = Owned(t) \ {e} /\ e \in Owned(t)
    BY <1>1, <1>2, <1>3, <1>6 DEF Owned
  <2>2. Cardinality(Owned(t)') = Cardinality(Owned(t)) - 1
    BY <1>5, <2>1, FS_RemoveElement
  <2> QED
    BY <1>4, <1>5, <1>6, <2>2 DEF WalletFits, Lot
<1>7. CASE t # TokenOf[e]
  <2>1. Owned(t)' = Owned(t)
    BY <1>2, <1>7 DEF Owned
  <2> QED
    BY <1>4, <1>7, <2>1 DEF WalletFits
<1> QED
  BY <1>6, <1>7

LEMMA ChainWallet ==
  ASSUME Undisturbed, TradeInv, BookInv, WalletFits, ChainNext
  PROVE  WalletFits'
<1>1. CASE \E e \in Event : MineBuy(e) \/ MineSell(e)
  BY <1>1, MineBuyWallet, MineSellWallet
<1>2. CASE ~\E e \in Event : MineBuy(e) \/ MineSell(e)
  <2>1. UNCHANGED wallet
    BY <1>2 DEF ChainNext, Mine, MineRevert, Expire, Publish, Drop, ManualSell, Undisturbed
  <2>2. \A e \in Event : (Paid(e)' <=> Paid(e)) /\ (Gone(e)' <=> Gone(e))
    BY <1>2 DEF ChainNext, Mine, MineRevert, Expire, Publish, Drop, ManualSell, Undisturbed,
       Paid, Gone, TradeInv, RowsInv, TypeOK, ChainTypeOK, Side
  <2> QED
    BY <2>1, <2>2, Kept
<1> QED
  BY <1>1, <1>2

LEMMA NextBooks ==
  ASSUME Undisturbed, TradeInv, BookInv, WalletFits, [Next]_vars
  PROVE  BookInv' /\ WalletFits'
<1> USE DEF BookInv, SalesFollowPositions, PositionsPaid, BuysTracked, ClosedGone, Paid, Gone
<1>1. CASE WorkerStep
  BY <1>1, ReconcileBooks, BuyBooks, SellBooks, SubmitBooks, HandleBooks, RecoverBooks,
     WorkerKeeps, Kept DEF WorkerStep
<1>2. CASE UNCHANGED <<store, work>> /\ ChainNext
  BY <1>2, ChainBooks, ChainWallet
<1>3. CASE Stop \/ UNCHANGED vars \/ (UNCHANGED <<chain,
  work>> /\ \E e \in Event : AcceptSignal(e))
  <2>1. UNCHANGED <<tx, wallet, position, order>>
    BY <1>3 DEF Stop, AcceptSignal
  <2> QED
    BY <2>1, Kept
<1> QED
  BY <1>1, <1>2, <1>3 DEF Next

LEMMA InitWallet == Init => WalletFits
<1> SUFFICES ASSUME Init, NEW t \in Token PROVE wallet[t] = Lot * Cardinality(Owned(t))
  BY DEF WalletFits
<1>1. Owned(t) = {}
  BY DEF Owned, Paid, Init, ChainInit, Side
<1>2. wallet[t] = 0
  BY DEF Init, ChainInit
<1> QED
  BY <1>1, <1>2, FS_EmptySet DEF Lot

\* The inductive invariant: at every moment, the wallet holds a lot for each buy
\* that was paid and not yet sold (finalize_buy, finalize_sell, recover_submitted).
THEOREM BooksInvariant ==
  ASSUME Undisturbed
  PROVE  Spec => [](TradeInv /\ BookInv /\ WalletFits)
<1>1. HashesTrue
  BY DEF Undisturbed, HashesTrue
<1>2. Init => TradeInv /\ BookInv /\ WalletFits
  BY InitRowsInv, InitBuyInv, InitOrderInv, InitSaleInv, InitBookInv, InitWallet DEF TradeInv
<1>3. TradeInv /\ BookInv /\ WalletFits /\ [Next]_vars
        => (TradeInv /\ BookInv /\ WalletFits)'
  BY <1>1, NextRowsInv, NextBuyInv, NextOrder, NextSale, NextBooks DEF TradeInv
<1> QED
  BY <1>2, <1>3, PTL DEF Spec

\* Books and wallet agree once the orders of a token are settled: there is no buy
\* that nobody monitors and no position that was sold already.
THEOREM BooksMatch ==
  ASSUME Undisturbed
  PROVE  Spec => []BooksBalance
<1>1. TradeInv /\ BookInv /\ WalletFits => BooksBalance
  <2> SUFFICES ASSUME TradeInv, BookInv, WalletFits, NEW t \in Token,
                      \A e \in {f \in Event : TokenOf[f] = t} : Settled(e)
               PROVE  wallet[t] =
                        Lot * Cardinality({e \in {f \in Event : TokenOf[f] = t} : Held(e)})
    BY DEF BooksBalance
  <2>1. ASSUME NEW e \in Event, TokenOf[e] = t
        PROVE  Held(e) <=> Paid(e) /\ ~Gone(e)
    <3>1. Settled(e)
      BY <2>1
    <3> QED
      BY <3>1 DEF Held, Settled, Paid, Gone, BookInv, PositionsPaid, BuysTracked, ClosedGone,
        Side,
         TradeInv, RowsInv, TypeOK, StoreTypeOK, PositionStatus
  <2>2. {e \in {f \in Event : TokenOf[f] = t} : Held(e)} = Owned(t)
    BY <2>1 DEF Owned
  <2> QED
    BY <2>2 DEF WalletFits
<1> QED
  BY <1>1, BooksInvariant, PTL

=============================================================================
