------------------------- MODULE TradingWorkerProofs ------------------------
(***************************************************************************)
(* Proofs about the trading worker, for any number of events, tokens and   *)
(* positions and for every fault of the environment.                       *)
(***************************************************************************)
EXTENDS TradingWorker, TLAPS

USE DEF store, signals, orders, positions, state, chain, work, vars

-----------------------------------------------------------------------------
(* Type correctness.                                                       *)

LEMMA TouchType ==
  ASSUME NEW e \in Event, older \in SUBSET (Event \X Event), Touch(e)
  PROVE  older' \in SUBSET (Event \X Event)
BY DEF Touch, OpenPositions

LEMMA InitType == Init => TypeOK
BY StoreAssumption DEF Init, StoreInit, ChainInit, TypeOK, StoreTypeOK, ChainTypeOK,
   Event, Side, SignalStatus, OrderStatus, PositionStatus, LastError, TxStatus, Label

LEMMA AcceptType ==
  ASSUME TypeOK, NEW e \in Event, AcceptSignal(e), UNCHANGED <<chain, work>>
  PROVE  TypeOK'
BY DEF TypeOK, StoreTypeOK, ChainTypeOK, AcceptSignal, SetSignal, SignalStatus, LastError

LEMMA ChainType ==
  ASSUME TypeOK, ChainNext, UNCHANGED <<store, work>>
  PROVE  TypeOK'
<1> USE ChainAssumption DEF TypeOK, StoreTypeOK, ChainTypeOK
<1>1. CASE \E e \in Event : MineBuy(e)
  BY <1>1 DEF MineBuy, TxStatus, Lot, Side
<1>2. CASE \E e \in Event : MineSell(e)
  BY <1>2 DEF MineSell, TxStatus, Lot, Side
<1>3. CASE \E s \in Side, e \in Event : MineRevert(s, e)
  BY <1>3 DEF MineRevert, TxStatus
<1>4. CASE \E e \in Event : Expire(e)
  BY <1>4 DEF Expire
<1>5. CASE \E s \in Side, e \in Event : Publish(s, e)
  BY <1>5 DEF Publish, TxStatus
<1>6. CASE \E s \in Side, e \in Event : Drop(s, e)
  BY <1>6 DEF Drop, TxStatus
<1>7. CASE \E t \in Token : ManualSell(t)
  BY <1>7 DEF ManualSell
<1> QED
  BY <1>1, <1>2, <1>3, <1>4, <1>5, <1>6, <1>7 DEF ChainNext, Mine

LEMMA ReconcileType ==
  ASSUME TypeOK, Reconcile
  PROVE  TypeOK'
<1> USE StoreAssumption DEF TypeOK, StoreTypeOK, ChainTypeOK, Side, SignalStatus, OrderStatus,
         PositionStatus, LastError, TxStatus, Label
<1>1. CASE \E e \in Event : CloseEmpty(e)
  BY <1>1 DEF CloseEmpty, Candidate, Active, SetPosition, SetSignal, ClearExitTracking
<1>2. CASE \E e \in Event : ReopenZeroQuote(e)
  BY TouchType, <1>2 DEF ReopenZeroQuote, Candidate, Active, Reopens, SetSignal
<1>3. CASE \E e \in Event : HoldMismatch(e)
  BY <1>3 DEF HoldMismatch, Candidate, Active, SetPosition, SetSignal
<1> QED
  BY <1>1, <1>2, <1>3 DEF Reconcile

LEMMA BuyType ==
  ASSUME TypeOK, Buy
  PROVE  TypeOK'
<1> USE StoreAssumption DEF TypeOK, StoreTypeOK, ChainTypeOK, Side, SignalStatus, OrderStatus,
         PositionStatus, LastError, TxStatus, Label
<1>1. CASE BuyRecover
  BY <1>1 DEF BuyRecover, BuysInFlight, WithStatus, IsOldest, Take
<1>2. CASE BuyIdle
  BY <1>2 DEF BuyIdle, SellNext
<1>3. CASE \E e \in Event : BuyExpired(e)
  BY <1>3 DEF BuyExpired, SetSignal, EndRound
<1>4. CASE \E e \in Event : BuySkipped(e)
  BY <1>4 DEF BuySkipped, SetSignal, SellNext
<1>5. CASE \E e \in Event : BuyStart(e)
  BY <1>5 DEF BuyStart, Take
<1> QED
  BY <1>1, <1>2, <1>3, <1>4, <1>5 DEF Buy

LEMMA SellType ==
  ASSUME TypeOK, Sell
  PROVE  TypeOK'
<1> USE StoreAssumption DEF TypeOK, StoreTypeOK, ChainTypeOK, Side, SignalStatus, OrderStatus,
         PositionStatus, LastError, TxStatus, Label
<1>1. CASE SellRecover
  BY <1>1 DEF SellRecover, SellsInFlight, WithStatus, IsOldest, Take
<1>2. CASE SellIdle
  BY <1>2 DEF SellIdle, EndRound
<1>3. CASE SellStart
  BY <1>3 DEF SellStart, Take
<1>4. CASE SellHold
  BY <1>4 DEF SellHold, Goto
<1>5. CASE TouchHeld
  BY TouchType, <1>5 DEF TouchHeld, EndRound
<1>6. CASE SellExit
  BY <1>6 DEF SellExit, Goto
<1>7. CASE SellCreate
  BY <1>7 DEF SellCreate, Goto
<1> QED
  BY <1>1, <1>2, <1>3, <1>4, <1>5, <1>6, <1>7 DEF Sell

LEMMA SubmitType ==
  ASSUME TypeOK, Submit
  PROVE  TypeOK'
<1> USE StoreAssumption DEF TypeOK, StoreTypeOK, ChainTypeOK, Side, SignalStatus, OrderStatus,
         PositionStatus, LastError, TxStatus, Label
<1>1. CASE BuyQuoted
  BY <1>1 DEF BuyQuoted, CreateOrder, Goto
<1>2. CASE MarkPending
  BY <1>2 DEF MarkPending, SetStatus, SetSignal, Pending, Goto
<1>3. CASE Sign
  BY <1>3 DEF Sign, UpdateOrderHash, Goto
<1>4. CASE Broadcast
  BY <1>4 DEF Broadcast, Goto
<1>5. CASE BroadcastError
  BY <1>5 DEF BroadcastError, Goto
<1>6. CASE BroadcastMismatch
  BY <1>6 DEF BroadcastMismatch, UpdateOrder, Settle, CountFailure, Goto
<1>7. CASE ProbeFound
  BY <1>7 DEF ProbeFound, Goto
<1>8. CASE ProbeUnknown
  BY <1>8 DEF ProbeUnknown, UpdateOrder, Settle, Submitted
<1>9. CASE OrderSubmitted
  BY <1>9 DEF OrderSubmitted, UpdateOrder, Goto
<1>10. CASE MarkSubmitted
  BY <1>10 DEF MarkSubmitted, SetStatus, Submitted, Goto
<1>11. CASE Bought
  BY TouchType, <1>11 DEF Bought, FinalizeBuy, UpdateOrder, OpenPosition, SetSignal, EndRound
<1>12. CASE Sold
  BY <1>12 DEF Sold, FinalizeSell, MarkSellOutputUnknown, UpdateOrder, SetPosition, SetSignal,
    ClearExitTracking, EndRound
<1> QED
  BY <1>1, <1>2, <1>3, <1>4, <1>5, <1>6, <1>7, <1>8, <1>9, <1>10, <1>11, <1>12 DEF Submit

LEMMA HandleType ==
  ASSUME TypeOK, Handle
  PROVE  TypeOK'
<1> USE StoreAssumption DEF TypeOK, StoreTypeOK, ChainTypeOK, Side, SignalStatus, OrderStatus,
         PositionStatus, LastError, TxStatus, Label
<1>1. CASE ReceiptTimeout
  BY <1>1 DEF ReceiptTimeout, UpdateOrder, Settle, Submitted
<1>2. CASE RpcFailure
  BY TouchType, <1>2 DEF RpcFailure, UpdateOrder, Settle, Submitted, Retry
<1>3. CASE FailBuy
  BY <1>3 DEF FailBuy, UpdateOrder, Settle
<1>4. CASE FailSell
  BY <1>4 DEF FailSell, CountFailure, Goto
<1>5. CASE TallyFailure
  BY TouchType, <1>5 DEF TallyFailure, SetPosition
<1>6. CASE FailOrder
  BY <1>6 DEF FailOrder, UpdateOrder, Goto
<1>7. CASE SettleSignal
  BY <1>7 DEF SettleSignal, SetSignal, EndRound
<1>8. CASE ApprovalPending
  BY TouchType, <1>8 DEF ApprovalPending, SetSignal, Retry, EndRound
<1>9. CASE ZeroQuote
  BY TouchType, <1>9 DEF ZeroQuote, SetSignal, EndRound
<1> QED
  BY <1>1, <1>2, <1>3, <1>4, <1>5, <1>6, <1>7, <1>8, <1>9 DEF Handle

LEMMA RecoverType ==
  ASSUME TypeOK, Recover
  PROVE  TypeOK'
<1> USE StoreAssumption DEF TypeOK, StoreTypeOK, ChainTypeOK, Side, SignalStatus, OrderStatus,
         PositionStatus, LastError, TxStatus, Label
<1>1. CASE RecoverUnsigned
  BY TouchType, <1>1 DEF RecoverUnsigned, Recovering, SetSignal, Retry, EndRound
<1>2. CASE RecoverNothing
  BY <1>2 DEF RecoverNothing, Return, SellNext, EndRound
<1>3. CASE RecoverPending
  BY <1>3 DEF RecoverPending, Return, SellNext, EndRound
<1>4. CASE RecoverNotFound
  BY <1>4 DEF RecoverNotFound, Recovering, UpdateOrder, SetSignal, EndRound
<1>5. CASE RecoverReverted
  BY <1>5 DEF RecoverReverted, Recovering, UpdateOrder, Settle
<1>6. CASE RecoverBought
  BY TouchType, <1>6, SMTT(30)
     DEF RecoverBought, Recovering, FinalizeBuy, UpdateOrder, OpenPosition,
    SetSignal, EndRound
<1>7. CASE RecoverSold
  BY <1>7 DEF RecoverSold, Recovering, FinalizeSell, MarkSellOutputUnknown, UpdateOrder,
    SetPosition, SetSignal, ClearExitTracking, EndRound
<1>8. CASE RecoverError
  BY <1>8 DEF RecoverError, EndRound
<1> QED
  BY <1>1, <1>2, <1>3, <1>4, <1>5, <1>6, <1>7, <1>8 DEF Recover

LEMMA NextType == TypeOK /\ [Next]_vars => TypeOK'
<1> SUFFICES ASSUME TypeOK, [Next]_vars PROVE TypeOK'
  OBVIOUS
<1>1. CASE WorkerStep
  BY <1>1, ReconcileType, BuyType, SellType, SubmitType, HandleType, RecoverType DEF WorkerStep
<1>2. CASE Stop
  BY <1>2 DEF Stop, EndRound, TypeOK, StoreTypeOK, ChainTypeOK, Side, SignalStatus, Label
<1>3. CASE UNCHANGED <<store, work>> /\ ChainNext
  BY <1>3, ChainType
<1>4. CASE UNCHANGED <<chain, work>> /\ \E e \in Event : AcceptSignal(e)
  BY <1>4, AcceptType
<1>5. CASE UNCHANGED vars
  BY <1>5 DEF TypeOK, StoreTypeOK, ChainTypeOK
<1> QED
  BY <1>1, <1>2, <1>3, <1>4, <1>5 DEF Next

\* Every column, status and label has its type, whatever the worker does.
THEOREM TypeCorrect == Spec => []TypeOK
BY InitType, NextType, PTL DEF Spec

-----------------------------------------------------------------------------
(***************************************************************************)
(* Every event is bought at most once.  That needs to know, wherever a BUY *)
(* may be signed or sent back to where it may, that it has no hash:        *)
(* - a hash is there from the signing of the first transaction on;         *)
(* - a signal that is RECEIVED, or about to be set back to RECEIVED, has   *)
(*   a BUY without a hash, and so has the BUY that is built;               *)
(* - while a BUY is built its signal is not RECEIVED any more;             *)
(* - and no handler of a sell ends up with the status of a new signal.     *)
(***************************************************************************)

HashIsSigned == \A e \in Event : e \in hashed["BUY"] <=> tx["BUY"][e] # "none"
ReceivedIsUnsigned ==
  \A e \in Event : signal[e] \in {"ABSENT", "RECEIVED"} => e \notin hashed["BUY"]
BuildsUnsigned ==
  side = "BUY" /\ pc \in {"quote", "pend", "build"} => ev \notin hashed["BUY"]
BuildsPending == side = "BUY" /\ pc = "build" => signal[ev] = "BUY_PENDING"
SendsHashed == side = "BUY" /\ pc = "send" => ev \in hashed["BUY"]
RetriesUnsigned ==
  pc = "settle" /\ goal \in {"ABSENT", "RECEIVED"} => side = "BUY" /\ ev \notin hashed["BUY"]
SellLabels == pc \in {"create", "tally", "fail"} => side = "SELL"
FailsToOpenOrStuck == pc = "fail" => goal \in {"OPEN", "POSITION_STUCK"}

BuyInv ==
  /\ TypeOK
  /\ HashIsSigned
  /\ ReceivedIsUnsigned
  /\ BuildsUnsigned
  /\ BuildsPending
  /\ SendsHashed
  /\ RetriesUnsigned
  /\ SellLabels
  /\ FailsToOpenOrStuck

LEMMA InitBuyInv == Init => BuyInv
BY InitType DEF BuyInv, HashIsSigned, ReceivedIsUnsigned, BuildsUnsigned, BuildsPending,
   SendsHashed, RetriesUnsigned, SellLabels, FailsToOpenOrStuck, Init, StoreInit, ChainInit, Side

LEMMA ReconcileBuyInv ==
  ASSUME BuyInv, Reconcile
  PROVE  BuyInv'
<1>1. TypeOK'
  BY ReconcileType DEF BuyInv
<1> USE <1>1 DEF BuyInv, HashIsSigned, ReceivedIsUnsigned, BuildsUnsigned, BuildsPending,
         SendsHashed, RetriesUnsigned, SellLabels, FailsToOpenOrStuck,
         TypeOK, StoreTypeOK, ChainTypeOK, Side
<1>2. CASE \E e \in Event : CloseEmpty(e)
  BY <1>2 DEF CloseEmpty, Candidate, SetSignal
<1>3. CASE \E e \in Event : ReopenZeroQuote(e)
  BY <1>3 DEF ReopenZeroQuote, Candidate, SetSignal
<1>4. CASE \E e \in Event : HoldMismatch(e)
  BY <1>4 DEF HoldMismatch, Candidate, SetSignal
<1> QED
  BY <1>2, <1>3, <1>4 DEF Reconcile

LEMMA BuyBuyInv ==
  ASSUME BuyInv, Buy
  PROVE  BuyInv'
<1>1. TypeOK'
  BY BuyType DEF BuyInv
<1> USE <1>1 DEF BuyInv, HashIsSigned, ReceivedIsUnsigned, BuildsUnsigned, BuildsPending,
         SendsHashed, RetriesUnsigned, SellLabels, FailsToOpenOrStuck,
         TypeOK, StoreTypeOK, ChainTypeOK, Side
<1>2. CASE BuyRecover
  BY <1>2 DEF BuyRecover, Take
<1>3. CASE BuyIdle
  BY <1>3 DEF BuyIdle, SellNext
<1>4. CASE \E e \in Event : BuyExpired(e)
  BY <1>4 DEF BuyExpired, NextBuy, SetSignal, EndRound
<1>5. CASE \E e \in Event : BuySkipped(e)
  BY <1>5 DEF BuySkipped, NextBuy, SetSignal, SellNext
<1>6. CASE \E e \in Event : BuyStart(e)
  BY <1>6 DEF BuyStart, NextBuy, IsOldest, Received, WithStatus, Take
<1> QED
  BY <1>2, <1>3, <1>4, <1>5, <1>6 DEF Buy

LEMMA SellBuyInv ==
  ASSUME BuyInv, Sell
  PROVE  BuyInv'
<1>1. TypeOK'
  BY SellType DEF BuyInv
<1> USE <1>1 DEF BuyInv, HashIsSigned, ReceivedIsUnsigned, BuildsUnsigned, BuildsPending,
         SendsHashed, RetriesUnsigned, SellLabels, FailsToOpenOrStuck,
         TypeOK, StoreTypeOK, ChainTypeOK, Side
<1>2. CASE SellRecover
  BY <1>2 DEF SellRecover, Take
<1>3. CASE SellIdle
  BY <1>3 DEF SellIdle, EndRound
<1>4. CASE SellStart
  BY <1>4 DEF SellStart, Take
<1>5. CASE SellHold
  BY <1>5 DEF SellHold, Goto
<1>6. CASE TouchHeld
  BY <1>6 DEF TouchHeld, EndRound
<1>7. CASE SellExit
  BY <1>7 DEF SellExit, Goto
<1>8. CASE SellCreate
  BY <1>8 DEF SellCreate, Goto
<1> QED
  BY <1>2, <1>3, <1>4, <1>5, <1>6, <1>7, <1>8 DEF Sell

LEMMA SubmitBuyInv ==
  ASSUME BuyInv, Submit
  PROVE  BuyInv'
<1>1. TypeOK'
  BY SubmitType DEF BuyInv
<1> USE <1>1 DEF BuyInv, HashIsSigned, ReceivedIsUnsigned, BuildsUnsigned, BuildsPending,
         SendsHashed, RetriesUnsigned, SellLabels, FailsToOpenOrStuck,
         TypeOK, StoreTypeOK, ChainTypeOK, Side
<1>2. CASE BuyQuoted
  BY <1>2 DEF BuyQuoted, CreateOrder, Goto
<1>3. CASE MarkPending
  BY <1>3 DEF MarkPending, SetStatus, SetSignal, Pending, Goto
<1>4. CASE Sign
  BY <1>4 DEF Sign, UpdateOrderHash, Goto
<1>5. CASE Broadcast
  BY <1>5 DEF Broadcast, Goto
<1>6. CASE BroadcastError
  BY <1>6 DEF BroadcastError, Goto
<1>7. CASE BroadcastMismatch
  BY <1>7 DEF BroadcastMismatch, UpdateOrder, Settle, Goto
<1>8. CASE ProbeFound
  BY <1>8 DEF ProbeFound, Goto
<1>9. CASE ProbeUnknown
  BY <1>9 DEF ProbeUnknown, UpdateOrder, Settle, Submitted
<1>10. CASE OrderSubmitted
  BY <1>10 DEF OrderSubmitted, UpdateOrder, Goto
<1>11. CASE MarkSubmitted
  BY <1>11 DEF MarkSubmitted, SetStatus, Submitted, Goto
<1>12. CASE Bought
  BY <1>12 DEF Bought, FinalizeBuy, UpdateOrder, SetSignal, EndRound
<1>13. CASE Sold
  BY <1>13 DEF Sold, FinalizeSell, MarkSellOutputUnknown, UpdateOrder, SetSignal, EndRound
<1> QED
  BY <1>2, <1>3, <1>4, <1>5, <1>6, <1>7, <1>8, <1>9, <1>10, <1>11, <1>12, <1>13 DEF Submit

LEMMA HandleBuyInv ==
  ASSUME BuyInv, Handle
  PROVE  BuyInv'
<1>1. TypeOK'
  BY HandleType DEF BuyInv
<1> USE <1>1 DEF BuyInv, HashIsSigned, ReceivedIsUnsigned, BuildsUnsigned, BuildsPending,
         SendsHashed, RetriesUnsigned, SellLabels, FailsToOpenOrStuck,
         TypeOK, StoreTypeOK, ChainTypeOK, Side
<1>2. CASE ReceiptTimeout
  BY <1>2 DEF ReceiptTimeout, UpdateOrder, Settle, Submitted
<1>3. CASE RpcFailure
  BY <1>3 DEF RpcFailure, UpdateOrder, Settle, Submitted, Retry
<1>4. CASE FailBuy
  BY <1>4 DEF FailBuy, UpdateOrder, Settle
<1>5. CASE FailSell
  BY <1>5 DEF FailSell, Goto
<1>6. CASE TallyFailure
  BY <1>6 DEF TallyFailure
<1>7. CASE FailOrder
  BY <1>7 DEF FailOrder, UpdateOrder, Goto
<1>8. CASE SettleSignal
  BY <1>8 DEF SettleSignal, SetSignal, EndRound
<1>9. CASE ApprovalPending
  BY <1>9 DEF ApprovalPending, SetSignal, Retry, EndRound
<1>10. CASE ZeroQuote
  BY <1>10 DEF ZeroQuote, SetSignal, EndRound
<1> QED
  BY <1>2, <1>3, <1>4, <1>5, <1>6, <1>7, <1>8, <1>9, <1>10 DEF Handle

LEMMA RecoverBuyInv ==
  ASSUME BuyInv, Recover
  PROVE  BuyInv'
<1>1. TypeOK'
  BY RecoverType DEF BuyInv
<1> USE <1>1 DEF BuyInv, HashIsSigned, ReceivedIsUnsigned, BuildsUnsigned, BuildsPending,
         SendsHashed, RetriesUnsigned, SellLabels, FailsToOpenOrStuck,
         TypeOK, StoreTypeOK, ChainTypeOK, Side
<1>2. CASE RecoverUnsigned
  BY <1>2 DEF RecoverUnsigned, Unsigned, SetSignal, Retry, EndRound
<1>3. CASE RecoverNothing
  BY <1>3 DEF RecoverNothing, Return, SellNext, EndRound
<1>4. CASE RecoverPending
  BY <1>4 DEF RecoverPending, Return, SellNext, EndRound
<1>5. CASE RecoverNotFound
  BY <1>5 DEF RecoverNotFound, UpdateOrder, SetSignal, EndRound
<1>6. CASE RecoverReverted
  BY <1>6 DEF RecoverReverted, UpdateOrder, Settle
<1>7. CASE RecoverBought
  BY <1>7 DEF RecoverBought, FinalizeBuy, UpdateOrder, SetSignal, EndRound
<1>8. CASE RecoverSold
  BY <1>8 DEF RecoverSold, FinalizeSell, MarkSellOutputUnknown, UpdateOrder, SetSignal, EndRound
<1>9. CASE RecoverError
  BY <1>9 DEF RecoverError, EndRound
<1> QED
  BY <1>2, <1>3, <1>4, <1>5, <1>6, <1>7, <1>8, <1>9 DEF Recover

LEMMA ChainBuyInv ==
  ASSUME BuyInv, ChainNext, UNCHANGED <<store, work>>
  PROVE  BuyInv'
<1>1. TypeOK'
  BY ChainType DEF BuyInv
<1>2. HashIsSigned'
  BY DEF ChainNext, Mine, MineBuy, MineSell, MineRevert, Expire, Publish, Drop, ManualSell,
     BuyInv, HashIsSigned, TypeOK, ChainTypeOK, Side
<1> QED
  BY <1>1, <1>2 DEF BuyInv, ReceivedIsUnsigned, BuildsUnsigned, BuildsPending, SendsHashed,
     RetriesUnsigned, SellLabels, FailsToOpenOrStuck

LEMMA NextBuyInv == BuyInv /\ [Next]_vars => BuyInv'
<1> SUFFICES ASSUME BuyInv, [Next]_vars PROVE BuyInv'
  OBVIOUS
<1>1. TypeOK'
  BY NextType DEF BuyInv
<1> USE <1>1 DEF BuyInv, HashIsSigned, ReceivedIsUnsigned, BuildsUnsigned, BuildsPending,
         SendsHashed, RetriesUnsigned, SellLabels, FailsToOpenOrStuck
<1>2. CASE WorkerStep
  BY <1>2, ReconcileBuyInv, BuyBuyInv, SellBuyInv, SubmitBuyInv, HandleBuyInv, RecoverBuyInv
     DEF WorkerStep
<1>3. CASE Stop
  BY <1>3 DEF Stop, EndRound
<1>4. CASE UNCHANGED <<store, work>> /\ ChainNext
  BY <1>4, ChainBuyInv
<1>5. CASE UNCHANGED <<chain, work>> /\ \E e \in Event : AcceptSignal(e)
  BY <1>5 DEF AcceptSignal, SetSignal, TypeOK, StoreTypeOK
<1>6. CASE UNCHANGED vars
  BY <1>6
<1> QED
  BY <1>2, <1>3, <1>4, <1>5, <1>6 DEF Next

\* The inductive invariant above: a hash stays with its BUY for good, and what
\* may still be signed has none.
THEOREM BuyInvariant == Spec => []BuyInv
BY InitBuyInv, NextBuyInv, PTL DEF Spec

\* A step that signs is Sign.
LEMMA OnlySignSigns ==
  ASSUME TypeOK, [Next]_vars, NEW s \in Side, NEW e \in Event,
         tx[s][e] # "signed", tx'[s][e] = "signed"
  PROVE  Sign /\ side = s /\ ev = e
<1> USE DEF TypeOK, ChainTypeOK, Side
<1>1. tx' # tx
  OBVIOUS
<1>2. CASE Submit
  <2>1. CASE Broadcast \/ BroadcastError \/ BroadcastMismatch
    BY <2>1 DEF Broadcast, BroadcastError, BroadcastMismatch
  <2>2. Broadcast \/ BroadcastError \/ BroadcastMismatch \/ Sign
    BY <1>1, <1>2 DEF Submit, BuyQuoted, MarkPending, ProbeFound, ProbeUnknown, OrderSubmitted,
       MarkSubmitted, Bought, Sold, FinalizeBuy, FinalizeSell, MarkSellOutputUnknown
  <2> QED
    BY <2>1, <2>2 DEF Sign
<1>3. CASE Reconcile
  BY <1>1, <1>3 DEF Reconcile, CloseEmpty, ReopenZeroQuote, HoldMismatch
<1>4. CASE Buy
  BY <1>1, <1>4 DEF Buy, BuyRecover, BuyIdle, BuyExpired, BuySkipped, BuyStart
<1>5. CASE Sell
  BY <1>1, <1>5 DEF Sell, SellRecover, SellIdle, SellStart, SellHold, TouchHeld, SellExit,
    SellCreate
<1>6. CASE Handle
  BY <1>1, <1>6 DEF Handle, ReceiptTimeout, RpcFailure, FailBuy, FailSell, TallyFailure,
    FailOrder,
     SettleSignal, ApprovalPending, ZeroQuote
<1>7. CASE Recover
  BY <1>1, <1>7 DEF Recover, RecoverUnsigned, RecoverNothing, RecoverPending, RecoverNotFound,
     RecoverReverted, RecoverBought, RecoverSold, RecoverError, FinalizeBuy, FinalizeSell,
     MarkSellOutputUnknown
<1>8. CASE Stop
  BY <1>1, <1>8 DEF Stop
<1>9. CASE ChainNext
  BY <1>9 DEF ChainNext, Mine, MineBuy, MineSell, MineRevert, Expire, Publish, Drop, ManualSell
<1> QED
  BY <1>1, <1>2, <1>3, <1>4, <1>5, <1>6, <1>7, <1>8, <1>9 DEF Next, WorkerStep

LEMMA StepSignsOnce ==
  BuyInv /\ [Next]_vars =>
    \A e \in Event :
      tx["BUY"][e] # "signed" /\ tx'["BUY"][e] = "signed" => tx["BUY"][e] = "none"
<1> SUFFICES ASSUME BuyInv, [Next]_vars, NEW e \in Event,
                    tx["BUY"][e] # "signed", tx'["BUY"][e] = "signed"
             PROVE  tx["BUY"][e] = "none"
  OBVIOUS
<1>1. Sign /\ side = "BUY" /\ ev = e
  BY OnlySignSigns DEF BuyInv, Side
<1> QED
  BY <1>1 DEF BuyInv, Sign, BuildsUnsigned, HashIsSigned

\* No event is bought twice: a BUY is signed at most once, whatever fails, stops
\* or recovers.
THEOREM BuyOnce == Spec => BuySignedOnce
<1>1. BuyInv /\ [Next]_vars =>
        [\A e \in Event :
          tx["BUY"][e] # "signed" /\ tx'["BUY"][e] = "signed" => tx["BUY"][e] = "none"]_vars
  BY StepSignsOnce
<1> QED
  BY <1>1, BuyInvariant, PTL DEF Spec, BuySignedOnce

=============================================================================
