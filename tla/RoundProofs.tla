---------------------------- MODULE RoundProofs -----------------------------
(***************************************************************************)
(* What a round leaves behind if every handler gets to its last commit,    *)
(* for any number of events, tokens, positions and attempts.               *)
(***************************************************************************)
EXTENDS SettlementProofs

USE DEF store, signals, orders, positions, state, chain, work, vars

\* No process stops between two commits of a handler, and no exception gets past
\* the handlers of worker.py.
NeverStops == "stop" \notin Faults

-----------------------------------------------------------------------------
(***************************************************************************)
(* Every signal that waits for an order has one that can be recovered.     *)
(* This is only untrue of the event in hand, from the building of another  *)
(* transaction for its order, or a handler's first commit, to its last.    *)
(***************************************************************************)
Waits(e) ==
  IF signal[e] \in {"BUY_PENDING", "BUY_SUBMITTED"} THEN {"BUY"}
  ELSE IF signal[e] \in {"SELL_PENDING", "SELL_SUBMITTED"} THEN {"SELL"}
  ELSE {}

RecoveryFits(s, e) == Unsigned(s, e) \/ Recoverable(s, e)

InHand(e) == ev = e /\ pc \in {"build", "tally", "fail", "settle"}

SignalsRecover == \A e \in Event : \A s \in Waits(e) : RecoveryFits(s, e) \/ InHand(e)

\* A handler ends with a signal that waits only for what can be recovered.
GoalRecovers == pc = "settle" /\ goal = Submitted => RecoveryFits(side, ev)

RoundInv == SignalsRecover /\ GoalRecovers

LEMMA InitRoundInv == Init => RoundInv
BY DEF RoundInv, SignalsRecover, GoalRecovers, Waits, Init, StoreInit

LEMMA ReconcileRound ==
  ASSUME RowsInv, OrderInv, RoundInv, Reconcile
  PROVE  RoundInv'
<1> USE DEF RoundInv, SignalsRecover, GoalRecovers, Waits, RecoveryFits, InHand, Unsigned,
     Recoverable, Submitted, RowsInv, OrderInv, HashFits, OrderFits, SignalFitsPosition,
     WorkFits, GoalFits, SideFits, BuysInFlight, WithStatus, BeforeHeld, TypeOK, StoreTypeOK,
     ChainTypeOK, Side, SignalStatus, OrderStatus, InFlight, Label
<1>1. CASE \E e \in Event : CloseEmpty(e)
  BY <1>1 DEF CloseEmpty, Candidate, SetPosition, SetSignal, ClearExitTracking
<1>2. CASE \E e \in Event : ReopenZeroQuote(e)
  BY <1>2 DEF ReopenZeroQuote, Candidate, Reopens, SetSignal
<1>3. CASE \E e \in Event : HoldMismatch(e)
  BY <1>3 DEF HoldMismatch, Candidate, SetPosition, SetSignal
<1> QED
  BY <1>1, <1>2, <1>3 DEF Reconcile

LEMMA BuyRound ==
  ASSUME RowsInv, OrderInv, RoundInv, Buy
  PROVE  RoundInv'
<1> USE DEF RoundInv, SignalsRecover, GoalRecovers, Waits, RecoveryFits, InHand, Unsigned,
     Recoverable, Submitted, RowsInv, OrderInv, HashFits, OrderFits, SignalFitsPosition,
     WorkFits, GoalFits, SideFits, BuysInFlight, WithStatus, BeforeHeld, TypeOK, StoreTypeOK,
     ChainTypeOK, Side, SignalStatus, OrderStatus, InFlight, Label
<1>1. CASE BuyRecover
  BY <1>1 DEF BuyRecover, IsOldest, Take
<1>2. CASE BuyIdle
  BY <1>2 DEF BuyIdle, SellNext
<1>3. CASE \E e \in Event : BuyExpired(e)
  BY <1>3 DEF BuyExpired, NextBuy, IsOldest, Received, SetSignal, EndRound
<1>4. CASE \E e \in Event : BuySkipped(e)
  BY <1>4 DEF BuySkipped, NextBuy, IsOldest, Received, SetSignal, SellNext
<1>5. CASE \E e \in Event : BuyStart(e)
  BY <1>5 DEF BuyStart, NextBuy, IsOldest, Received, Take
<1> QED
  BY <1>1, <1>2, <1>3, <1>4, <1>5 DEF Buy

LEMMA SellRound ==
  ASSUME RowsInv, OrderInv, RoundInv, Sell
  PROVE  RoundInv'
<1> USE DEF RoundInv, SignalsRecover, GoalRecovers, Waits, RecoveryFits, InHand, Unsigned,
     Recoverable, Submitted, RowsInv, OrderInv, HashFits, OrderFits, SignalFitsPosition,
     WorkFits, GoalFits, SideFits, BuysInFlight, WithStatus, BeforeHeld, TypeOK, StoreTypeOK,
     ChainTypeOK, Side, SignalStatus, OrderStatus, InFlight, Label
<1>1. CASE SellRecover
  BY <1>1 DEF SellRecover, SellsInFlight, IsOldest, Take
<1>2. CASE SellIdle
  BY <1>2 DEF SellIdle, EndRound
<1>3. CASE SellStart
  BY <1>3 DEF SellStart, IsStalest, OpenPositions, SellsInFlight, Take
<1>4. CASE SellHold
  BY <1>4 DEF SellHold, Goto
<1>5. CASE TouchHeld
  BY <1>5 DEF TouchHeld, EndRound
<1>6. CASE SellExit
  BY <1>6 DEF SellExit, Goto
<1>7. CASE SellCreate
  BY <1>7 DEF SellCreate, Goto
<1> QED
  BY <1>1, <1>2, <1>3, <1>4, <1>5, <1>6, <1>7 DEF Sell

LEMMA SubmitRound ==
  ASSUME RowsInv, OrderInv, RoundInv, Submit
  PROVE  RoundInv'
<1> USE DEF RoundInv, SignalsRecover, GoalRecovers, Waits, RecoveryFits, InHand, Unsigned,
     Recoverable, Submitted, RowsInv, OrderInv, HashFits, OrderFits, SignalFitsPosition,
     WorkFits, GoalFits, SideFits, BuysInFlight, WithStatus, BeforeHeld, TypeOK, StoreTypeOK,
     ChainTypeOK, Side, SignalStatus, OrderStatus, InFlight, Label
<1>1. CASE BuyQuoted
  BY <1>1 DEF BuyQuoted, CreateOrder, Goto
<1>2. CASE MarkPending
  BY <1>2 DEF MarkPending, SetStatus, SetSignal, Pending, Goto
<1>3. CASE Sign
  BY <1>3 DEF Sign, UpdateOrderHash, Goto
<1>4. CASE Broadcast
  BY <1>4 DEF Broadcast, Goto
<1>5. CASE BroadcastError
  BY <1>5 DEF BroadcastError, Goto
<1>6. CASE BroadcastMismatch
  BY <1>6 DEF BroadcastMismatch, CountFailure, UpdateOrder, Settle, Goto
<1>7. CASE ProbeFound
  BY <1>7 DEF ProbeFound, Goto
<1>8. CASE ProbeUnknown
  BY <1>8 DEF ProbeUnknown, UpdateOrder, Settle, Submitted
<1>9. CASE OrderSubmitted
  BY <1>9 DEF OrderSubmitted, UpdateOrder, Goto
<1>10. CASE MarkSubmitted
  BY <1>10 DEF MarkSubmitted, SetStatus, Submitted, Goto
<1>11. CASE Bought
  BY <1>11 DEF Bought, FinalizeBuy, OpenPosition, UpdateOrder, SetSignal, EndRound
<1>12. CASE Sold
  <2>1. CASE FinalizeSell
    BY <1>12, <2>1 DEF Sold, FinalizeSell, UpdateOrder, SetSignal, EndRound
  <2>2. CASE MarkSellOutputUnknown
    BY <1>12, <2>2 DEF Sold, MarkSellOutputUnknown, UpdateOrder, SetSignal, EndRound
  <2> QED
    BY <1>12, <2>1, <2>2 DEF Sold
<1> QED
  BY <1>1, <1>2, <1>3, <1>4, <1>5, <1>6, <1>7, <1>8, <1>9, <1>10, <1>11, <1>12 DEF Submit

LEMMA HandleRound ==
  ASSUME RowsInv, OrderInv, RoundInv, Handle
  PROVE  RoundInv'
<1> USE DEF RoundInv, SignalsRecover, GoalRecovers, Waits, RecoveryFits, InHand, Unsigned,
     Recoverable, Submitted, RowsInv, OrderInv, HashFits, OrderFits, SignalFitsPosition,
     WorkFits, GoalFits, SideFits, BuysInFlight, WithStatus, BeforeHeld, TypeOK, StoreTypeOK,
     ChainTypeOK, Side, SignalStatus, OrderStatus, InFlight, Label
<1>1. CASE ReceiptTimeout
  BY <1>1 DEF ReceiptTimeout, UpdateOrder, Settle, Submitted
<1>2. CASE RpcFailure
  BY <1>2 DEF RpcFailure, UpdateOrder, Settle, Submitted, Retry
<1>3. CASE FailBuy
  BY <1>3 DEF FailBuy, UpdateOrder, Settle
<1>4. CASE FailSell
  BY <1>4 DEF FailSell, CountFailure, Goto
<1>5. CASE TallyFailure
  BY <1>5 DEF TallyFailure, SetPosition
<1>6. CASE FailOrder
  BY <1>6 DEF FailOrder, UpdateOrder, Goto
<1>7. CASE SettleSignal
  BY <1>7 DEF SettleSignal, SetSignal, EndRound
<1>8. CASE ApprovalPending
  BY <1>8 DEF ApprovalPending, SetSignal, Retry, EndRound
<1>9. CASE ZeroQuote
  BY <1>9 DEF ZeroQuote, SetSignal, EndRound
<1> QED
  BY <1>1, <1>2, <1>3, <1>4, <1>5, <1>6, <1>7, <1>8, <1>9 DEF Handle

LEMMA RecoverRound ==
  ASSUME RowsInv, OrderInv, RoundInv, Recover
  PROVE  RoundInv'
<1> USE DEF RoundInv, SignalsRecover, GoalRecovers, Waits, RecoveryFits, InHand, Unsigned,
     Recoverable, Submitted, RowsInv, OrderInv, HashFits, OrderFits, SignalFitsPosition,
     WorkFits, GoalFits, SideFits, BuysInFlight, WithStatus, BeforeHeld, TypeOK, StoreTypeOK,
     ChainTypeOK, Side, SignalStatus, OrderStatus, InFlight, Label
<1>1. CASE RecoverUnsigned
  BY <1>1 DEF RecoverUnsigned, Recovering, Unsigned, SetSignal, Retry, EndRound
<1>2. CASE RecoverNothing
  BY <1>2 DEF RecoverNothing, Recovering, Return, SellNext, EndRound
<1>3. CASE RecoverPending
  BY <1>3 DEF RecoverPending, Recovering, Return, SellNext, EndRound
<1>4. CASE RecoverNotFound
  BY <1>4 DEF RecoverNotFound, Recovering, Recoverable, Abandoned, NotFound, UpdateOrder,
     SetSignal, EndRound
<1>5. CASE RecoverReverted
  BY <1>5 DEF RecoverReverted, Recovering, UpdateOrder, Settle
<1>6. CASE RecoverBought
  BY <1>6 DEF RecoverBought, Recovering, Recoverable, FinalizeBuy, OpenPosition, UpdateOrder,
     SetSignal, EndRound
<1>7. CASE RecoverSold
  BY <1>7 DEF RecoverSold, Recovering, Recoverable, FinalizeSell, MarkSellOutputUnknown,
     UpdateOrder, SetPosition, SetSignal, ClearExitTracking, EndRound
<1>8. CASE RecoverError
  BY <1>8 DEF RecoverError, EndRound
<1> QED
  BY <1>1, <1>2, <1>3, <1>4, <1>5, <1>6, <1>7, <1>8 DEF Recover

LEMMA NextRound ==
  ASSUME NeverStops, RowsInv, OrderInv, RoundInv, [Next]_vars
  PROVE  RoundInv'
<1> USE DEF RoundInv, SignalsRecover, GoalRecovers, Waits, RecoveryFits, InHand, Unsigned,
     Recoverable, Submitted
<1>1. CASE WorkerStep
  BY <1>1, ReconcileRound, BuyRound, SellRound, SubmitRound, HandleRound, RecoverRound
     DEF WorkerStep
<1>2. CASE Stop
  BY <1>2 DEF Stop, NeverStops
<1>3. CASE UNCHANGED <<store, work>> /\ ChainNext
  BY <1>3
<1>4. CASE UNCHANGED <<chain, work>> /\ \E e \in Event : AcceptSignal(e)
  BY <1>4 DEF AcceptSignal, SetSignal, RowsInv, TypeOK, StoreTypeOK
<1>5. CASE UNCHANGED vars
  BY <1>5
<1> QED
  BY <1>1, <1>2, <1>3, <1>4, <1>5 DEF Next

\* Between rounds every signal that waits for an order has one that
\* recover_submitted can act on, whatever fails: only a process that stops inside a
\* handler leaves one for good.
THEOREM RoundsRecover ==
  ASSUME NeverStops
  PROVE  Spec => []RecoverableBetweenRounds
<1>1. RowsInv /\ OrderInv /\ RoundInv /\ [Next]_vars => (RowsInv /\ OrderInv /\ RoundInv)'
  BY NextRowsInv, NextOrder, NextRound
<1>2. RoundInv => RecoverableBetweenRounds
  BY DEF RoundInv, SignalsRecover, Waits, RecoveryFits, InHand, RecoverableBetweenRounds
<1> QED
  BY <1>1, <1>2, InitRowsInv, InitOrderInv, InitRoundInv, PTL DEF Spec

-----------------------------------------------------------------------------
(***************************************************************************)
(* The limit of attempts.  The count is taken and compared in two commits, *)
(* and a position that is stuck may be opened again only by the reason     *)
(* ZERO_QUOTE, which a third one takes away.                               *)
(***************************************************************************)
OpenMayTry ==
  \A e \in Event :
    position[e] \in {"ABSENT", "OPEN"} => ~Exhausted(e) \/ (ev = e /\ pc = "tally")

StuckForGood ==
  \A e \in Event :
    position[e] = "POSITION_STUCK" /\ lastError[e] = "ZERO_QUOTE"
      => ev = e /\ pc \in {"fail", "settle"}

\* What is tried is open.
TriesOpen ==
  side = "SELL" /\ pc \notin {"sell", "buy", "tally", "fail", "settle", "recover", "recheck"}
    => position[ev] = "OPEN"

LimitInv == OpenMayTry /\ StuckForGood /\ TriesOpen

LEMMA InitLimitInv == Init => LimitInv
BY StoreAssumption DEF LimitInv, OpenMayTry, StuckForGood, TriesOpen, Exhausted, Init, StoreInit

LEMMA ReconcileLimit ==
  ASSUME RowsInv, LimitInv, Reconcile
  PROVE  LimitInv'
<1> USE StoreAssumption DEF LimitInv, OpenMayTry, StuckForGood, TriesOpen, OpenPositions,
     Exhausted, RowsInv, SignalFitsPosition, WorkFits, GoalFits, SideFits, BeforeHeld, TypeOK,
     StoreTypeOK, ChainTypeOK, Side, SignalStatus, PositionStatus, LastError, Label
<1>1. CASE \E e \in Event : CloseEmpty(e)
  BY <1>1 DEF CloseEmpty, Candidate, SetPosition, SetSignal, ClearExitTracking
<1>2. CASE \E e \in Event : ReopenZeroQuote(e)
  BY <1>2 DEF ReopenZeroQuote, Candidate, Reopens, SetSignal
<1>3. CASE \E e \in Event : HoldMismatch(e)
  BY <1>3 DEF HoldMismatch, Candidate, SetPosition, SetSignal
<1> QED
  BY <1>1, <1>2, <1>3 DEF Reconcile

LEMMA BuyLimit ==
  ASSUME RowsInv, LimitInv, Buy
  PROVE  LimitInv'
<1> USE StoreAssumption DEF LimitInv, OpenMayTry, StuckForGood, TriesOpen, OpenPositions,
     Exhausted, RowsInv, SignalFitsPosition, WorkFits, GoalFits, SideFits, BeforeHeld, TypeOK,
     StoreTypeOK, ChainTypeOK, Side, SignalStatus, PositionStatus, LastError, Label
<1>1. CASE BuyRecover
  BY <1>1 DEF BuyRecover, IsOldest, Take
<1>2. CASE BuyIdle
  BY <1>2 DEF BuyIdle, SellNext
<1>3. CASE \E e \in Event : BuyExpired(e)
  BY <1>3 DEF BuyExpired, NextBuy, IsOldest, Received, SetSignal, EndRound
<1>4. CASE \E e \in Event : BuySkipped(e)
  BY <1>4 DEF BuySkipped, NextBuy, IsOldest, Received, SetSignal, SellNext
<1>5. CASE \E e \in Event : BuyStart(e)
  BY <1>5 DEF BuyStart, NextBuy, IsOldest, Received, Take
<1> QED
  BY <1>1, <1>2, <1>3, <1>4, <1>5 DEF Buy

LEMMA SellLimit ==
  ASSUME RowsInv, LimitInv, Sell
  PROVE  LimitInv'
<1> USE StoreAssumption DEF LimitInv, OpenMayTry, StuckForGood, TriesOpen, OpenPositions,
     Exhausted, RowsInv, SignalFitsPosition, WorkFits, GoalFits, SideFits, BeforeHeld, TypeOK,
     StoreTypeOK, ChainTypeOK, Side, SignalStatus, PositionStatus, LastError, Label
<1>1. CASE SellRecover
  BY <1>1 DEF SellRecover, SellsInFlight, IsOldest, Take
<1>2. CASE SellIdle
  BY <1>2 DEF SellIdle, EndRound
<1>3. CASE SellStart
  BY <1>3 DEF SellStart, IsStalest, OpenPositions, SellsInFlight, Take
<1>4. CASE SellHold
  BY <1>4 DEF SellHold, Goto
<1>5. CASE TouchHeld
  BY <1>5 DEF TouchHeld, EndRound
<1>6. CASE SellExit
  BY <1>6 DEF SellExit, Goto
<1>7. CASE SellCreate
  BY <1>7 DEF SellCreate, Goto
<1> QED
  BY <1>1, <1>2, <1>3, <1>4, <1>5, <1>6, <1>7 DEF Sell

LEMMA SubmitLimit ==
  ASSUME RowsInv, LimitInv, Submit
  PROVE  LimitInv'
<1> USE StoreAssumption DEF LimitInv, OpenMayTry, StuckForGood, TriesOpen, OpenPositions,
     Exhausted, RowsInv, SignalFitsPosition, WorkFits, GoalFits, SideFits, BeforeHeld, TypeOK,
     StoreTypeOK, ChainTypeOK, Side, SignalStatus, PositionStatus, LastError, Label
<1>1. CASE BuyQuoted
  BY <1>1 DEF BuyQuoted, CreateOrder, Goto
<1>2. CASE MarkPending
  BY <1>2 DEF MarkPending, SetStatus, SetSignal, Pending, Goto
<1>3. CASE Sign
  BY <1>3 DEF Sign, UpdateOrderHash, Goto
<1>4. CASE Broadcast
  BY <1>4 DEF Broadcast, Goto
<1>5. CASE BroadcastError
  BY <1>5 DEF BroadcastError, Goto
<1>6. CASE BroadcastMismatch
  BY <1>6 DEF BroadcastMismatch, CountFailure, UpdateOrder, Settle, Goto
<1>7. CASE ProbeFound
  BY <1>7 DEF ProbeFound, Goto
<1>8. CASE ProbeUnknown
  BY <1>8 DEF ProbeUnknown, UpdateOrder, Settle, Submitted
<1>9. CASE OrderSubmitted
  BY <1>9 DEF OrderSubmitted, UpdateOrder, Goto
<1>10. CASE MarkSubmitted
  BY <1>10 DEF MarkSubmitted, SetStatus, Submitted, Goto
<1>11. CASE Bought
  BY <1>11 DEF Bought, FinalizeBuy, OpenPosition, UpdateOrder, SetSignal, EndRound
<1>12. CASE Sold
  BY <1>12 DEF Sold, FinalizeSell, MarkSellOutputUnknown, UpdateOrder, SetPosition, SetSignal,
     ClearExitTracking, EndRound
<1> QED
  BY <1>1, <1>2, <1>3, <1>4, <1>5, <1>6, <1>7, <1>8, <1>9, <1>10, <1>11, <1>12 DEF Submit

LEMMA HandleLimit ==
  ASSUME RowsInv, LimitInv, Handle
  PROVE  LimitInv'
<1> USE StoreAssumption DEF LimitInv, OpenMayTry, StuckForGood, TriesOpen, OpenPositions,
     Exhausted, RowsInv, SignalFitsPosition, WorkFits, GoalFits, SideFits, BeforeHeld, TypeOK,
     StoreTypeOK, ChainTypeOK, Side, SignalStatus, PositionStatus, LastError, Label
<1>1. CASE ReceiptTimeout
  BY <1>1 DEF ReceiptTimeout, UpdateOrder, Settle, Submitted
<1>2. CASE RpcFailure
  BY <1>2 DEF RpcFailure, UpdateOrder, Settle, Submitted, Retry
<1>3. CASE FailBuy
  BY <1>3 DEF FailBuy, UpdateOrder, Settle
<1>4. CASE FailSell
  BY <1>4 DEF FailSell, CountFailure, Goto
<1>5. CASE TallyFailure
  BY <1>5 DEF TallyFailure, SetPosition
<1>6. CASE FailOrder
  BY <1>6 DEF FailOrder, UpdateOrder, Goto
<1>7. CASE SettleSignal
  BY <1>7 DEF SettleSignal, SetSignal, EndRound
<1>8. CASE ApprovalPending
  BY <1>8 DEF ApprovalPending, SetSignal, Retry, EndRound
<1>9. CASE ZeroQuote
  BY <1>9 DEF ZeroQuote, SetSignal, EndRound
<1> QED
  BY <1>1, <1>2, <1>3, <1>4, <1>5, <1>6, <1>7, <1>8, <1>9 DEF Handle

LEMMA RecoverLimit ==
  ASSUME RowsInv, LimitInv, Recover
  PROVE  LimitInv'
<1> USE StoreAssumption DEF LimitInv, OpenMayTry, StuckForGood, TriesOpen, OpenPositions,
     Exhausted, RowsInv, SignalFitsPosition, WorkFits, GoalFits, SideFits, BeforeHeld, TypeOK,
     StoreTypeOK, ChainTypeOK, Side, SignalStatus, PositionStatus, LastError, Label
<1>1. CASE RecoverUnsigned
  BY <1>1 DEF RecoverUnsigned, Recovering, Unsigned, SetSignal, Retry, EndRound
<1>2. CASE RecoverNothing
  BY <1>2 DEF RecoverNothing, Recovering, Return, SellNext, EndRound
<1>3. CASE RecoverPending
  BY <1>3 DEF RecoverPending, Recovering, Return, SellNext, EndRound
<1>4. CASE RecoverNotFound
  BY <1>4 DEF RecoverNotFound, Recovering, Recoverable, Abandoned, NotFound, UpdateOrder,
     SetSignal, EndRound
<1>5. CASE RecoverReverted
  BY <1>5 DEF RecoverReverted, Recovering, UpdateOrder, Settle
<1>6. CASE RecoverBought
  BY <1>6 DEF RecoverBought, Recovering, Recoverable, FinalizeBuy, OpenPosition, UpdateOrder,
     SetSignal, EndRound
<1>7. CASE RecoverSold
  BY <1>7 DEF RecoverSold, Recovering, Recoverable, FinalizeSell, MarkSellOutputUnknown,
     UpdateOrder, SetPosition, SetSignal, ClearExitTracking, EndRound
<1>8. CASE RecoverError
  BY <1>8 DEF RecoverError, EndRound
<1> QED
  BY <1>1, <1>2, <1>3, <1>4, <1>5, <1>6, <1>7, <1>8 DEF Recover

LEMMA NextLimit ==
  ASSUME NeverStops, RowsInv, LimitInv, [Next]_vars
  PROVE  LimitInv'
<1> USE DEF LimitInv, OpenMayTry, StuckForGood, TriesOpen, Exhausted
<1>1. CASE WorkerStep
  BY <1>1, ReconcileLimit, BuyLimit, SellLimit, SubmitLimit, HandleLimit, RecoverLimit
     DEF WorkerStep
<1>2. CASE Stop
  BY <1>2 DEF Stop, NeverStops
<1>3. CASE UNCHANGED <<store, work>> /\ ChainNext
  BY <1>3
<1>4. CASE UNCHANGED <<chain, work>> /\ \E e \in Event : AcceptSignal(e)
  BY <1>4 DEF AcceptSignal, SetSignal, RowsInv, TypeOK, StoreTypeOK, SignalFitsPosition,
    BeforeHeld
<1>5. CASE UNCHANGED vars
  BY <1>5
<1> QED
  BY <1>1, <1>2, <1>3, <1>4, <1>5 DEF Next

\* A position that used up its attempts is not tried again: it is stuck before
\* the next round, and nothing opens it.
THEOREM NotTriedPastLimit ==
  ASSUME NeverStops
  PROVE  Spec => []NoRetryWhenExhausted
<1>1. RowsInv /\ LimitInv /\ [Next]_vars => (RowsInv /\ LimitInv)'
  BY NextRowsInv, NextLimit
<1>2. LimitInv => NoRetryWhenExhausted
  BY DEF LimitInv, OpenMayTry, OpenPositions, NoRetryWhenExhausted
<1> QED
  BY <1>1, <1>2, InitRowsInv, InitLimitInv, PTL DEF Spec

=============================================================================
