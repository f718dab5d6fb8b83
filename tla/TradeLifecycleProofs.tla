------------------------ MODULE TradeLifecycleProofs ------------------------
(***************************************************************************)
(* The worker implements TradeLifecycle, for any number of events, tokens  *)
(* and positions and for every fault of the environment, and what follows  *)
(* about its rows on the way.                                              *)
(***************************************************************************)
EXTENDS TradingWorkerProofs, FiniteSetTheorems

USE DEF store, signals, orders, positions, state, chain, work, vars

-----------------------------------------------------------------------------
(***************************************************************************)
(* What the rows of one event and the place of the worker have to do with  *)
(* each other.                                                             *)
(***************************************************************************)

\* The statuses of a signal for which nothing was bought.
BeforeHeld == {"ABSENT", "RECEIVED", "BUY_PENDING", "BUY_SUBMITTED",
               "BUY_FAILED", "SKIPPED", "EXPIRED"}

\* A signal is past its buy exactly if a position was opened for it.
SignalFitsPosition ==
  \A e \in Event : position[e] = "ABSENT" <=> signal[e] \in BeforeHeld
\* Only what was bought has an order to sell.
SellsFollowBuys ==
  \A e \in Event : order["SELL"][e] # "ABSENT" => position[e] # "ABSENT"
\* At most one buy is in flight, as the next is taken only when none is.
OneBuyOpen == \A e, f \in BuysInFlight : e = f
\* A session of a single buy is armed until it opens its position, and complete
\* ever after, with no other position and no buy in flight.
SessionFits ==
  /\ session = "armed" => \A e \in Event : position[e] = "ABSENT"
  /\ session = "complete" =>
       /\ BuysInFlight = {}
       /\ \A e, f \in Event : position[e] # "ABSENT" /\ position[f] # "ABSENT" => e = f

\* What the worker works on is a signal not yet bought, beside which no other
\* buy is open, or a position not yet closed.
WorkFits ==
  pc \notin {"buy", "sell"} =>
    IF side = "BUY"
    THEN /\ signal[ev] \in {"RECEIVED", "BUY_PENDING", "BUY_SUBMITTED"}
         /\ BuysInFlight \subseteq {ev}
         /\ session # "complete"
    ELSE position[ev] \in {"OPEN", "POSITION_STUCK"}

\* What the last commit of a handler writes fits the side and the position.
GoalFits ==
  /\ pc = "settle" =>
       goal \in IF side = "BUY" THEN {"RECEIVED", "BUY_SUBMITTED", "BUY_FAILED"}
                ELSE {"OPEN", "SELL_SUBMITTED", "POSITION_STUCK"}
  /\ pc = "fail" => goal \in {"OPEN", "POSITION_STUCK"}
  /\ pc \in {"fail", "settle"} /\ goal = "POSITION_STUCK" => position[ev] = "POSITION_STUCK"
\* Some stretches of code are those of a sell only.
SideFits == pc \in {"touch", "create", "tally", "fail"} => side = "SELL"

RowsInv ==
  /\ TypeOK
  /\ SignalFitsPosition
  /\ SellsFollowBuys
  /\ ClosedTogether
  /\ StuckSignalIsStuck
  /\ OneBuyOpen
  /\ SessionFits
  /\ WorkFits
  /\ GoalFits
  /\ SideFits

LEMMA InitRowsInv == Init => RowsInv
BY InitType DEF RowsInv, SignalFitsPosition, ClosedTogether, StuckSignalIsStuck, OneBuyOpen,
   SessionFits, SellsFollowBuys, WorkFits, GoalFits, SideFits, BuysInFlight, WithStatus,
   Active, BeforeHeld, Init, StoreInit, ChainInit, Side

LEMMA ReconcileRowsInv ==
  ASSUME RowsInv, Reconcile
  PROVE  RowsInv'
<1>1. TypeOK'
  BY ReconcileType DEF RowsInv
<1> USE <1>1 DEF RowsInv, SignalFitsPosition, ClosedTogether, StuckSignalIsStuck, OneBuyOpen,
         SessionFits, SellsFollowBuys, WorkFits, GoalFits, SideFits,
         BuysInFlight, WithStatus, Active, BeforeHeld,
         TypeOK, StoreTypeOK, ChainTypeOK, Side, SignalStatus, OrderStatus,
         PositionStatus, InFlight, Label
<1>2. CASE \E e \in Event : CloseEmpty(e)
  BY <1>2 DEF CloseEmpty, Candidate, SetPosition, SetSignal, ClearExitTracking
<1>3. CASE \E e \in Event : ReopenZeroQuote(e)
  BY <1>3 DEF ReopenZeroQuote, Candidate, Reopens, SetSignal
<1>4. CASE \E e \in Event : HoldMismatch(e)
  BY <1>4 DEF HoldMismatch, Candidate, SetPosition, SetSignal
<1> QED
  BY <1>2, <1>3, <1>4 DEF Reconcile

LEMMA BuyRowsInv ==
  ASSUME RowsInv, Buy
  PROVE  RowsInv'
<1>1. TypeOK'
  BY BuyType DEF RowsInv
<1> USE <1>1 DEF RowsInv, SignalFitsPosition, ClosedTogether, StuckSignalIsStuck, OneBuyOpen,
         SessionFits, SellsFollowBuys, WorkFits, GoalFits, SideFits,
         BuysInFlight, WithStatus, Active, BeforeHeld,
         TypeOK, StoreTypeOK, ChainTypeOK, Side, SignalStatus, OrderStatus,
         PositionStatus, InFlight, Label
<1>2. CASE BuyRecover
  BY <1>2 DEF BuyRecover, IsOldest, Take
<1>3. CASE BuyIdle
  BY <1>3 DEF BuyIdle, SellNext
<1>4. CASE \E e \in Event : BuyExpired(e)
  BY <1>4 DEF BuyExpired, NextBuy, IsOldest, Received, SetSignal, EndRound
<1>5. CASE \E e \in Event : BuySkipped(e)
  BY <1>5 DEF BuySkipped, NextBuy, IsOldest, Received, SetSignal, SellNext
<1>6. CASE \E e \in Event : BuyStart(e)
  BY <1>6 DEF BuyStart, NextBuy, SessionComplete, IsOldest, Received, Take
<1> QED
  BY <1>2, <1>3, <1>4, <1>5, <1>6 DEF Buy

LEMMA SellRowsInv ==
  ASSUME RowsInv, Sell
  PROVE  RowsInv'
<1>1. TypeOK'
  BY SellType DEF RowsInv
<1> USE <1>1 DEF RowsInv, SignalFitsPosition, ClosedTogether, StuckSignalIsStuck, OneBuyOpen,
         SessionFits, SellsFollowBuys, WorkFits, GoalFits, SideFits,
         BuysInFlight, WithStatus, Active, BeforeHeld,
         TypeOK, StoreTypeOK, ChainTypeOK, Side, SignalStatus, OrderStatus,
         PositionStatus, InFlight, Label
<1>2. CASE SellRecover
  BY <1>2 DEF SellRecover, SellsInFlight, IsOldest, Take
<1>3. CASE SellIdle
  BY <1>3 DEF SellIdle, EndRound
<1>4. CASE SellStart
  BY <1>4 DEF SellStart, IsStalest, OpenPositions, Take
<1>5. CASE SellHold
  BY <1>5 DEF SellHold, Goto
<1>6. CASE TouchHeld
  BY <1>6 DEF TouchHeld, EndRound
<1>7. CASE SellExit
  BY <1>7 DEF SellExit, Goto
<1>8. CASE SellCreate
  BY <1>8 DEF SellCreate, Goto
<1> QED
  BY <1>2, <1>3, <1>4, <1>5, <1>6, <1>7, <1>8 DEF Sell

LEMMA SubmitRowsInv ==
  ASSUME RowsInv, Submit
  PROVE  RowsInv'
<1>1. TypeOK'
  BY SubmitType DEF RowsInv
<1> USE <1>1 DEF RowsInv, SignalFitsPosition, ClosedTogether, StuckSignalIsStuck, OneBuyOpen,
         SessionFits, SellsFollowBuys, WorkFits, GoalFits, SideFits,
         BuysInFlight, WithStatus, Active, BeforeHeld,
         TypeOK, StoreTypeOK, ChainTypeOK, Side, SignalStatus, OrderStatus,
         PositionStatus, InFlight, Label
<1>2. CASE BuyQuoted
  BY <1>2 DEF BuyQuoted, CreateOrder, Goto
<1>3. CASE MarkPending
  BY <1>3 DEF MarkPending, SetStatus, SetSignal, Pending, Goto
<1>4. CASE Sign
  BY <1>4 DEF Sign, UpdateOrderHash, Goto
<1>5. CASE Broadcast
  BY <1>5 DEF Broadcast, Goto
<1>6. CASE BroadcastError
  BY <1>6 DEF BroadcastError, Goto
<1>7. CASE BroadcastMismatch
  BY <1>7 DEF BroadcastMismatch, UpdateOrder, Settle, Goto
<1>8. CASE ProbeFound
  BY <1>8 DEF ProbeFound, Goto
<1>9. CASE ProbeUnknown
  BY <1>9 DEF ProbeUnknown, UpdateOrder, Settle, Submitted
<1>10. CASE OrderSubmitted
  BY <1>10 DEF OrderSubmitted, UpdateOrder, Goto
<1>11. CASE MarkSubmitted
  BY <1>11 DEF MarkSubmitted, SetStatus, Submitted, Goto
<1>12. CASE Bought
  BY <1>12 DEF Bought, FinalizeBuy, OpenPosition, UpdateOrder, SetSignal, EndRound
<1>13. CASE Sold
  BY <1>13, SMTT(30) DEF Sold, FinalizeSell, MarkSellOutputUnknown, UpdateOrder, SetPosition,
               SetSignal, ClearExitTracking, EndRound
<1> QED
  BY <1>2, <1>3, <1>4, <1>5, <1>6, <1>7, <1>8, <1>9, <1>10, <1>11, <1>12, <1>13 DEF Submit

LEMMA HandleRowsInv ==
  ASSUME RowsInv, Handle
  PROVE  RowsInv'
<1>1. TypeOK'
  BY HandleType DEF RowsInv
<1> USE <1>1 DEF RowsInv, SignalFitsPosition, ClosedTogether, StuckSignalIsStuck, OneBuyOpen,
         SessionFits, SellsFollowBuys, WorkFits, GoalFits, SideFits,
         BuysInFlight, WithStatus, Active, BeforeHeld,
         TypeOK, StoreTypeOK, ChainTypeOK, Side, SignalStatus, OrderStatus,
         PositionStatus, InFlight, Label
<1>2. CASE ReceiptTimeout
  BY <1>2 DEF ReceiptTimeout, UpdateOrder, Settle, Submitted
<1>3. CASE RpcFailure
  BY <1>3 DEF RpcFailure, UpdateOrder, Settle, Submitted, Retry
<1>4. CASE FailBuy
  BY <1>4 DEF FailBuy, UpdateOrder, Settle
<1>5. CASE FailSell
  BY <1>5 DEF FailSell, Goto
<1>6. CASE TallyFailure
  BY <1>6 DEF TallyFailure, SetPosition
<1>7. CASE FailOrder
  BY <1>7 DEF FailOrder, UpdateOrder, Goto
<1>8. CASE SettleSignal
  BY <1>8 DEF SettleSignal, SetSignal, EndRound
<1>9. CASE ApprovalPending
  BY <1>9 DEF ApprovalPending, SetSignal, Retry, EndRound
<1>10. CASE ZeroQuote
  BY <1>10 DEF ZeroQuote, SetSignal, EndRound
<1> QED
  BY <1>2, <1>3, <1>4, <1>5, <1>6, <1>7, <1>8, <1>9, <1>10 DEF Handle

LEMMA RecoverRowsInv ==
  ASSUME RowsInv, Recover
  PROVE  RowsInv'
<1>1. TypeOK'
  BY RecoverType DEF RowsInv
<1> USE <1>1 DEF RowsInv, SignalFitsPosition, ClosedTogether, StuckSignalIsStuck, OneBuyOpen,
         SessionFits, SellsFollowBuys, WorkFits, GoalFits, SideFits,
         BuysInFlight, WithStatus, Active, BeforeHeld,
         TypeOK, StoreTypeOK, ChainTypeOK, Side, SignalStatus, OrderStatus,
         PositionStatus, InFlight, Label
<1>2. CASE RecoverUnsigned
  BY <1>2 DEF RecoverUnsigned, Recovering, SetSignal, Retry, EndRound
<1>3. CASE RecoverNothing
  BY <1>3 DEF RecoverNothing, Recovering, Return, SellNext, EndRound
<1>4. CASE RecoverPending
  BY <1>4 DEF RecoverPending, Recovering, Return, SellNext, EndRound
<1>5. CASE RecoverNotFound
  BY <1>5 DEF RecoverNotFound, Recovering, Abandoned, UpdateOrder, SetSignal, EndRound
<1>6. CASE RecoverReverted
  BY <1>6 DEF RecoverReverted, Recovering, UpdateOrder, Settle
<1>7. CASE RecoverBought
  BY <1>7, SMTT(30)
     DEF RecoverBought, Recovering, FinalizeBuy, OpenPosition, UpdateOrder, SetSignal,
              EndRound
<1>8. CASE RecoverSold
  BY <1>8, SMTT(30)
     DEF RecoverSold, Recovering, FinalizeSell, MarkSellOutputUnknown, UpdateOrder,
              SetPosition, SetSignal, ClearExitTracking, EndRound
<1>9. CASE RecoverError
  BY <1>9 DEF RecoverError, EndRound
<1> QED
  BY <1>2, <1>3, <1>4, <1>5, <1>6, <1>7, <1>8, <1>9 DEF Recover

LEMMA NextRowsInv == RowsInv /\ [Next]_vars => RowsInv'
<1> SUFFICES ASSUME RowsInv, [Next]_vars PROVE RowsInv'
  OBVIOUS
<1>1. TypeOK'
  BY NextType DEF RowsInv
<1> USE <1>1 DEF RowsInv, SignalFitsPosition, ClosedTogether, StuckSignalIsStuck, OneBuyOpen,
         SessionFits, SellsFollowBuys, WorkFits, GoalFits, SideFits,
         BuysInFlight, WithStatus, Active, BeforeHeld
<1>2. CASE WorkerStep
  BY <1>2, ReconcileRowsInv, BuyRowsInv, SellRowsInv, SubmitRowsInv, HandleRowsInv, RecoverRowsInv
     DEF WorkerStep
<1>3. CASE Stop
  BY <1>3 DEF Stop, EndRound
<1>4. CASE UNCHANGED <<store, work>> /\ ChainNext
  BY <1>4
<1>5. CASE UNCHANGED <<chain, work>> /\ \E e \in Event : AcceptSignal(e)
  BY <1>5 DEF AcceptSignal, SetSignal, TypeOK, StoreTypeOK
<1>6. CASE UNCHANGED vars
  BY <1>6
<1> QED
  BY <1>2, <1>3, <1>4, <1>5, <1>6 DEF Next

\* The inductive invariant: signal, position, orders and the worker's place fit
\* together, after whichever commit the process stops.
THEOREM RowsInvariant == Spec => []RowsInv
BY InitRowsInv, NextRowsInv, PTL DEF Spec

\* A signal and its position are closed together, and no latch outlives them.
THEOREM ClosesTogether == Spec => []ClosedTogether
<1>1. RowsInv => ClosedTogether
  BY DEF RowsInv
<1> QED
  BY <1>1, RowsInvariant, PTL

\* A signal says POSITION_STUCK only of a position that is.
THEOREM StuckIsStuck == Spec => []StuckSignalIsStuck
<1>1. RowsInv => StuckSignalIsStuck
  BY DEF RowsInv
<1> QED
  BY <1>1, RowsInvariant, PTL

LEMMA AtMostOne ==
  ASSUME NEW S, \A x, y \in S : x = y
  PROVE  Cardinality(S) <= 1
<1>1. CASE S = {}
  BY <1>1, FS_EmptySet
<1>2. CASE S # {}
  <2>1. PICK x : S = {x}
    BY <1>2
  <2> QED
    BY <2>1, FS_Singleton
<1> QED
  BY <1>1, <1>2

\* A session of a single buy opens one position and never a second one.
THEOREM OneBuy == Spec => []OneBuyPerSession
<1>1. RowsInv => OneBuyPerSession
  <2> SUFFICES ASSUME RowsInv, session # "off"
               PROVE  Cardinality({e \in Event : position[e] # "ABSENT"}) <= 1
    BY DEF OneBuyPerSession
  <2>1. \A e, f \in {d \in Event : position[d] # "ABSENT"} : e = f
    BY DEF RowsInv, SessionFits, TypeOK, StoreTypeOK
  <2> QED
    BY <2>1, AtMostOne
<1> QED
  BY <1>1, RowsInvariant, PTL

-----------------------------------------------------------------------------
(***************************************************************************)
(* Slots.  A position is opened by a buy that was open, and a buy becomes  *)
(* open only when there is room, while no position is opened.              *)
(***************************************************************************)
OpenBuy == BuysInFlight # {} \/ (side = "BUY" /\ pc \notin {"buy", "sell"})

\* The three kinds of steps: positions may close, a buy may begin where there is
\* room, or the open buy ends as a position.
Closes == Active' \subseteq Active /\ (OpenBuy' => OpenBuy)
Begins == Active' = Active /\ ~Full
Opens  == OpenBuy /\ ~OpenBuy' /\ \E e \in Event : Active' = Active \cup {e}

\* While a buy is open the slot it will take is free.
RoomInv == RowsInv /\ Cardinality(Active) <= MaxOpenPositions /\ (OpenBuy => ~Full)

LEMMA RoomStep ==
  ASSUME RowsInv, [Next]_vars
  PROVE  Closes \/ Begins \/ Opens
<1> USE DEF Closes, Begins, Opens, OpenBuy, BuysInFlight, WithStatus, Active,
         RowsInv, WorkFits, SignalFitsPosition, OneBuyOpen, BeforeHeld, GoalFits, SideFits,
         TypeOK, StoreTypeOK, Side, SignalStatus, PositionStatus
<1>1. CASE Reconcile
  BY <1>1 DEF Reconcile, CloseEmpty, ReopenZeroQuote, HoldMismatch, Candidate, Reopens,
     SetPosition, SetSignal
<1>2. CASE Buy
  <2>1. CASE \E e \in Event : BuyStart(e)
    BY <2>1 DEF BuyStart
  <2>2. CASE BuyRecover \/ BuyIdle \/ \E e \in Event : BuyExpired(e) \/ BuySkipped(e)
    BY <2>2 DEF BuyRecover, BuyIdle, BuyExpired, BuySkipped, NextBuy, IsOldest, SetSignal,
       Take, SellNext, EndRound
  <2> QED
    BY <1>2, <2>1, <2>2 DEF Buy
<1>3. CASE Sell
  BY <1>3 DEF Sell, SellRecover, SellIdle, SellStart, SellHold, TouchHeld, SellExit, SellCreate,
     Take, Goto, EndRound
<1>4. CASE Submit
  <2>1. CASE BuyQuoted \/ MarkPending \/ Sign \/ MarkSubmitted
    BY <2>1 DEF BuyQuoted, MarkPending, Sign, MarkSubmitted, Pending, Submitted, SetStatus,
       SetSignal, Goto
  <2>2. CASE Broadcast \/ BroadcastError \/ BroadcastMismatch \/ ProbeFound \/ ProbeUnknown
               \/ OrderSubmitted
    BY <2>2 DEF Broadcast, BroadcastError, BroadcastMismatch, ProbeFound, ProbeUnknown,
       OrderSubmitted, Goto, Settle
  <2>3. CASE Bought
    BY <2>3 DEF Bought, FinalizeBuy, OpenPosition, SetSignal, EndRound
  <2>4. CASE Sold
    BY <2>4 DEF Sold, FinalizeSell, MarkSellOutputUnknown, SetPosition, SetSignal, EndRound
  <2> QED
    BY <1>4, <2>1, <2>2, <2>3, <2>4 DEF Submit
<1>5. CASE Handle
  <2>1. CASE ReceiptTimeout \/ RpcFailure \/ FailBuy \/ FailSell \/ TallyFailure \/ FailOrder
    BY <2>1 DEF ReceiptTimeout, RpcFailure, FailBuy, FailSell, TallyFailure, FailOrder,
       SetPosition, Goto, Settle
  <2>2. CASE SettleSignal \/ ApprovalPending \/ ZeroQuote
    BY <2>2 DEF SettleSignal, ApprovalPending, ZeroQuote, Retry, SetSignal, EndRound
  <2> QED
    BY <1>5, <2>1, <2>2 DEF Handle
<1>6. CASE Recover
  <2> USE DEF Recovering
  <2>1. CASE RecoverUnsigned \/ RecoverNothing \/ RecoverPending \/ RecoverError
    BY <2>1 DEF RecoverUnsigned, RecoverNothing, RecoverPending, RecoverError, Retry, SetSignal,
       Return, SellNext, EndRound
  <2>2. CASE RecoverNotFound \/ RecoverReverted
    BY <2>2 DEF RecoverNotFound, RecoverReverted, Abandoned, SetSignal, Settle, EndRound
  <2>3. CASE RecoverBought
    BY <2>3 DEF RecoverBought, FinalizeBuy, OpenPosition, SetSignal, EndRound
  <2>4. CASE RecoverSold
    BY <2>4 DEF RecoverSold, FinalizeSell, MarkSellOutputUnknown, SetPosition, SetSignal, EndRound
  <2> QED
    BY <1>6, <2>1, <2>2, <2>3, <2>4 DEF Recover
<1>7. CASE Stop
  BY <1>7 DEF Stop, EndRound
<1>8. CASE UNCHANGED <<store, work>>
  BY <1>8
<1>9. CASE UNCHANGED <<chain, work>> /\ \E e \in Event : AcceptSignal(e)
  BY <1>9 DEF AcceptSignal, SetSignal
<1> QED
  BY <1>1, <1>2, <1>3, <1>4, <1>5, <1>6, <1>7, <1>8, <1>9 DEF Next, WorkerStep

LEMMA FiniteRows ==
  /\ IsFiniteSet(Active) /\ Cardinality(Active) \in Nat
  /\ IsFiniteSet(BuysInFlight) /\ Cardinality(BuysInFlight) \in Nat
<1>1. IsFiniteSet(Event)
  BY StoreAssumption, FS_Interval DEF Event
<1>2. Active \subseteq Event /\ BuysInFlight \subseteq Event
  BY DEF Active, BuysInFlight, WithStatus
<1> QED
  BY <1>1, <1>2, FS_Subset, FS_CardinalityType

LEMMA InitRoomInv == Init => RoomInv
<1> SUFFICES ASSUME Init PROVE RoomInv
  OBVIOUS
<1>1. Active = {} /\ ~OpenBuy
  BY DEF Init, StoreInit, Active, OpenBuy, BuysInFlight, WithStatus
<1>2. Cardinality(Active) = 0
  BY <1>1, FS_EmptySet
<1> QED
  BY <1>1, <1>2, InitRowsInv, WorkerAssumption DEF RoomInv

LEMMA NextRoomInv == RoomInv /\ [Next]_vars => RoomInv'
<1> SUFFICES ASSUME RoomInv, [Next]_vars PROVE RoomInv'
  OBVIOUS
<1> USE WorkerAssumption, FiniteRows DEF RoomInv, Full
<1>1. RowsInv'
  BY NextRowsInv
<1>2. CASE Closes
  <2>1. Cardinality(Active') <= Cardinality(Active) /\ Cardinality(Active') \in Nat
    BY <1>2, FS_Subset, FS_CardinalityType DEF Closes
  <2> QED
    BY <1>1, <1>2, <2>1 DEF Closes
<1>3. CASE Begins
  BY <1>1, <1>3 DEF Begins
<1>4. CASE Opens
  <2>1. PICK e \in Event : Active' = Active \cup {e}
    BY <1>4 DEF Opens
  <2>2. Cardinality(Active \cup {e}) \in {Cardinality(Active), Cardinality(Active) + 1}
    BY FS_AddElement
  <2>3. Cardinality(Active') \in Nat /\ Cardinality(Active') <= Cardinality(Active) + 1
    BY <2>1, <2>2
  <2> QED
    BY <1>1, <1>4, <2>3 DEF Opens
<1> QED
  BY <1>2, <1>3, <1>4, RoomStep

\* The slots are never oversubscribed by the positions and the buys in flight.
THEOREM Capacity == Spec => []WithinCapacity
<1>1. RoomInv => WithinCapacity
  <2> SUFFICES ASSUME RoomInv PROVE WithinCapacity
    OBVIOUS
  <2>1. Cardinality(BuysInFlight) <= 1
    BY AtMostOne DEF RoomInv, RowsInv, OneBuyOpen
  <2>2. CASE BuysInFlight = {}
    BY <2>2, FS_EmptySet, FiniteRows, WorkerAssumption DEF RoomInv, WithinCapacity
  <2>3. CASE BuysInFlight # {}
    BY <2>1, <2>3, FiniteRows, WorkerAssumption DEF RoomInv, OpenBuy, Full, WithinCapacity
  <2> QED
    BY <2>2, <2>3
<1> QED
  BY <1>1, InitRoomInv, NextRoomInv, PTL DEF Spec

-----------------------------------------------------------------------------
(***************************************************************************)
(* The refinement.  A step leaves the rows that the stages are read from   *)
(* alone, or moves one event from its stage to one that may follow.        *)
(***************************************************************************)
LifeInv == RoomInv /\ BuyInv

\* What the stage of an event is read from stays as it is.
RowsKept(e) ==
  /\ position'[e] = position[e]
  /\ signal'[e] = signal[e]
  /\ order'["SELL"][e] = order["SELL"][e]
  /\ e \in hashed'["BUY"] <=> e \in hashed["BUY"]

\* The rows leave room for a buy of the event.
RoomFor(e) == session # "complete" /\ BuysInFlight \subseteq {e} /\ ~Full

\* A step of the environment, or one that writes none of these rows.
Rests == UNCHANGED <<signal, order, hashed, position, session>>

\* No other event is touched, nor is the kind of the session.
OnlyOf(e) ==
  /\ \A f \in Event \ {e} : RowsKept(f)
  /\ session' = "off" <=> session = "off"

\* The event keeps its stage or goes on to one that may follow.
Moves(e) ==
  /\ OnlyOf(e)
  /\ StageOf(e)' = StageOf(e) \/ StageOf(e)' \in Lifecycle!Life[StageOf(e)]
  /\ StageOf(e)' = "buying" => StageOf(e) = "buying" \/ RoomFor(e)

LifeStep == Rests \/ \E e \in Event : Moves(e)

Stages == [e \in Event |-> StageOf(e)]

LEMMA KeptStage ==
  ASSUME NEW e \in Event, RowsKept(e)
  PROVE  StageOf(e)' = StageOf(e)
BY DEF RowsKept, StageOf, Received, BuysInFlight, WithStatus

\* The instance counts as this module does.
LEMMA SameCardinality == ASSUME NEW S PROVE Lifecycle!Cardinality(S) = Cardinality(S)
BY DEF Lifecycle!Cardinality, Cardinality

LEMMA RoomIsRoom ==
  ASSUME LifeInv, NEW e \in Event, RoomFor(e), StageOf(e) # "buying"
  PROVE  Lifecycle!Room
<1> USE DEF LifeInv, RoomInv, RowsInv, TypeOK, StoreTypeOK, PositionStatus
<1>1. Lifecycle!At({"buying"}) = {}
  BY DEF Lifecycle!At, StageOf, RoomFor
<1>2. Lifecycle!At({"held", "selling", "stuck"}) = Active
  BY DEF Lifecycle!At, StageOf, Active
<1>3. session # "off" => Lifecycle!At({"held", "selling", "stuck", "gone"}) = {}
  BY DEF Lifecycle!At, StageOf, RoomFor, SessionFits
<1>4. Lifecycle!Cardinality(Active) < MaxOpenPositions
  BY FiniteRows, SameCardinality, WorkerAssumption DEF RoomFor, Full
<1> QED
  BY <1>1, <1>2, <1>3, <1>4 DEF Lifecycle!Room

LEMMA StepRefines ==
  ASSUME LifeInv, LifeStep
  PROVE  Lifecycle!Next \/ UNCHANGED <<Stages, session # "off">>
<1>1. CASE Rests
  <2>1. \A e \in Event : StageOf(e)' = StageOf(e)
    BY <1>1, KeptStage DEF Rests, RowsKept
  <2> QED
    BY <1>1, <2>1 DEF Rests, Stages
<1>2. ASSUME NEW e \in Event, Moves(e)
      PROVE  Lifecycle!Next \/ UNCHANGED <<Stages, session # "off">>
  <2>1. \A f \in Event \ {e} : StageOf(f)' = StageOf(f)
    BY <1>2, KeptStage DEF Moves, OnlyOf
  <2>2. CASE StageOf(e)' = StageOf(e)
    BY <1>2, <2>1, <2>2 DEF Moves, OnlyOf, Stages
  <2>3. CASE StageOf(e)' # StageOf(e)
    <3>1. Lifecycle!Advance(e)
      BY <1>2, <2>1, <2>3, RoomIsRoom DEF Moves, OnlyOf, Lifecycle!Advance
    <3> QED
      BY <3>1 DEF Lifecycle!Next
  <2> QED
    BY <2>2, <2>3
<1> QED
  BY <1>1, <1>2 DEF LifeStep

\* A signal for which nothing was bought stays new, or being bought, or is given up.
LEMMA BuyMoves ==
  ASSUME LifeInv, NEW e \in Event, OnlyOf(e),
         position[e] = "ABSENT", position'[e] = "ABSENT",
         signal[e] \in {"RECEIVED", "BUY_PENDING", "BUY_SUBMITTED"},
         signal'[e] \in BeforeHeld \ {"ABSENT"},
         signal'[e] = "RECEIVED" => e \notin hashed["BUY"],
         e \in hashed'["BUY"] <=> e \in hashed["BUY"]
  PROVE  Moves(e)
<1> USE DEF StageOf, Received, BuysInFlight, WithStatus, BeforeHeld
<1>1. CASE e \in hashed["BUY"]
  <2>1. StageOf(e) = "buying"
    BY <1>1 DEF LifeInv, BuyInv, ReceivedIsUnsigned
  <2>2. StageOf(e)' \in {"buying", "void"}
    BY <1>1
  <2> QED
    BY <2>1, <2>2 DEF Moves, Lifecycle!Life
<1>2. CASE e \notin hashed["BUY"]
  <2>1. StageOf(e) = "new"
    BY <1>2
  <2>2. StageOf(e)' \in {"new", "void"}
    BY <1>2
  <2> QED
    BY <2>1, <2>2 DEF Moves, Lifecycle!Life
<1> QED
  BY <1>1, <1>2

\* A position may be sold, stuck or closed at any time; a stuck one becomes open
\* again only while its sell is not in flight.
LEMMA SellMoves ==
  ASSUME NEW e \in Event, OnlyOf(e),
         position[e] \in {"OPEN", "POSITION_STUCK"},
         position'[e] \in {"OPEN", "POSITION_STUCK", "CLOSED"},
         position'[e] = "OPEN" => position[e] = "OPEN" \/ order'["SELL"][e] \notin InFlight
  PROVE  Moves(e)
<1>1. CASE position[e] = "OPEN"
  <2>1. StageOf(e) \in {"held", "selling"}
    BY <1>1 DEF StageOf
  <2>2. StageOf(e)' \in {"held", "selling", "stuck", "gone"}
    BY DEF StageOf
  <2> QED
    BY <2>1, <2>2 DEF Moves, Lifecycle!Life
<1>2. CASE position[e] = "POSITION_STUCK"
  <2>1. StageOf(e) = "stuck"
    BY <1>2 DEF StageOf
  <2>2. StageOf(e)' \in {"held", "stuck", "gone"}
    BY <1>2 DEF StageOf
  <2> QED
    BY <2>1, <2>2 DEF Moves, Lifecycle!Life
<1> QED
  BY <1>1, <1>2

\* The receipt of a buy opens its position, of which nothing is sold yet.
LEMMA OpensPosition ==
  ASSUME LifeInv, FinalizeBuy, NEW e \in Event, e = ev,
         e \in hashed["BUY"], position[e] = "ABSENT",
         signal[e] \in {"RECEIVED", "BUY_PENDING", "BUY_SUBMITTED"}
  PROVE  Moves(e)
<1>1. OnlyOf(e)
  BY DEF OnlyOf, RowsKept, FinalizeBuy, OpenPosition, UpdateOrder, SetSignal, LifeInv, RoomInv,
     RowsInv, TypeOK, StoreTypeOK, Side
<1>2. StageOf(e) = "buying"
  BY DEF LifeInv, BuyInv, ReceivedIsUnsigned, StageOf, Received, BuysInFlight, WithStatus
<1>3. position'[e] = "OPEN" /\ order'["SELL"][e] = "ABSENT"
  BY DEF SellsFollowBuys, FinalizeBuy, OpenPosition, UpdateOrder, LifeInv, RoomInv, RowsInv,
     TypeOK, StoreTypeOK, Side
<1>4. StageOf(e)' = "held"
  BY <1>3 DEF StageOf, InFlight
<1> QED
  BY <1>1, <1>2, <1>4 DEF Moves, Lifecycle!Life

LEMMA ReconcileLife ==
  ASSUME LifeInv, Reconcile
  PROVE  LifeStep
<1> USE DEF LifeInv, RoomInv, RowsInv, TypeOK, StoreTypeOK, Side, SignalStatus, PositionStatus,
         SignalFitsPosition, BeforeHeld
<1>1. ASSUME NEW e \in Event, CloseEmpty(e) PROVE Moves(e)
  <2>1. OnlyOf(e)
    BY <1>1 DEF CloseEmpty, Candidate, SetPosition, SetSignal, ClearExitTracking, OnlyOf,
                RowsKept
  <2> QED
    BY <1>1, <2>1, SellMoves DEF CloseEmpty, Candidate, SetPosition, SetSignal,
                                 ClearExitTracking, Active
<1>2. ASSUME NEW e \in Event, ReopenZeroQuote(e) PROVE Moves(e)
  <2>1. OnlyOf(e)
    BY <1>2 DEF ReopenZeroQuote, Candidate, SetSignal, OnlyOf, RowsKept
  <2> QED
    BY <1>2, <2>1, SellMoves DEF ReopenZeroQuote, Candidate, SetSignal, Active
<1>3. ASSUME NEW e \in Event, HoldMismatch(e) PROVE Moves(e)
  <2>1. OnlyOf(e)
    BY <1>3 DEF HoldMismatch, Candidate, SetPosition, SetSignal, OnlyOf, RowsKept
  <2> QED
    BY <1>3, <2>1, SellMoves DEF HoldMismatch, Candidate, SetPosition, SetSignal, Active
<1> QED
  BY <1>1, <1>2, <1>3 DEF Reconcile, LifeStep

LEMMA BuyLife ==
  ASSUME LifeInv, Buy
  PROVE  LifeStep
<1> USE DEF LifeInv, RoomInv, RowsInv, TypeOK, StoreTypeOK, Side, SignalStatus, PositionStatus,
         SignalFitsPosition, BeforeHeld
<1>1. ASSUME NEW e \in Event, BuyExpired(e) PROVE Moves(e)
  <2>1. OnlyOf(e)
    BY <1>1 DEF BuyExpired, NextBuy, IsOldest, Received, WithStatus, SetSignal, OnlyOf,
                RowsKept
  <2> QED
    BY <1>1, <2>1, BuyMoves DEF BuyExpired, NextBuy, IsOldest, Received, WithStatus,
                                SetSignal, BuyInv, ReceivedIsUnsigned
<1>2. ASSUME NEW e \in Event, BuySkipped(e) PROVE Moves(e)
  <2>1. OnlyOf(e)
    BY <1>2 DEF BuySkipped, NextBuy, IsOldest, Received, WithStatus, SetSignal, OnlyOf,
                RowsKept
  <2> QED
    BY <1>2, <2>1, BuyMoves DEF BuySkipped, NextBuy, IsOldest, Received, WithStatus,
                                SetSignal, BuyInv, ReceivedIsUnsigned
<1>3. CASE BuyRecover \/ BuyIdle \/ (\E e \in Event : BuyStart(e))
  BY <1>3 DEF BuyRecover, BuyIdle, BuyStart, LifeStep, Rests
<1> QED
  BY <1>1, <1>2, <1>3 DEF Buy, LifeStep

LEMMA SellLife ==
  ASSUME LifeInv, Sell
  PROVE  LifeStep
<1> USE DEF LifeInv, RoomInv, RowsInv, TypeOK, StoreTypeOK, Side, SignalStatus, PositionStatus,
         SignalFitsPosition, BeforeHeld
<1>1. CASE SellCreate
  <2> PICK e \in Event : e = ev
    BY <1>1 DEF SellCreate
  <2>1. OnlyOf(e)
    BY <1>1 DEF SellCreate, SideFits, OnlyOf, RowsKept
  <2> QED
    BY <1>1, <2>1, SellMoves DEF SellCreate, SideFits, WorkFits, LifeStep
<1>2. CASE SellRecover \/ SellIdle \/ SellStart \/ SellHold \/ TouchHeld \/ SellExit
  BY <1>2 DEF SellRecover, SellIdle, SellStart, SellHold, TouchHeld, SellExit, LifeStep, Rests
<1> QED
  BY <1>1, <1>2 DEF Sell, LifeStep

LEMMA SubmitLife ==
  ASSUME LifeInv, Submit
  PROVE  LifeStep
<1> USE DEF LifeInv, RoomInv, RowsInv, TypeOK, StoreTypeOK, Side, SignalStatus, PositionStatus,
         SignalFitsPosition, BeforeHeld
<1>1. CASE BuyQuoted
  <2> PICK e \in Event : e = ev
    BY <1>1 DEF BuyQuoted
  <2>1. OnlyOf(e)
    BY <1>1 DEF BuyQuoted, CreateOrder, OnlyOf, RowsKept
  <2> QED
    BY <1>1, <2>1, BuyMoves DEF BuyQuoted, CreateOrder, WorkFits, BuyInv, ReceivedIsUnsigned,
                                LifeStep
<1>2. CASE MarkPending
  <2> PICK e \in Event : e = ev
    BY <1>2 DEF MarkPending
  <2>1. OnlyOf(e)
    BY <1>2 DEF MarkPending, SetStatus, SetSignal, Pending, OnlyOf, RowsKept
  <2>2. CASE side = "BUY"
    BY <1>2, <2>1, <2>2, BuyMoves DEF MarkPending, SetStatus, SetSignal, Pending, WorkFits,
                                      BuyInv, ReceivedIsUnsigned, LifeStep
  <2>3. CASE side = "SELL"
    BY <1>2, <2>1, <2>3, SellMoves DEF MarkPending, SetStatus, SetSignal, Pending, WorkFits,
                                       LifeStep
  <2> QED
    BY <2>2, <2>3
<1>3. CASE Sign
  <2> PICK e \in Event : e = ev
    BY <1>3 DEF Sign
  <2>1. OnlyOf(e)
    BY <1>3 DEF Sign, UpdateOrderHash, OnlyOf, RowsKept
  <2>2. CASE side = "BUY"
    <3>1. position[e] = "ABSENT" /\ signal[e] = "BUY_PENDING" /\ RoomFor(e)
      BY <1>3, <2>2 DEF Sign, BuyInv, BuildsPending, WorkFits, OpenBuy, RoomFor
    <3>2. position'[e] = "ABSENT" /\ signal'[e] = "BUY_PENDING" /\ e \in hashed'["BUY"]
      BY <1>3, <2>2, <3>1 DEF Sign, UpdateOrderHash
    <3>3. StageOf(e) \in {"new", "buying"} /\ StageOf(e)' = "buying"
      BY <3>1, <3>2 DEF StageOf, Received, BuysInFlight, WithStatus
    <3> QED
      BY <2>1, <3>1, <3>3 DEF LifeStep, Moves, Lifecycle!Life
  <2>3. CASE side = "SELL"
    BY <1>3, <2>1, <2>3, SellMoves DEF Sign, WorkFits, LifeStep
  <2> QED
    BY <2>2, <2>3
<1>4. CASE BroadcastMismatch
  <2> PICK e \in Event : e = ev
    BY <1>4 DEF BroadcastMismatch
  <2>1. OnlyOf(e)
    BY <1>4 DEF BroadcastMismatch, UpdateOrder, OnlyOf, RowsKept
  <2>2. CASE side = "BUY"
    BY <1>4, <2>1, <2>2, BuyMoves DEF BroadcastMismatch, UpdateOrder, WorkFits, BuyInv,
                                      ReceivedIsUnsigned, LifeStep
  <2>3. CASE side = "SELL"
    BY <1>4, <2>1, <2>3, SellMoves DEF BroadcastMismatch, UpdateOrder, WorkFits, LifeStep
  <2> QED
    BY <2>2, <2>3
<1>5. CASE ProbeUnknown
  <2> PICK e \in Event : e = ev
    BY <1>5 DEF ProbeUnknown
  <2>1. OnlyOf(e)
    BY <1>5 DEF ProbeUnknown, UpdateOrder, OnlyOf, RowsKept
  <2>2. CASE side = "BUY"
    BY <1>5, <2>1, <2>2, BuyMoves DEF ProbeUnknown, UpdateOrder, WorkFits, BuyInv,
                                      ReceivedIsUnsigned, LifeStep
  <2>3. CASE side = "SELL"
    BY <1>5, <2>1, <2>3, SellMoves DEF ProbeUnknown, UpdateOrder, WorkFits, LifeStep
  <2> QED
    BY <2>2, <2>3
<1>6. CASE OrderSubmitted
  <2> PICK e \in Event : e = ev
    BY <1>6 DEF OrderSubmitted
  <2>1. OnlyOf(e)
    BY <1>6 DEF OrderSubmitted, UpdateOrder, OnlyOf, RowsKept
  <2>2. CASE side = "BUY"
    BY <1>6, <2>1, <2>2, BuyMoves DEF OrderSubmitted, UpdateOrder, WorkFits, BuyInv,
                                      ReceivedIsUnsigned, LifeStep
  <2>3. CASE side = "SELL"
    BY <1>6, <2>1, <2>3, SellMoves DEF OrderSubmitted, UpdateOrder, WorkFits, LifeStep
  <2> QED
    BY <2>2, <2>3
<1>7. CASE MarkSubmitted
  <2> PICK e \in Event : e = ev
    BY <1>7 DEF MarkSubmitted
  <2>1. OnlyOf(e)
    BY <1>7 DEF MarkSubmitted, SetStatus, Submitted, OnlyOf, RowsKept
  <2>2. CASE side = "BUY"
    BY <1>7, <2>1, <2>2, BuyMoves DEF MarkSubmitted, SetStatus, Submitted, WorkFits, BuyInv,
                                      ReceivedIsUnsigned, LifeStep
  <2>3. CASE side = "SELL"
    BY <1>7, <2>1, <2>3, SellMoves DEF MarkSubmitted, SetStatus, Submitted, WorkFits, LifeStep
  <2> QED
    BY <2>2, <2>3
<1>8. CASE Bought
  <2> PICK e \in Event : e = ev
    BY <1>8 DEF Bought
  <2>1. position[e] = "ABSENT" /\ signal[e] \in {"RECEIVED", "BUY_PENDING", "BUY_SUBMITTED"}
    BY <1>8 DEF Bought, WorkFits
  <2>2. e \in hashed["BUY"]
    BY <1>8, <2>1 DEF Bought, BuyInv, HashIsSigned
  <2> QED
    BY <1>8, <2>1, <2>2, OpensPosition DEF Bought, LifeStep
<1>9. CASE Sold
  <2> PICK e \in Event : e = ev
    BY <1>9 DEF Sold
  <2>1. OnlyOf(e)
    BY <1>9 DEF Sold, FinalizeSell, MarkSellOutputUnknown, UpdateOrder, SetPosition,
                SetSignal, ClearExitTracking, OnlyOf, RowsKept
  <2> QED
    BY <1>9, <2>1, SellMoves DEF Sold, FinalizeSell, MarkSellOutputUnknown, UpdateOrder,
                                 SetPosition, SetSignal, ClearExitTracking, WorkFits, LifeStep
<1>10. CASE Broadcast \/ BroadcastError \/ ProbeFound
  BY <1>10 DEF Broadcast, BroadcastError, ProbeFound, LifeStep, Rests
<1> QED
  BY <1>1, <1>2, <1>3, <1>4, <1>5, <1>6, <1>7, <1>8, <1>9, <1>10 DEF Submit, LifeStep

LEMMA HandleLife ==
  ASSUME LifeInv, Handle
  PROVE  LifeStep
<1> USE DEF LifeInv, RoomInv, RowsInv, TypeOK, StoreTypeOK, Side, SignalStatus, PositionStatus,
         SignalFitsPosition, BeforeHeld
<1>1. CASE ReceiptTimeout
  <2> PICK e \in Event : e = ev
    BY <1>1 DEF ReceiptTimeout
  <2>1. OnlyOf(e)
    BY <1>1 DEF ReceiptTimeout, UpdateOrder, OnlyOf, RowsKept
  <2>2. CASE side = "BUY"
    BY <1>1, <2>1, <2>2, BuyMoves DEF ReceiptTimeout, UpdateOrder, WorkFits, BuyInv,
                                      ReceivedIsUnsigned, LifeStep
  <2>3. CASE side = "SELL"
    BY <1>1, <2>1, <2>3, SellMoves DEF ReceiptTimeout, UpdateOrder, WorkFits, LifeStep
  <2> QED
    BY <2>2, <2>3
<1>2. CASE RpcFailure
  <2> PICK e \in Event : e = ev
    BY <1>2 DEF RpcFailure
  <2>1. OnlyOf(e)
    BY <1>2 DEF RpcFailure, UpdateOrder, OnlyOf, RowsKept
  <2>2. CASE side = "BUY"
    BY <1>2, <2>1, <2>2, BuyMoves DEF RpcFailure, UpdateOrder, WorkFits, BuyInv,
                                      ReceivedIsUnsigned, LifeStep
  <2>3. CASE side = "SELL"
    BY <1>2, <2>1, <2>3, SellMoves DEF RpcFailure, UpdateOrder, WorkFits, LifeStep
  <2> QED
    BY <2>2, <2>3
<1>3. CASE FailBuy
  <2> PICK e \in Event : e = ev
    BY <1>3 DEF FailBuy
  <2>1. OnlyOf(e)
    BY <1>3 DEF FailBuy, UpdateOrder, OnlyOf, RowsKept
  <2> QED
    BY <1>3, <2>1, BuyMoves DEF FailBuy, UpdateOrder, WorkFits, BuyInv, ReceivedIsUnsigned,
                                LifeStep
<1>4. CASE TallyFailure
  <2> PICK e \in Event : e = ev
    BY <1>4 DEF TallyFailure
  <2>1. OnlyOf(e)
    BY <1>4 DEF TallyFailure, SideFits, SetPosition, OnlyOf, RowsKept
  <2> QED
    BY <1>4, <2>1, SellMoves DEF TallyFailure, SideFits, SetPosition, WorkFits, LifeStep
<1>5. CASE FailOrder
  <2> PICK e \in Event : e = ev
    BY <1>5 DEF FailOrder
  <2>1. OnlyOf(e)
    BY <1>5 DEF FailOrder, SideFits, UpdateOrder, OnlyOf, RowsKept
  <2> QED
    BY <1>5, <2>1, SellMoves DEF FailOrder, SideFits, UpdateOrder, WorkFits, LifeStep
<1>6. CASE SettleSignal
  <2> PICK e \in Event : e = ev
    BY <1>6 DEF SettleSignal
  <2>1. OnlyOf(e)
    BY <1>6 DEF SettleSignal, SetSignal, GoalFits, BuyInv, RetriesUnsigned, OnlyOf, RowsKept
  <2>2. CASE side = "BUY"
    BY <1>6, <2>1, <2>2, BuyMoves DEF SettleSignal, SetSignal, GoalFits, BuyInv,
                                      RetriesUnsigned, WorkFits, ReceivedIsUnsigned, LifeStep
  <2>3. CASE side = "SELL"
    BY <1>6, <2>1, <2>3, SellMoves DEF SettleSignal, SetSignal, GoalFits, BuyInv,
                                       RetriesUnsigned, WorkFits, LifeStep
  <2> QED
    BY <2>2, <2>3
<1>7. CASE ApprovalPending
  <2> PICK e \in Event : e = ev
    BY <1>7 DEF ApprovalPending
  <2>1. OnlyOf(e)
    BY <1>7 DEF ApprovalPending, SetSignal, Retry, BuyInv, BuildsUnsigned, OnlyOf, RowsKept
  <2>2. CASE side = "BUY"
    BY <1>7, <2>1, <2>2, BuyMoves DEF ApprovalPending, SetSignal, Retry, BuyInv,
                                      BuildsUnsigned, WorkFits, ReceivedIsUnsigned, LifeStep
  <2>3. CASE side = "SELL"
    BY <1>7, <2>1, <2>3, SellMoves DEF ApprovalPending, SetSignal, Retry, BuyInv,
                                       BuildsUnsigned, WorkFits, LifeStep
  <2> QED
    BY <2>2, <2>3
<1>8. CASE ZeroQuote
  <2> PICK e \in Event : e = ev
    BY <1>8 DEF ZeroQuote
  <2>1. OnlyOf(e)
    BY <1>8 DEF ZeroQuote, SetSignal, OnlyOf, RowsKept
  <2> QED
    BY <1>8, <2>1, SellMoves DEF ZeroQuote, SetSignal, WorkFits, LifeStep
<1>9. CASE FailSell
  BY <1>9 DEF FailSell, LifeStep, Rests
<1> QED
  BY <1>1, <1>2, <1>3, <1>4, <1>5, <1>6, <1>7, <1>8, <1>9 DEF Handle, LifeStep

LEMMA RecoverLife ==
  ASSUME LifeInv, Recover
  PROVE  LifeStep
<1> USE DEF LifeInv, RoomInv, RowsInv, TypeOK, StoreTypeOK, Side, SignalStatus, PositionStatus,
         SignalFitsPosition, BeforeHeld
<1>1. CASE RecoverUnsigned
  <2> PICK e \in Event : e = ev
    BY <1>1 DEF RecoverUnsigned, Recovering
  <2>1. OnlyOf(e)
    BY <1>1 DEF RecoverUnsigned, Recovering, Unsigned, Retry, SetSignal, OnlyOf, RowsKept
  <2>2. CASE side = "BUY"
    BY <1>1, <2>1, <2>2, BuyMoves DEF RecoverUnsigned, Recovering, Unsigned, Retry, SetSignal,
                                      WorkFits, BuyInv, ReceivedIsUnsigned, LifeStep
  <2>3. CASE side = "SELL"
    BY <1>1, <2>1, <2>3, SellMoves DEF RecoverUnsigned, Recovering, Unsigned, Retry,
                                       SetSignal, WorkFits, LifeStep
  <2> QED
    BY <2>2, <2>3
<1>2. CASE RecoverNotFound
  <2> PICK e \in Event : e = ev
    BY <1>2 DEF RecoverNotFound, Recovering
  <2>1. OnlyOf(e)
    BY <1>2 DEF RecoverNotFound, Recovering, Abandoned, UpdateOrder, SetSignal, OnlyOf,
                RowsKept
  <2> QED
    BY <1>2, <2>1, BuyMoves DEF RecoverNotFound, Recovering, Abandoned, UpdateOrder,
                                SetSignal, WorkFits, BuyInv, ReceivedIsUnsigned, LifeStep
<1>3. CASE RecoverReverted
  <2> PICK e \in Event : e = ev
    BY <1>3 DEF RecoverReverted, Recovering
  <2>1. OnlyOf(e)
    BY <1>3 DEF RecoverReverted, Recovering, UpdateOrder, OnlyOf, RowsKept
  <2>2. CASE side = "BUY"
    BY <1>3, <2>1, <2>2, BuyMoves DEF RecoverReverted, Recovering, UpdateOrder, WorkFits,
                                      BuyInv, ReceivedIsUnsigned, LifeStep
  <2>3. CASE side = "SELL"
    BY <1>3, <2>1, <2>3, SellMoves DEF RecoverReverted, Recovering, UpdateOrder, WorkFits,
                                       LifeStep
  <2> QED
    BY <2>2, <2>3
<1>4. CASE RecoverBought
  <2> PICK e \in Event : e = ev
    BY <1>4 DEF RecoverBought, Recovering
  <2>1. position[e] = "ABSENT" /\ signal[e] \in {"RECEIVED", "BUY_PENDING", "BUY_SUBMITTED"}
    BY <1>4 DEF RecoverBought, WorkFits, Recovering
  <2>2. e \in hashed["BUY"]
    BY <1>4, <2>1 DEF RecoverBought, Recoverable
  <2>3. CASE FinalizeBuy
    BY <2>1, <2>2, <2>3, OpensPosition DEF LifeStep
  <2>4. CASE ~FinalizeBuy
    <3>1. OnlyOf(e)
      BY <1>4, <2>1, <2>4 DEF RecoverBought, UpdateOrder, SetSignal, OnlyOf, RowsKept
    <3> QED
      BY <1>4, <2>1, <2>4, <3>1, BuyMoves DEF RecoverBought, UpdateOrder, SetSignal, LifeStep
  <2> QED
    BY <2>3, <2>4
<1>5. CASE RecoverSold
  <2> PICK e \in Event : e = ev
    BY <1>5 DEF RecoverSold, Recovering
  <2>1. OnlyOf(e)
    BY <1>5 DEF RecoverSold, Recovering, FinalizeSell, MarkSellOutputUnknown, UpdateOrder,
                SetPosition, SetSignal, ClearExitTracking, OnlyOf, RowsKept
  <2> QED
    BY <1>5, <2>1, SellMoves DEF RecoverSold, Recovering, FinalizeSell, MarkSellOutputUnknown,
                                 UpdateOrder, SetPosition, SetSignal, ClearExitTracking,
                                 WorkFits, LifeStep
<1>6. CASE RecoverNothing \/ RecoverPending \/ RecoverError
  BY <1>6 DEF RecoverNothing, RecoverPending, RecoverError, LifeStep, Rests
<1> QED
  BY <1>1, <1>2, <1>3, <1>4, <1>5, <1>6 DEF Recover, LifeStep

LEMMA AcceptLife ==
  ASSUME LifeInv, NEW e \in Event, AcceptSignal(e)
  PROVE  Moves(e)
<1> USE DEF LifeInv, RoomInv, RowsInv, TypeOK, StoreTypeOK, SignalStatus, SignalFitsPosition,
         BeforeHeld, AcceptSignal, SetSignal
<1>1. OnlyOf(e)
  BY DEF OnlyOf, RowsKept
<1>2. StageOf(e) = "unknown" /\ StageOf(e)' = "new"
  BY DEF StageOf, Received, BuysInFlight, WithStatus
<1> QED
  BY <1>1, <1>2 DEF Moves, Lifecycle!Life

LEMMA NextLife ==
  ASSUME LifeInv, [Next]_vars
  PROVE  LifeStep
<1>1. CASE WorkerStep
  BY <1>1, ReconcileLife, BuyLife, SellLife, SubmitLife, HandleLife, RecoverLife DEF WorkerStep
<1>2. CASE Stop
  BY <1>2 DEF Stop, LifeStep, Rests
<1>3. CASE UNCHANGED <<store, work>> /\ ChainNext
  BY <1>3 DEF LifeStep, Rests
<1>4. CASE UNCHANGED <<chain, work>> /\ \E e \in Event : AcceptSignal(e)
  BY <1>4, AcceptLife DEF LifeStep
<1>5. CASE UNCHANGED vars
  BY <1>5 DEF LifeStep, Rests
<1> QED
  BY <1>1, <1>2, <1>3, <1>4, <1>5 DEF Next

LEMMA InitLife == Init => Lifecycle!Init
<1> SUFFICES ASSUME Init PROVE Lifecycle!Init
  OBVIOUS
<1>1. \A e \in Event : StageOf(e) = "unknown"
  BY DEF Init, StoreInit, StageOf
<1>2. (session # "off") \in BOOLEAN
  OBVIOUS
<1> QED
  BY <1>1, <1>2 DEF Lifecycle!Init

\* The worker implements the abstract life of its trades: however rounds fail,
\* stop and recover, the rows of each event tell one life that ends once, and a
\* buy starts only into a free slot.
THEOREM WorkerImplementsLifecycle == Spec => ImplementsLifecycle
<1>1. LifeInv /\ [Next]_vars => [Lifecycle!Next]_<<Stages, session # "off">>
  BY NextLife, StepRefines
<1>2. Spec => []LifeInv
  BY InitRoomInv, NextRoomInv, BuyInvariant, PTL DEF Spec, LifeInv
<1> QED
  BY <1>1, <1>2, InitLife, PTL DEF Spec, ImplementsLifecycle, Lifecycle!Spec, Stages

=============================================================================
