---------------------------- MODULE TradingWorker ---------------------------
(***************************************************************************)
(* The trading worker (worker.py) with the parts of uniswap.py that write  *)
(* orders, over the rows of TradingStore and the world of TradingChain.    *)
(*                                                                         *)
(* The worker is one coroutine: a round reconciles positions when that is  *)
(* due, then runs buy_once, then sell_once if buy_once found nothing.  An  *)
(* action is what it does from one commit or one await to the next, so the *)
(* chain, the clock, the API's inserts and a stop of the process fall      *)
(* between any two of them.  pc says what comes next:                      *)
(*   buy      the top of a round        build   approve, build and sign    *)
(*   sell     sell_once                 send    broadcast                  *)
(*   quote    an executable quote       probe   a receipt despite an error *)
(*   touch    write updated_at          submit  order SUBMITTED            *)
(*   create   insert the SELL order     mark    signal *_SUBMITTED         *)
(*   pend     signal *_PENDING          wait    wait_for_receipt           *)
(*   tally    compare with the limit    fail    order FAILED               *)
(*   settle   write goal to the signal                                     *)
(*   recover  recover_submitted, from the top of buy_once or sell_once     *)
(*   recheck  the same call inside sell_once's try (line 370)              *)
(***************************************************************************)
EXTENDS TradingChain

CONSTANTS
  Live,               \* settings.live
  MaxOpenPositions    \* settings.max_open_positions

ASSUME WorkerAssumption ==
  /\ Live \in BOOLEAN
  /\ MaxOpenPositions \in Nat \ {0}

Label == {"buy", "sell", "quote", "touch", "create", "pend", "build", "send",
          "probe", "submit", "mark", "wait", "tally", "fail", "settle",
          "recover", "recheck"}

VARIABLES
  pc,     \* where the worker is
  side,   \* the side of the order it works on
  ev,     \* the event it works on, 0 between two pieces of work
  goal    \* the status that "settle" writes

work == <<pc, side, ev, goal>>
vars == <<store, chain, work>>

Init ==
  /\ StoreInit
  /\ ChainInit
  /\ pc = "buy" /\ side = "BUY" /\ ev = 0 /\ goal = "RECEIVED"

-----------------------------------------------------------------------------
(* Control.                                                                *)

Goto(l) == pc' = l /\ UNCHANGED <<side, ev, goal>>
Take(l, s, e) == pc' = l /\ side' = s /\ ev' = e /\ UNCHANGED goal
Settle(status) == pc' = "settle" /\ goal' = status /\ UNCHANGED <<side, ev>>
SellNext == pc' = "sell" /\ side' = "SELL" /\ ev' = 0 /\ goal' = "RECEIVED"
EndRound == pc' = "buy" /\ side' = "BUY" /\ ev' = 0 /\ goal' = "RECEIVED"

\* buy_once() or sell_once().
Return(found) == IF side = "BUY" /\ ~found THEN SellNext ELSE EndRound

Pending == IF side = "BUY" THEN "BUY_PENDING" ELSE "SELL_PENDING"
Submitted == IF side = "BUY" THEN "BUY_SUBMITTED" ELSE "SELL_SUBMITTED"

\* The status of a signal whose order has not been signed.
Retry == IF side = "BUY" THEN "RECEIVED" ELSE "OPEN"

-----------------------------------------------------------------------------
(* reconcile_positions_once, row by row.  Nothing but the worker writes    *)
(* what a row's query read, so reading it when its turn comes is the same. *)

Candidate(e) ==
  /\ pc = "buy"
  /\ e \in Active
  /\ signal[e] \notin {"SELL_PENDING", "SELL_SUBMITTED"}
  /\ order["SELL"][e] \notin InFlight
\* Mutant: the emergency latch outlives the position.
CloseEmptyKeepsLatch(e) ==
  /\ Candidate(e)
  /\ wallet[TokenOf[e]] = 0
  /\ SetPosition(e, "CLOSED")
  /\ SetSignal(e, "CLOSED", "other")
  /\ UNCHANGED <<orders, failures, state, chain, work>>

CloseEmpty(e) ==
  /\ Candidate(e)
  /\ wallet[TokenOf[e]] = 0
  /\ SetPosition(e, "CLOSED")
  /\ SetSignal(e, "CLOSED", "other")
  /\ ClearExitTracking(e)
  /\ UNCHANGED <<orders, failures, chain, work>>

Reopens(e) == position[e] = "POSITION_STUCK" /\ lastError[e] = "ZERO_QUOTE"

ReopenZeroQuote(e) ==
  /\ Candidate(e)
  /\ wallet[TokenOf[e]] # 0
  /\ Reopens(e)
  /\ position' = [position EXCEPT ![e] = "OPEN"]
  /\ Touch(e)
  /\ SetSignal(e, "OPEN", "other")
  /\ UNCHANGED <<orders, failures, state, chain, work>>

HoldMismatch(e) ==
  /\ Candidate(e)
  /\ wallet[TokenOf[e]] \in 1 .. (Lot - 1)
  /\ ~Reopens(e)
  /\ lastError[e] # "MANUAL_BALANCE_MISMATCH"
  /\ SetPosition(e, "POSITION_STUCK")
  /\ SetSignal(e, "POSITION_STUCK", "MANUAL_BALANCE_MISMATCH")
  /\ UNCHANGED <<orders, failures, state, chain, work>>

-----------------------------------------------------------------------------
(* buy_once, up to its try.                                                *)

BuysInFlight == WithStatus({"BUY_PENDING", "BUY_SUBMITTED"})
Received == WithStatus({"RECEIVED"})

BuyRecover ==
  /\ pc = "buy"
  /\ \E e \in BuysInFlight : IsOldest(e, BuysInFlight) /\ Take("recover", "BUY", e)
  /\ UNCHANGED <<store, chain>>

BuyIdle ==
  /\ pc = "buy"
  /\ BuysInFlight = {}
  /\ Received = {} \/ ~Live
  /\ SellNext
  /\ UNCHANGED <<store, chain>>

\* The oldest RECEIVED signal, when there is no buy to recover first.
NextBuy(e) ==
  /\ pc = "buy"
  /\ BuysInFlight = {}
  /\ IsOldest(e, Received)
  /\ Live
\* Mutant: only last_error is written.
BuyExpiredStaysReceived(e) ==
  /\ NextBuy(e)
  /\ e \in expired
  /\ SetSignal(e, "RECEIVED", "other")
  /\ EndRound
  /\ UNCHANGED <<orders, positions, failures, state, chain>>

BuyExpired(e) ==
  /\ NextBuy(e)
  /\ e \in expired
  /\ SetSignal(e, "EXPIRED", "other")
  /\ EndRound
  /\ UNCHANGED <<orders, positions, failures, state, chain>>

\* Mutants: the session is unlocked by the sale; one position too many.
SessionCompleteWhileHolding == session = "complete" /\ Active # {}
FullPastLimit == Cardinality(Active) > MaxOpenPositions

SessionComplete == session = "complete"
Full == Cardinality(Active) >= MaxOpenPositions

BuySkipped(e) ==
  /\ NextBuy(e)
  /\ e \notin expired
  /\ SessionComplete \/ Full
  /\ SetSignal(e, "SKIPPED", "other")
  /\ SellNext
  /\ UNCHANGED <<orders, positions, failures, state, chain>>

BuyStart(e) ==
  /\ NextBuy(e)
  /\ e \notin expired
  /\ ~SessionComplete
  /\ ~Full
  /\ Take(IF order["BUY"][e] \in {"ABSENT", "CREATED"} THEN "quote" ELSE "recover", "BUY", e)
  /\ UNCHANGED <<store, chain>>

-----------------------------------------------------------------------------
(* sell_once, up to the signal's SELL_PENDING.                             *)

SellsInFlight == WithStatus({"SELL_PENDING", "SELL_SUBMITTED"})

SellRecover ==
  /\ pc = "sell"
  /\ Live
  /\ \E e \in SellsInFlight : IsOldest(e, SellsInFlight) /\ Take("recover", "SELL", e)
  /\ UNCHANGED <<store, chain>>

SellIdle ==
  /\ pc = "sell"
  /\ ~Live \/ (SellsInFlight = {} /\ OpenPositions = {})
  /\ EndRound
  /\ UNCHANGED <<store, chain>>

SellStart ==
  /\ pc = "sell"
  /\ Live
  /\ SellsInFlight = {}
  /\ \E e \in Event : IsStalest(e) /\ Take("quote", "SELL", e)
  /\ UNCHANGED <<store, chain>>
\* Mutant: a rebound of the quote overrides the latch.
SellHoldIgnoresLatch ==
  /\ pc = "quote" /\ side = "SELL"
  /\ lastError' = [lastError EXCEPT ![ev] = "other"]
  /\ Goto("touch")
  /\ UNCHANGED <<signal, orders, positions, failures, state, chain>>

\* The quote is below the target and no crash shows or is latched.
SellHold ==
  /\ pc = "quote" /\ side = "SELL"
  /\ ev \notin latch
  /\ lastError' = [lastError EXCEPT ![ev] = "other"]
  /\ Goto("touch")
  /\ UNCHANGED <<signal, orders, positions, failures, state, chain>>
\* Mutant: updated_at is not written.
HeldUntouched ==
  /\ pc = "touch"
  /\ EndRound
  /\ UNCHANGED <<store, chain>>

TouchHeld ==
  /\ pc = "touch"
  /\ Touch(ev)
  /\ EndRound
  /\ UNCHANGED <<signals, orders, position, failures, state, chain>>

\* The quote reaches the target, shows a crash, or a crash is latched.
SellExit ==
  /\ pc = "quote" /\ side = "SELL"
  /\ \E crash \in BOOLEAN : latch' = IF crash THEN latch \cup {ev} ELSE latch
  /\ Goto("create")
  /\ UNCHANGED <<signals, orders, positions, failures, session, chain>>

\* create_order, then either the inline recovery or the order back to CREATED.
SellCreate ==
  /\ pc = "create"
  /\ IF order["SELL"][ev] \in InFlight
     THEN /\ Goto("recheck")
          /\ UNCHANGED orders
     ELSE /\ order' = [order EXCEPT !["SELL"][ev] = "CREATED"]
          /\ Goto("pend")
          /\ UNCHANGED hashed
  /\ UNCHANGED <<signals, positions, failures, state, chain>>

-----------------------------------------------------------------------------
(* What both sides do with an order: quote, build, sign, send, wait.       *)

BuyQuoted ==
  /\ pc = "quote" /\ side = "BUY"
  /\ CreateOrder("BUY", ev)
  /\ Goto("pend")
  /\ UNCHANGED <<signals, positions, failures, state, chain>>

MarkPending ==
  /\ pc = "pend"
  /\ IF side = "BUY" THEN SetStatus(ev, Pending) ELSE SetSignal(ev, Pending, "other")
  /\ Goto("build")
  /\ UNCHANGED <<orders, positions, failures, state, chain>>

\* Approvals and the transaction are in place; _submit signs it and writes the
\* hash.  It takes the place of an earlier transaction of the order.
Sign ==
  /\ pc = "build"
  /\ UpdateOrderHash(side, ev, "SIGNED")
  /\ tx' = [tx EXCEPT ![side][ev] = "signed"]
  /\ Goto("send")
  /\ UNCHANGED <<signals, positions, failures, state, wallet, expired>>

Broadcast ==
  /\ pc = "send"
  /\ tx' = [tx EXCEPT ![side][ev] = "sent"]
  /\ Goto("submit")
  /\ UNCHANGED <<store, wallet, expired>>

\* RPCError: the transaction may have been taken, or refused.
BroadcastError ==
  /\ pc = "send"
  /\ \/ tx' = [tx EXCEPT ![side][ev] = "sent"]
     \/ "drop" \in Faults /\ tx' = [tx EXCEPT ![side][ev] = "dropped"]
  /\ Goto("probe")
  /\ UNCHANGED <<store, wallet, expired>>

\* RPC_TX_HASH_MISMATCH is handled as a failure (see FailBuy and FailSell).
BroadcastMismatch ==
  /\ pc = "send"
  /\ "mismatch" \in Faults
  /\ tx' = [tx EXCEPT ![side][ev] = "sent"]
  /\ IF side = "BUY"
     THEN /\ UpdateOrder("BUY", ev, "FAILED")
          /\ Settle("BUY_FAILED")
          /\ UNCHANGED failures
     ELSE /\ CountFailure(ev)
          /\ Goto("tally")
          /\ UNCHANGED orders
  /\ UNCHANGED <<signals, positions, state, wallet, expired>>

ProbeFound ==
  /\ pc = "probe"
  /\ Receipt(side, ev)
  /\ Goto("submit")
  /\ UNCHANGED <<store, chain>>
\* Mutant: an unknown submission counts as a failed one.
ProbeUnknownFails ==
  /\ pc = "probe"
  /\ UpdateOrder(side, ev, "FAILED")
  /\ Settle(IF side = "BUY" THEN "BUY_FAILED" ELSE "OPEN")
  /\ UNCHANGED <<signals, positions, failures, state, chain>>

\* SubmissionUnknown and its handler's first commit.
ProbeUnknown ==
  /\ pc = "probe"
  /\ UpdateOrder(side, ev, "UNKNOWN")
  /\ Settle(Submitted)
  /\ UNCHANGED <<signals, positions, failures, state, chain>>

OrderSubmitted ==
  /\ pc = "submit"
  /\ UpdateOrder(side, ev, "SUBMITTED")
  /\ Goto("mark")
  /\ UNCHANGED <<signals, positions, failures, state, chain>>

MarkSubmitted ==
  /\ pc = "mark"
  /\ SetStatus(ev, Submitted)
  /\ Goto("wait")
  /\ UNCHANGED <<orders, positions, failures, state, chain>>

-----------------------------------------------------------------------------
(* What a receipt leads to: each is one transaction.                       *)

FinalizeBuy ==
  /\ UpdateOrder("BUY", ev, "CONFIRMED")
  /\ OpenPosition(ev)
  /\ SetSignal(ev, "OPEN", "other")
  /\ session' = IF session = "armed" THEN "complete" ELSE session
  /\ EndRound
  /\ UNCHANGED <<failures, latch, chain>>

FinalizeSell ==
  /\ UpdateOrder("SELL", ev, "CONFIRMED")
  /\ SetPosition(ev, "CLOSED")
  /\ SetSignal(ev, "CLOSED", "other")
  /\ ClearExitTracking(ev)
  /\ EndRound
  /\ UNCHANGED <<failures, chain>>

MarkSellOutputUnknown ==
  /\ UpdateOrder("SELL", ev, "CONFIRMED")
  /\ SetPosition(ev, "POSITION_STUCK")
  /\ SetSignal(ev, "POSITION_STUCK", "other")
  /\ EndRound
  /\ UNCHANGED <<failures, state, chain>>

Bought ==
  /\ pc = "wait" /\ side = "BUY"
  /\ tx["BUY"][ev] = "ok"
  /\ FinalizeBuy

Sold ==
  /\ pc = "wait" /\ side = "SELL"
  /\ tx["SELL"][ev] \in {"ok", "empty"}
  /\ IF tx["SELL"][ev] = "ok" THEN FinalizeSell ELSE MarkSellOutputUnknown

-----------------------------------------------------------------------------
(* The exception handlers of buy_once and sell_once.                       *)
\* Mutants: a timeout counts as a failure, and the signal is tried again or not.
ReceiptTimeoutRetries ==
  /\ pc = "wait"
  /\ UpdateOrder(side, ev, "FAILED")
  /\ Settle(Retry)
  /\ UNCHANGED <<signals, positions, failures, state, chain>>
ReceiptTimeoutFailsOrder ==
  /\ pc = "wait"
  /\ UpdateOrder(side, ev, "FAILED")
  /\ Settle(Submitted)
  /\ UNCHANGED <<signals, positions, failures, state, chain>>

\* TimeoutError comes from wait_for_receipt only.
ReceiptTimeout ==
  /\ pc = "wait"
  /\ UpdateOrder(side, ev, "UNKNOWN")
  /\ Settle(Submitted)
  /\ UNCHANGED <<signals, positions, failures, state, chain>>

\* RPCError: an order with a hash goes back to its recovery, even when the
\* hash is that of an earlier transaction; one without is tried again.
RpcFailure ==
  /\ pc \in {"quote", "build", "wait", "recheck"}
  /\ IF ev \in hashed[side]
     THEN UpdateOrder(side, ev, "UNKNOWN") /\ Settle(Submitted) /\ UNCHANGED positions
     ELSE /\ IF side = "BUY" THEN UNCHANGED older ELSE Touch(ev)
          /\ Settle(Retry)
          /\ UNCHANGED <<orders, position>>
  /\ UNCHANGED <<signals, failures, state, chain>>

\* ExecutionFailure in buy_once: before signing, reverted, or nothing received.
FailBuy ==
  /\ side = "BUY"
  /\ \/ pc \in {"quote", "build"}
     \/ pc = "wait" /\ tx["BUY"][ev] \in {"reverted", "empty"}
  /\ UpdateOrder("BUY", ev,
       IF pc = "wait" /\ tx["BUY"][ev] = "reverted" THEN "REVERTED" ELSE "FAILED")
  /\ Settle("BUY_FAILED")
  /\ UNCHANGED <<signals, positions, failures, state, chain>>

\* ExecutionFailure in sell_once: the SELL/FAILED attempt is committed first.
FailSell ==
  /\ side = "SELL"
  /\ \/ pc \in {"quote", "build"}
     \/ pc = "wait" /\ tx["SELL"][ev] = "reverted"
  /\ CountFailure(ev)
  /\ Goto("tally")
  /\ UNCHANGED <<signals, orders, positions, state, chain>>

Exhausted(e) == failures[e] >= MaxSellAttempts
\* Mutants: mark_stuck is not called; one failure too many is allowed.
TallyWithoutMarkStuck ==
  /\ pc = "tally"
  /\ IF Exhausted(ev)
     THEN goal' = "POSITION_STUCK" /\ UNCHANGED positions
     ELSE Touch(ev) /\ goal' = "OPEN" /\ UNCHANGED position
  /\ pc' = "fail" /\ UNCHANGED <<side, ev>>
  /\ UNCHANGED <<signals, orders, failures, state, chain>>
TallyPastLimit ==
  /\ pc = "tally"
  /\ IF failures[ev] > MaxSellAttempts
     THEN SetPosition(ev, "POSITION_STUCK") /\ goal' = "POSITION_STUCK"
     ELSE Touch(ev) /\ goal' = "OPEN" /\ UNCHANGED position
  /\ pc' = "fail" /\ UNCHANGED <<side, ev>>
  /\ UNCHANGED <<signals, orders, failures, state, chain>>

TallyFailure ==
  /\ pc = "tally"
  /\ IF Exhausted(ev)
     THEN SetPosition(ev, "POSITION_STUCK") /\ goal' = "POSITION_STUCK"
     ELSE Touch(ev) /\ goal' = "OPEN" /\ UNCHANGED position
  /\ pc' = "fail" /\ UNCHANGED <<side, ev>>
  /\ UNCHANGED <<signals, orders, failures, state, chain>>
\* Mutant: the signal's status is written to the order.
FailOrderWithSignalStatus ==
  /\ pc = "fail"
  /\ UpdateOrder("SELL", ev, goal)
  /\ Goto("settle")
  /\ UNCHANGED <<signals, positions, failures, state, chain>>

FailOrder ==
  /\ pc = "fail"
  /\ UpdateOrder("SELL", ev, "FAILED")
  /\ Goto("settle")
  /\ UNCHANGED <<signals, positions, failures, state, chain>>

\* The handler's last commit, and the last of recover_submitted on a revert.
SettleSignal ==
  /\ pc = "settle"
  /\ SetSignal(ev, goal, "other")
  /\ EndRound
  /\ UNCHANGED <<orders, positions, failures, state, chain>>

ApprovalPending ==
  /\ pc = "build"
  /\ SetSignal(ev, Retry, "other")
  /\ IF side = "BUY" THEN UNCHANGED older ELSE Touch(ev)
  /\ EndRound
  /\ UNCHANGED <<orders, position, failures, state, chain>>

\* For a BUY this code is a failure like any other (see FailBuy).
ZeroQuote ==
  /\ pc = "quote" /\ side = "SELL"
  /\ SetSignal(ev, "OPEN", "ZERO_QUOTE")
  /\ Touch(ev)
  /\ EndRound
  /\ UNCHANGED <<orders, position, failures, state, chain>>

-----------------------------------------------------------------------------
(* recover_submitted.                                                      *)

Recovering == pc \in {"recover", "recheck"}
Unsigned(s, e) == order[s][e] = "CREATED" /\ e \notin hashed[s]
Recoverable(s, e) == order[s][e] \in InFlight /\ e \in hashed[s]

\* PRE_SUBMISSION_RETRY.
RecoverUnsigned ==
  /\ Recovering
  /\ Unsigned(side, ev)
  /\ SetSignal(ev, Retry, "other")
  /\ IF side = "BUY" THEN UNCHANGED older ELSE Touch(ev)
  /\ EndRound
  /\ UNCHANGED <<orders, position, failures, state, chain>>

RecoverNothing ==
  /\ Recovering
  /\ ~Unsigned(side, ev)
  /\ ~Recoverable(side, ev)
  /\ Return(FALSE)
  /\ UNCHANGED <<store, chain>>

Abandoned == side = "BUY" /\ ev \in expired /\ NotFound(side, ev)

RecoverPending ==
  /\ Recovering
  /\ Recoverable(side, ev)
  /\ ~Receipt(side, ev)
  /\ ~Abandoned \/ tx[side][ev] = "sent"
  /\ Return(FALSE)
  /\ UNCHANGED <<store, chain>>
\* Mutant: a buy that is not found is sent again.
RecoverNotFoundRetries ==
  /\ Recovering /\ side = "BUY"
  /\ Recoverable(side, ev)
  /\ NotFound(side, ev)
  /\ UpdateOrder(side, ev, "CREATED")
  /\ SetSignal(ev, "RECEIVED", "other")
  /\ EndRound
  /\ UNCHANGED <<positions, failures, state, chain>>

\* BROADCAST_NOT_FOUND: one transaction (the nonce is reconciled after it).
RecoverNotFound ==
  /\ Recovering
  /\ Recoverable(side, ev)
  /\ Abandoned
  /\ UpdateOrder(side, ev, "FAILED")
  /\ SetSignal(ev, "EXPIRED", "other")
  /\ EndRound
  /\ UNCHANGED <<positions, failures, state, chain>>
\* Mutants: a buy that reverted is tried again; the signal is left as it is.
RecoverRevertedRetries ==
  /\ Recovering
  /\ Recoverable(side, ev)
  /\ tx[side][ev] = "reverted"
  /\ UpdateOrder(side, ev, "REVERTED")
  /\ Settle(Retry)
  /\ UNCHANGED <<signals, positions, failures, state, chain>>
RecoverRevertedKeepsSignal ==
  /\ Recovering
  /\ Recoverable(side, ev)
  /\ tx[side][ev] = "reverted"
  /\ UpdateOrder(side, ev, "REVERTED")
  /\ Settle(Submitted)
  /\ UNCHANGED <<signals, positions, failures, state, chain>>

RecoverReverted ==
  /\ Recovering
  /\ Recoverable(side, ev)
  /\ tx[side][ev] = "reverted"
  /\ UpdateOrder(side, ev, "REVERTED")
  /\ Settle(IF side = "BUY" THEN "BUY_FAILED" ELSE "OPEN")
  /\ UNCHANGED <<signals, positions, failures, state, chain>>

RecoverBought ==
  /\ Recovering /\ side = "BUY"
  /\ Recoverable(side, ev)
  /\ tx["BUY"][ev] \in {"ok", "empty"}
  /\ IF tx["BUY"][ev] = "ok"
     THEN FinalizeBuy
     ELSE /\ UpdateOrder("BUY", ev, "CONFIRMED")
          /\ SetSignal(ev, "BUY_FAILED", "other")
          /\ EndRound
          /\ UNCHANGED <<positions, failures, state, chain>>

RecoverSold ==
  /\ Recovering /\ side = "SELL"
  /\ Recoverable(side, ev)
  /\ tx["SELL"][ev] \in {"ok", "empty"}
  /\ IF position[ev] = "ABSENT"
     THEN /\ UpdateOrder("SELL", ev, "CONFIRMED")
          /\ SetSignal(ev, "POSITION_STUCK", "other")
          /\ EndRound
          /\ UNCHANGED <<positions, failures, state, chain>>
     ELSE IF tx["SELL"][ev] = "ok" THEN FinalizeSell ELSE MarkSellOutputUnknown

\* RPCError, or a pool that does not resolve after a restart: run() catches it.
RecoverError ==
  /\ pc = "recover"
  /\ EndRound
  /\ UNCHANGED <<store, chain>>

-----------------------------------------------------------------------------
(* The process stops and starts again, or an exception that worker.py does *)
(* not name reaches run(): the rest of the round is lost, the rows stay.   *)

Stop ==
  /\ "stop" \in Faults
  /\ pc # "buy"
  /\ EndRound
  /\ UNCHANGED <<store, chain>>

-----------------------------------------------------------------------------
Reconcile ==
  \E e \in Event : CloseEmpty(e) \/ ReopenZeroQuote(e) \/ HoldMismatch(e)

Buy ==
  \/ BuyRecover
  \/ BuyIdle
  \/ \E e \in Event : BuyExpired(e) \/ BuySkipped(e) \/ BuyStart(e)

Sell ==
  \/ SellRecover
  \/ SellIdle
  \/ SellStart
  \/ SellHold
  \/ TouchHeld
  \/ SellExit
  \/ SellCreate

Submit ==
  \/ BuyQuoted
  \/ MarkPending
  \/ Sign
  \/ Broadcast
  \/ BroadcastError
  \/ BroadcastMismatch
  \/ ProbeFound
  \/ ProbeUnknown
  \/ OrderSubmitted
  \/ MarkSubmitted
  \/ Bought
  \/ Sold

Handle ==
  \/ ReceiptTimeout
  \/ RpcFailure
  \/ FailBuy
  \/ FailSell
  \/ TallyFailure
  \/ FailOrder
  \/ SettleSignal
  \/ ApprovalPending
  \/ ZeroQuote

Recover ==
  \/ RecoverUnsigned
  \/ RecoverNothing
  \/ RecoverPending
  \/ RecoverNotFound
  \/ RecoverReverted
  \/ RecoverBought
  \/ RecoverSold
  \/ RecoverError

WorkerStep == Reconcile \/ Buy \/ Sell \/ Submit \/ Handle \/ Recover

Next ==
  \/ WorkerStep
  \/ Stop
  \/ UNCHANGED <<store, work>> /\ ChainNext
  \/ UNCHANGED <<chain, work>> /\ \E e \in Event : AcceptSignal(e)

Spec == Init /\ [][Next]_vars

TypeOK ==
  /\ StoreTypeOK
  /\ ChainTypeOK
  /\ pc \in Label
  /\ side \in Side
  /\ ev \in Event \cup {0}
  /\ goal \in SignalStatus
  /\ pc \notin {"buy", "sell"} => ev \in Event

-----------------------------------------------------------------------------
(* The life of a trade that the rows stand for.                            *)

StageOf(e) ==
  IF position[e] # "ABSENT"
  THEN [OPEN |-> IF order["SELL"][e] \in InFlight THEN "selling" ELSE "held",
        POSITION_STUCK |-> "stuck",
        CLOSED |-> "gone"][position[e]]
  ELSE IF signal[e] = "ABSENT" THEN "unknown"
  ELSE IF e \in Received \cup (BuysInFlight \ hashed["BUY"]) THEN "new"
  ELSE IF e \in BuysInFlight THEN "buying"
  ELSE "void"

Lifecycle ==
  INSTANCE TradeLifecycle WITH
    Trade <- Event,
    MaxOpen <- MaxOpenPositions,
    stage <- [e \in Event |-> StageOf(e)],
    single <- (session # "off")

\* The rows of every event tell one life of a trade, through failures, stops and
\* recoveries: what may have been bought is never new again, a trade that ended
\* stays ended, and a buy starts only when no other one is open, a slot is free
\* and the single-buy session is unused (buy_once, sell_once,
\* recover_submitted, reconcile_positions_once).
ImplementsLifecycle == Lifecycle!Spec

-----------------------------------------------------------------------------
(* Safety whatever the environment does.                                   *)

\* Every event is bought at most once: no transaction is signed for a BUY that
\* had one before, however often the worker fails, stops or recovers
\* (docs/ARCHITECTURE.md:32; buy_once, recover_submitted).
BuySignedOnce ==
  [][\A e \in Event :
       tx["BUY"][e] # "signed" /\ tx'["BUY"][e] = "signed" => tx["BUY"][e] = "none"]_vars

\* The slots of max_open_positions are never oversubscribed, counting a buy
\* whose outcome is open as the position it may become (worker.py:163-170).
WithinCapacity ==
  Cardinality(Active) + Cardinality(BuysInFlight) <= MaxOpenPositions

\* A signal and its position are closed together, with the emergency latch
\* gone, by whichever of the two ways a position is closed (worker.py:63-72
\* and 107-119).
ClosedTogether ==
  \A e \in Event :
    /\ signal[e] = "CLOSED" <=> position[e] = "CLOSED"
    /\ e \in latch => e \in Active

\* A signal says POSITION_STUCK only of a position that is: a stop between the
\* commits of a failed sell leaves the two apart only the other way round
\* (worker.py:423-441, mark_stuck, reconcile_positions_once).
StuckSignalIsStuck ==
  \A e \in Event : signal[e] = "POSITION_STUCK" => position[e] = "POSITION_STUCK"

\* In a single-buy session one position is opened, and never a second one,
\* not even by the recovery of a buy (worker.py:53-61 and 156-162).
OneBuyPerSession ==
  session # "off" => Cardinality({e \in Event : position[e] # "ABSENT"}) <= 1

-----------------------------------------------------------------------------
(* Safety when the RPC endpoints tell the truth: neither "late" nor        *)
(* "mismatch", and nobody else sells.                                      *)

\* A SELL is signed again only after its earlier transaction was reverted: what
\* may have been sold is not sold twice (docs/ARCHITECTURE.md:42).
SellSignedAgainOnlyAfterRevert ==
  [][\A e \in Event :
       tx["SELL"][e] # "signed" /\ tx'["SELL"][e] = "signed"
         => tx["SELL"][e] \in {"none", "reverted"}]_vars

Settled(e) == \A s \in Side : order[s][e] \notin InFlight
Held(e) == position[e] \in {"OPEN", "POSITION_STUCK"} /\ tx["SELL"][e] \notin {"ok", "empty"}

\* The books and the wallet agree: once no order of a token is in flight, the
\* wallet holds what the unsold positions in that token track, no more (a buy
\* nobody monitors) and no less (a position already sold).
BooksBalance ==
  \A t \in Token :
    LET events == {e \in Event : TokenOf[e] = t}
    IN  (\A e \in events : Settled(e))
          => wallet[t] = Lot * Cardinality({e \in events : Held(e)})

\* Between rounds, a signal that waits for an order has one that
\* recover_submitted can act on; else nothing writes the signal any more and
\* it stays at the head of its queue (worker.py:249-259).
RecoverableBetweenRounds ==
  pc = "buy" =>
    \A e \in Event :
      /\ signal[e] \in {"BUY_PENDING", "BUY_SUBMITTED"} => Unsigned("BUY", e) \/ Recoverable("BUY", e)
      /\ signal[e] \in {"SELL_PENDING", "SELL_SUBMITTED"} => Unsigned("SELL", e) \/ Recoverable("SELL", e)

\* A position that used up max_sell_attempts is not tried again (README.md:31;
\* worker.py:424-429).
NoRetryWhenExhausted ==
  pc \in {"buy", "sell"} => \A e \in OpenPositions : ~Exhausted(e)

-----------------------------------------------------------------------------
(* Liveness.                                                               *)

RecoverAnswered == Recover /\ ~RecoverError
BuyIncluded(e) == MineBuy(e) \/ MineRevert("BUY", e) \/ Publish("BUY", e) \/ Drop("BUY", e)
SellIncluded(e) == MineSell(e) \/ MineRevert("SELL", e) \/ Publish("SELL", e) \/ Drop("SELL", e)

(***************************************************************************)
(* run() goes on from every exception and every await ends, at the latest  *)
(* with a timeout; time passes, and what the chain was sent is included.   *)
(* A receipt that is asked for again and again is read in the end.         *)
(***************************************************************************)
Fairness ==
  /\ WF_vars(WorkerStep)
  /\ WF_vars(UNCHANGED <<store, work>> /\ \E e \in Event : Expire(e))
  /\ WF_vars(UNCHANGED <<store, work>> /\ \E e \in Event : BuyIncluded(e))
  /\ WF_vars(UNCHANGED <<store, work>> /\ \E e \in Event : SellIncluded(e))
  /\ SF_vars(RecoverAnswered)

\* A crashed position that is quoted and built for again and again gets its
\* quote and its transaction in the end.
LatchFairness ==
  /\ SF_vars(ev \in latch /\ (SellHold \/ SellExit))
  /\ SF_vars(ev \in latch /\ Sign)

FairSpec == Spec /\ Fairness /\ LatchFairness

\* Every accepted signal is decided: bought, or given up for good.
BuysDecided ==
  \A e \in Event :
    signal[e] = "RECEIVED" ~> signal[e] \notin {"RECEIVED", "BUY_PENDING", "BUY_SUBMITTED"}

\* No sell stays in flight, where it would hold up every other sell.
SellsResolve ==
  \A e \in Event : e \in SellsInFlight ~> e \notin SellsInFlight

Quoted(e) == pc = "quote" /\ side = "SELL" /\ ev = e
SellReverted == \E e \in Event : tx["SELL"][e] = "reverted"

\* Positions take turns: every position is quoted again and again until it is
\* closed or stuck, while no sell is reverted (the writes of updated_at in
\* sell_once, IsStalest).
TakesTurns ==
  \A e \in Event : position[e] = "OPEN" ~> position[e] # "OPEN" \/ Quoted(e) \/ SellReverted

\* A crash once seen gets the position out, through rebounds of the quote and
\* failures to quote or build, unless a sell is reverted
\* (docs/ARCHITECTURE.md:55).
LatchedPositionLeaves ==
  \A e \in Event : e \in latch ~> position[e] # "OPEN" \/ SellReverted
=============================================================================
