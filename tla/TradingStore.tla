---------------------------- MODULE TradingStore ----------------------------
(***************************************************************************)
(* The durable state of fomo-trader: the SQLite rows that the worker reads *)
(* and writes (db.py, orders.py, positions.py).  A signal is named by its  *)
(* event_id, and events are numbered by received_at, the order in which    *)
(* the worker takes them.                                                  *)
(*                                                                         *)
(* Each table is kept as one function per column that some code reads      *)
(* back; amounts, identifiers, timestamps and audit facts are left out.    *)
(* The operators below are the writes of those modules.  Each is one SQL   *)
(* statement; the worker's actions group them into transactions.           *)
(***************************************************************************)
EXTENDS Naturals, FiniteSets

CONSTANTS
  N,                  \* how many events the API ever accepts
  MaxSellAttempts,    \* settings.max_sell_attempts
  SameSecond          \* may two writes of updated_at fall in one second?

ASSUME StoreAssumption ==
  /\ N \in Nat \ {0}
  /\ MaxSellAttempts \in Nat \ {0}
  /\ SameSecond \in BOOLEAN

Event == 1 .. N
Side == {"BUY", "SELL"}

\* "ABSENT" stands for "no such row".
SignalStatus == {"ABSENT", "RECEIVED", "BUY_PENDING", "BUY_SUBMITTED", "OPEN",
                 "SELL_PENDING", "SELL_SUBMITTED", "CLOSED", "POSITION_STUCK",
                 "BUY_FAILED", "SKIPPED", "EXPIRED"}
OrderStatus == {"ABSENT", "CREATED", "SIGNED", "SUBMITTED", "UNKNOWN",
                "CONFIRMED", "REVERTED", "FAILED"}
PositionStatus == {"ABSENT", "OPEN", "POSITION_STUCK", "CLOSED"}

\* Of signals.last_error the code reads back only these two values.
LastError == {"other", "ZERO_QUOTE", "MANUAL_BALANCE_MISMATCH"}

VARIABLES
  signal,     \* signals.status
  lastError,  \* signals.last_error
  order,      \* orders.status, one row for each side of each event
  hashed,     \* the orders whose tx_hash is not null
  position,   \* positions.status
  older,      \* <<a, b>>: the updated_at of position a is before that of b
  failures,   \* execution_attempts with side SELL and status FAILED, counted
              \* up to MaxSellAttempts, past which no code distinguishes
  latch,      \* the events with an emergency_exit row in system_state
  session     \* "off" if settings.single_buy_test_session is empty; else
              \* "complete" once system_state has its row, "armed" before

signals   == <<signal, lastError>>
orders    == <<order, hashed>>
positions == <<position, older>>
state     == <<latch, session>>
store     == <<signals, orders, positions, failures, state>>

StoreTypeOK ==
  /\ signal \in [Event -> SignalStatus]
  /\ lastError \in [Event -> LastError]
  /\ order \in [Side -> [Event -> OrderStatus]]
  /\ hashed \in [Side -> SUBSET Event]
  /\ position \in [Event -> PositionStatus]
  /\ older \in SUBSET (Event \X Event)
  /\ failures \in [Event -> 0 .. MaxSellAttempts]
  /\ latch \in SUBSET Event
  /\ session \in {"off", "armed", "complete"}

StoreInit ==
  /\ signal = [e \in Event |-> "ABSENT"]
  /\ lastError = [e \in Event |-> "other"]
  /\ order = [s \in Side |-> [e \in Event |-> "ABSENT"]]
  /\ hashed = [s \in Side |-> {}]
  /\ position = [e \in Event |-> "ABSENT"]
  /\ older = {}
  /\ failures = [e \in Event |-> 0]
  /\ latch = {}
  /\ session \in {"off", "armed"}

-----------------------------------------------------------------------------
(* Queries.                                                                *)

WithStatus(statuses) == {e \in Event : signal[e] \in statuses}

\* ORDER BY received_at LIMIT 1.
IsOldest(e, S) == e \in S /\ \A f \in S : e <= f

InFlight == {"SIGNED", "SUBMITTED", "UNKNOWN"}
Active == {e \in Event : position[e] \in {"OPEN", "POSITION_STUCK"}}
OpenPositions == {e \in Event : position[e] = "OPEN"}

\* ORDER BY updated_at, opened_at LIMIT 1.  Positions are opened in the order
\* of their events, because the worker finishes one buy before the next.
IsStalest(e) ==
  /\ e \in OpenPositions
  /\ \A f \in OpenPositions \ {e} :
       <<e, f>> \in older \/ (<<f, e>> \notin older /\ e < f)

-----------------------------------------------------------------------------
(* Writes.                                                                 *)

SetSignal(e, status, error) ==
  /\ signal' = [signal EXCEPT ![e] = status]
  /\ lastError' = [lastError EXCEPT ![e] = error]

\* An UPDATE that leaves last_error alone.
SetStatus(e, status) ==
  /\ signal' = [signal EXCEPT ![e] = status]
  /\ UNCHANGED lastError

\* INSERT OR IGNORE.
CreateOrder(side, e) ==
  /\ order' = [order EXCEPT ![side][e] = IF @ = "ABSENT" THEN "CREATED" ELSE @]
  /\ UNCHANGED hashed

\* An UPDATE of a row that does not exist changes nothing.
UpdateOrder(side, e, status) ==
  /\ order' = [order EXCEPT ![side][e] = IF @ = "ABSENT" THEN @ ELSE status]
  /\ UNCHANGED hashed

UpdateOrderHash(side, e, status) ==
  /\ order' = [order EXCEPT ![side][e] = IF @ = "ABSENT" THEN @ ELSE status]
  /\ hashed' = [hashed EXCEPT ![side] = @ \cup {e}]

\* The attempt is counted again by the very next statement, up to the limit.
CountFailure(e) ==
  failures' = [failures EXCEPT ![e] = IF @ = MaxSellAttempts THEN @ ELSE @ + 1]

\* updated_at becomes the current second: later than every other one, or equal
\* to the latest of them.  It is only read of OPEN rows, and the one write that
\* makes a row OPEN again sets it again, so only OPEN rows are ordered.
Touch(e) ==
  LET rest == OpenPositions \ {e}
      others == older \cap (rest \X rest)
      overtaken == {p[1] : p \in others}
  IN  \/ older' = others \cup {<<f, e>> : f \in rest}
      \/ SameSecond /\ older' = others \cup {<<f, e>> : f \in overtaken}

\* INSERT OR IGNORE.
OpenPosition(e) ==
  /\ position' = [position EXCEPT ![e] = IF @ = "ABSENT" THEN "OPEN" ELSE @]
  /\ Touch(e)

SetPosition(e, status) ==
  /\ position' = [position EXCEPT ![e] = IF @ = "ABSENT" THEN @ ELSE status]
  /\ UNCHANGED older

ClearExitTracking(e) == latch' = latch \ {e} /\ UNCHANGED session

\* accept_signal: the row is inserted only if its event_id is new.
AcceptSignal(e) ==
  /\ signal[e] = "ABSENT"
  /\ \A f \in Event : f < e => signal[f] # "ABSENT"
  /\ SetSignal(e, "RECEIVED", "other")
  /\ UNCHANGED <<orders, positions, failures, state>>

=============================================================================
