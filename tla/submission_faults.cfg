\* A count that lags; a wallet that cannot sign; replies that say nothing of the
\* transaction; restarts.
SPECIFICATION Spec
CONSTANTS
  buy = buy
  sell = sell
  other = other
  Event = {buy, sell}
  Buys = {buy}
  Needs <- BuyAndSell
  MaxTx = 5
  Scenarios = {{"lag", "revert", "lapse"},
               {"stop", "signing", "revert"},
               {"drop", "signing", "revert"},
               {"drop", "signing", "silent"},
               {"stop", "mismatch", "garbled"},
               {"drop", "mismatch", "garbled"}}
INVARIANTS
  TypeOK
  NonceUnique
  NoGap
  NoncesAccounted
PROPERTIES
  ApprovalAwaitsRecorded
CHECK_DEADLOCK FALSE
