\* A stop between sending an approval and writing it down.
SPECIFICATION Spec
CONSTANTS
  buy = buy
  sell = sell
  other = other
  Event = {buy, sell}
  Buys = {buy}
  Needs <- BuyAndSell
  MaxTx = 3
  Scenarios = {{"stop"}}
PROPERTIES
  ApprovalAwaitsEarlier
CHECK_DEADLOCK FALSE
