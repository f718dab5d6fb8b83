\* No faults but lost receipts.
SPECIFICATION FairSpec
CONSTANTS
  buy = buy
  sell = sell
  other = other
  Event = {sell, other}
  Buys = {}
  Needs <- TwoSells
  MaxTx = 5
  Scenarios = {{}}
PROPERTIES
  EverySwapSigned
CHECK_DEADLOCK FALSE
