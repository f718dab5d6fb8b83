\* Every fault; one slot that two events use in turn.
SPECIFICATION Spec
CONSTANTS
  N = 2
  MaxSellAttempts = 2
  SameSecond = FALSE
  coin = coin
  gem = gem
  Token = {coin, gem}
  TokenOf <- TwoTokens
  Faults = {"drop", "late", "mismatch", "manual", "stop"}
  Live = TRUE
  MaxOpenPositions = 1
INVARIANTS
  TypeOK
  WithinCapacity
  ClosedTogether
  StuckSignalIsStuck
  OneBuyPerSession
PROPERTIES
  BuySignedOnce
  ImplementsLifecycle
