\* No faults; two positions that share the worker.
SPECIFICATION FairSpec
CONSTANTS
  N = 2
  MaxSellAttempts = 1
  SameSecond = FALSE
  coin = coin
  gem = gem
  Token = {coin, gem}
  TokenOf <- TwoTokens
  Faults = {}
  Live = TRUE
  MaxOpenPositions = 2
INVARIANTS
  RecoverableBetweenRounds
  NoRetryWhenExhausted
PROPERTIES
  BuysDecided
  SellsResolve
  TakesTurns
  LatchedPositionLeaves
