\* A stop between two commits of one handler.
SPECIFICATION Spec
CONSTANTS
  N = 1
  MaxSellAttempts = 1
  SameSecond = FALSE
  coin = coin
  gem = gem
  Token = {coin}
  TokenOf <- OneEvent
  Faults = {"stop"}
  Live = TRUE
  MaxOpenPositions = 1
INVARIANTS
  RecoverableBetweenRounds
