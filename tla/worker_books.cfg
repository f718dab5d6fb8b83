\* Truthful endpoints; two positions in one token.
SPECIFICATION Spec
CONSTANTS
  N = 2
  MaxSellAttempts = 1
  SameSecond = TRUE
  coin = coin
  gem = gem
  Token = {coin}
  TokenOf <- OneToken
  Faults = {"drop", "stop"}
  Live = TRUE
  MaxOpenPositions = 2
INVARIANTS
  BooksBalance
PROPERTIES
  SellSignedAgainOnlyAfterRevert
