\* Two candidates, one orphan beside a full round, both exits and both crashes.
SPECIFICATION FairSpec
CONSTANTS
  Task = {1, 2, 3}
  MaxInFlight = 2
  Interval = 1
  Retries = 1
  Errors = {"reverted", "limited", "silent", "garbled"}
  r1 = r1
  r2 = r2
  none = none
  Candidates = {{r1}, {r1, r2}}
  Quote = {1, 12, 130}
  Cost = 10
  MaxQuotes = 2
INVARIANTS
  TypeOK
  RefusalsAreTheMarkets
  TradesTheBestQuote
  ExitsWhenDue
PROPERTIES
  RoundsEnd
\* The watch ends with its position.
CHECK_DEADLOCK FALSE
