\* An endpoint may answer HTTP 403.
SPECIFICATION FairSpec
CONSTANTS
  Task = {1, 2, 3}
  MaxInFlight = 2
  Interval = 1
  Retries = 1
  Errors = {"reverted", "forbidden", "limited", "silent", "garbled"}
  r1 = r1
  r2 = r2
  none = none
  Candidates = {{r1}, {r1, r2}}
  Quote = {1, 12, 130}
  Cost = 10
  MaxQuotes = 2
INVARIANTS
  RefusalsAreTheMarkets
CHECK_DEADLOCK FALSE
