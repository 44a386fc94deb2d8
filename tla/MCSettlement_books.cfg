\* A claim of a comment: the books of a settled group say what actually moved.
CONSTANTS
  s1 = s1
  s2 = s2
  k1 = k1
  k2 = k2
  Servers = {s1, s2}
  Settlements = {k1, k2}
  Founders = {1, 2, 3}
  Scenes <- OnePartial
  MaxCrashes = 1
  NoPay = NoPay
  Payers <- Runners
  PayKeys <- LineKeys
  RetryPays <- LineKeys
SPECIFICATION SettlementSpec
CHECK_DEADLOCK FALSE
INVARIANTS
  BooksFollowTheMoney
