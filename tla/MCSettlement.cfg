\* Two settlements of one group in turn, or one on two servers, with crashes and the sweep.
CONSTANTS
  s1 = s1
  s2 = s2
  k1 = k1
  k2 = k2
  Servers = {s1, s2}
  Settlements = {k1, k2}
  Founders = {1, 2, 3}
  Scenes <- AllScenes
  MaxCrashes = 1
  NoPay = NoPay
  Payers <- Runners
  PayKeys <- LineKeys
  RetryPays <- LineKeys
SPECIFICATION SettlementFairSpec
CHECK_DEADLOCK FALSE
INVARIANTS
  TablesAreSound
  BooksBalance
  LinesAreTrue
  ArithmeticIsRight
PROPERTIES
  ConfirmedForGood
  EverySettlementFinishes
