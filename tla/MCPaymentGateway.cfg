\* The transfer endpoint under a client that repeats its keys, and under the page that sends money.
CONSTANTS
  c1 = c1
  c2 = c2
  k1 = k1
  k2 = k2
  Payers = {c1, c2}
  PayKeys = {k1, k2}
  RetryPays = {}
  NoPay = NoPay
  Users <- AllUsers
SPECIFICATION GatewayFairSpec
CHECK_DEADLOCK FALSE
INVARIANTS
  GateIsSound
  ReplaysTellTheTruth
  PageTellsTheTruth
PROPERTIES
  StoredResponseIsKept
  NoKeyStaysLocked
