\* The PRD: the headline "Transfer completed" is shown for a transfer that has moved.
CONSTANTS
  c1 = c1
  c2 = c2
  k1 = k1
  k2 = k2
  Payers = {c1, c2}
  PayKeys = {k1, k2}
  RetryPays = {}
  NoPay = NoPay
  Users <- OnlyPage
SPECIFICATION GatewaySpec
CHECK_DEADLOCK FALSE
INVARIANT HeadlineMeansMoved
