\* A disbursement on one or two servers, edits of its beneficiaries, crashes and the sweep.
CONSTANTS
  s1 = s1
  s2 = s2
  b1 = b1
  ann = ann
  bob = bob
  eve = eve
  Servers = {s1, s2}
  Batches = {b1}
  People = {ann, bob, eve}
  Scenes <- AllScenes
  FlushEvery = 2
  MaxCrashes = 1
  NoPay = NoPay
  Payers <- Runners
  PayKeys <- Keys
  RetryPays <- Keys
SPECIFICATION DisbursementFairSpec
CHECK_DEADLOCK FALSE
INVARIANTS
  ItemsAreTrue
  PageAddsUp
PROPERTIES
  BatchesAreSound
  EveryDisbursementFinishes
