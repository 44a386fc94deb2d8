\* Calls of execute alone, retrying one key and replaying the other.
CONSTANTS
  ann = ann
  bob = bob
  pay = pay
  back = back
  over = over
  NoKey = NoKey
  Users = {ann, bob}
  Keys = {pay, back}
  RetryKeys = {pay}
  Intent <- TopUpKeys
  Opening <- PoorAnn
  Callers = {c1, c2, c3, c4}
  Verifiers = {}
  MaxPolls = 1
SPECIFICATION Spec
SYMMETRY Symmetry
CHECK_DEADLOCK FALSE
INVARIANTS
  MovedAtMostOnce
  FailedMeansNotMoved
  DenialIsFinal
