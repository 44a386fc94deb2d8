\* Calls and reconciliations racing over replay keys and a retry key.
CONSTANTS
  ann = ann
  bob = bob
  pay = pay
  back = back
  over = over
  NoKey = NoKey
  Users = {ann, bob}
  Keys = {pay, back, over}
  RetryKeys = {back}
  Intent <- ThreeKeys
  Opening <- RichBoth
  Callers = {c1, c2}
  Verifiers = {v1}
  MaxPolls = 1
SPECIFICATION FairSpec
CHECK_DEADLOCK FALSE
INVARIANTS
  EngineSound
  LedgerIsSound
  SuccessIsTrue
  AuditIsComplete
PROPERTIES
  ImplementsAtomicTransfers
  EveryCallAnswered
