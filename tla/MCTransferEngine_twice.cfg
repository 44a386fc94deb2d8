\* A claim of the documentation that a racing verify refutes.
CONSTANTS
  ann = ann
  bob = bob
  pay = pay
  back = back
  over = over
  NoKey = NoKey
  Users = {ann, bob}
  Keys = {pay}
  RetryKeys = {pay}
  Intent <- OneKey
  Opening <- RichAnn
  Callers = {c1, c2}
  Verifiers = {v1}
  MaxPolls = 1
SPECIFICATION Spec
CHECK_DEADLOCK FALSE
INVARIANTS
  NeverPaidTwice
