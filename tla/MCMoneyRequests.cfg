\* Requests in both directions: approvals race a reject or cancel and the sweep, fail, are topped up and repeated.
CONSTANTS
  ann = ann
  bob = bob
  asksAnn = asksAnn
  asksBob = asksBob
  fromAnn = fromAnn
  fromBob = fromBob
  spare = spare
  NoKey = NoKey
  NoRequest = NoRequest
  Users = {ann, bob}
  Keys = {fromAnn, fromBob, spare}
  RetryKeys = {fromAnn, fromBob, spare}
  Intent <- TwoIntents
  Opening <- PoorAnn
  Requests = {asksAnn, asksBob}
  ApprovalKey <- TwoRequests
  Callers = {c1, c2}
  Deciders = {d1}
  Verifiers = {}
  MaxPolls = 1
SPECIFICATION RequestFairSpec
CHECK_DEADLOCK FALSE
INVARIANTS
  RequestPaidOnce
  StatusIsTrue
PROPERTIES
  ResolutionIsFinal
  ResolvedRequestsStayUnpaid
  ImplementsPayments
  EveryApprovalAnswered
