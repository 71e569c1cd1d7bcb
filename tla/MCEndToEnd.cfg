CONSTANTS
  issuer1 = issuer1
  holder1 = holder1
  issuer2 = issuer2
  holder2 = holder2
  noClaims = noClaims
  Party = {issuer1, holder1, issuer2, holder2}
  Scope <- MCScope
  scopeOf <- MCScopeOf
  ClaimMap <- MCClaimMap
  NoClaims = noClaims
  Expiry <- MCExpiry
  Text = {smoke}
  NoText = noText
  Absent = absent
  bogusAdmin = bogus
  Script = {"persona", "sumsub", "didit", "firm"}
  MaxRuns = 2
  MaxContracts = 18
  MaxUpdates = 1
  PollMax = 1
  MaxClock = 2

SPECIFICATION E2ELive

INVARIANTS
  AssertsHold
  NoDanglingNft
  LeavesBehind

PROPERTY RunEnds

\* The last run is over.
CHECK_DEADLOCK FALSE
