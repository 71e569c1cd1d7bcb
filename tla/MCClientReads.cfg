\* A revoked sibling can be rewritten, and a reader come at any time.
CONSTANTS
  issuer = issuer
  holder = holder
  verifier = verifier
  c1 = c1
  c2 = c2
  c3 = c3
  c4 = c4
  Party <- PlatformParty
  Scope <- MCScope
  Participant <- Platform
  HashForm = {}
  ClaimMap = {bronze, noClaims}
  NoClaims = noClaims
  Expiry = {never}
  NoExpiry = never
  Omitted = omitted
  Text = {fraud}
  NoText = noText
  Absent = absent
  MaxContracts = 4
  MaxUpdates = 1
  Call = {c1, c2, c3, c4}
  Ops <- ReadOps

SPECIFICATION ClientSpec
VIEW ClientState

\* Every call is made once.
CHECK_DEADLOCK FALSE

INVARIANTS
  ClientTypeOK
  AnswersAreCurrent
