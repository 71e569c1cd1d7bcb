\* A mint and a verify on another participant.
CONSTANTS
  issuer = issuer
  holder = holder
  verifier = verifier
  c1 = c1
  c2 = c2
  c3 = c3
  c4 = c4
  Party <- MCParty
  Scope <- MCScope
  Participant <- MCParticipant
  HashForm = {}
  ClaimMap = {bronze, noClaims}
  NoClaims = noClaims
  Expiry = {never}
  NoExpiry = never
  Omitted = omitted
  Text = {fraud}
  NoText = noText
  Absent = absent
  MaxContracts = 4
  MaxUpdates = 1
  Call = {c1, c2}
  Ops <- VerifyOps

SPECIFICATION ClientSpec
VIEW ClientState

\* Every call is made once.
CHECK_DEADLOCK FALSE

INVARIANT BlobSuffices
