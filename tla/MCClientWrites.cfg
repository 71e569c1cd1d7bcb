\* A mint, and three calls that race on its credential and NFTs.
CONSTANTS
  issuer = issuer
  holder = holder
  verifier = verifier
  c1 = c1
  c2 = c2
  c3 = c3
  c4 = c4
  Party <- PlatformParty
  Scope <- MCScope
  Participant <- Platform
  HashForm = {}
  ClaimMap = {bronze, noClaims}
  NoClaims = noClaims
  Expiry = {never}
  NoExpiry = never
  Omitted = omitted
  Text = {fraud}
  NoText = noText
  Absent = absent
  MaxContracts = 5
  MaxUpdates = 1
  Call = {c1, c2, c3, c4}
  Ops <- WriteOps

SPECIFICATION ClientSpec
VIEW ClientState
SYMMETRY WriterSymmetry

\* Every call is made once.
CHECK_DEADLOCK FALSE

INVARIANTS
  ResultsAreOurs
  FactoriesAreAccountedFor
  NftIsMintedOnce
  NftLookupsAreCurrent
