\* Payload data: two claim maps and the empty one, one expiry value.
CONSTANTS
  issuer = issuer
  holder = holder
  Party <- MCParty
  Scope <- MCScope
  ClaimMap = {bronze, silver, noClaims}
  NoClaims = noClaims
  Expiry = {never}
  Text = {fraud, noText}
  NoText = noText
  Absent = absent
  MaxContracts = 4
  MaxUpdates = 2

SPECIFICATION Spec
VIEW LedgerState

\* The ledger is full after MaxContracts creates.
CHECK_DEADLOCK FALSE

INVARIANTS
  TypeOK
  OneLivePerLineage
  LineageKeepsItsParties
  RevocationIsPermanent

PROPERTIES
  DisappearsOnlyWithHolder
  RewriteIsConsentedOrStamped
  FactoryStaysInScope
  CascadeBurnsOnlyItsOwn
  ImplementsStandard
