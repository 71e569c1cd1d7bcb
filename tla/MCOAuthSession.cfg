CONSTANTS
  r1 = r1
  r2 = r2
  home = home
  settings = settings
  l1 = l1
  l2 = l2
  tab = tab
  otherTab = otherTab
  custom = custom
  Foreign = Foreign
  Null = Null
  Request <- MCRequest
  Landing <- MCLanding
  Page <- MCPage
  Store <- MCStore
  Lasting <- MCLasting
  Placement <- MCPlacement
  options <- MCOptions
  defaultRedirectUri = home

SPECIFICATION Spec

SYMMETRY Landings

INVARIANTS
  SerialRequestsStayWhole
  LostForAReason
  RefusedForAReason

PROPERTY LaterLandingsFindNothing

\* Every call ends.
CHECK_DEADLOCK FALSE
