\* One vendor is configured, and two credentials may be minted.
CONSTANTS
  Configured = {"persona"}
  UserRef = {"u1"}
  MaxClicks = 2
  PollCap = 1

SPECIFICATION Spec

INVARIANTS
  FilledAsAPair
  CascadeIsShownAsItIs

PROPERTIES
  ClaimsAreOfTheSession
  ButtonsComeBack
