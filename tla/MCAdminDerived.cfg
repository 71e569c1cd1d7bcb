CONSTANTS
  Configured = {"persona"}
  UserRef = {"u1"}
  MaxClicks = 2
  PollCap = 1

SPECIFICATION Spec

INVARIANT AdminIsDerived
